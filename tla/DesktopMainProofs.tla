------------------------- MODULE DesktopMainProofs -------------------------
(* The stores of the main process: DesktopInv, which is inductive for any
   calls made, files found, crashes and failures; and from it TypeOK,
   SettingsKept, LogKept, CredentialHeld, ConnectionIsCurrent and, for its
   run of SQL, CompletesWithItsRows. *)
EXTENDS DesktopMain, SqlRunProofs, FunctionTheorems

----------------
(* The calls *)

CallFields == {"req", "pc", "snap", "no", "entry", "behind", "out", "list", "id", "cred",
               "served", "disturbed"}
Shaped(s) == s = [f \in CallFields |-> s[f]]

SettingsPcs == {"loading", "loaded", "backup", "saving"}
LogPcs == {"listing", "queued", "write", "writing", "rescue", "rescuing"}
ListingPcs == {"listingProjects", "listed"}
ChangingPcs == {"clearing", "storing", "savingProjects", "removing"}
OpeningPcs == {"unlocking", "unlocked", "closing"}
Pcs == {"new", "dropping"} \cup Over \cup SettingsPcs \cup LogPcs \cup ListingPcs
         \cup ChangingPcs \cup OpeningPcs

\* Handlers are at a step, and have no connection before they are over.
CallsTyped ==
  /\ call = [c \in Calls |-> call[c]] /\ Calls \subseteq Nat
  /\ \A c \in Calls :
       /\ Shaped(call[c]) /\ Requested(call[c].req) /\ call[c].pc \in Pcs
       /\ call[c].pc \notin Over => call[c].served = None

----------------
(* The settings *)

SettingsTyped ==
  /\ settingsFile \in Snapshots \cup {None, Invalid} /\ settings \in Snapshots \cup {None}
  /\ saved \in Snapshots /\ saves \in Nat /\ fileNo \in -1..saves
  /\ outdated \in BOOLEAN /\ raced \in BOOLEAN

\* Until the settings are first loaded nothing is saved, and the file is as it was.
NotLoaded ==
  settings = None =>
    saves = 0 /\ fileNo = 0 /\ ~raced /\ saved = InSettings(settingsFile)

\* A load under way has read the file as it is, until the settings are loaded; an
\* invalid file may have been moved away.
LoadTrue(s) ==
  /\ s.pc \in {"loading", "loaded"} => s.req.do \in SettingsRequests
  /\ s.pc = "loaded" =>
       /\ s.snap \in Snapshots \cup {None, Invalid}
       /\ settings = None => s.snap = settingsFile \/ (s.snap = Invalid /\ settingsFile = None)
  /\ s.pc = "backup" /\ settings = None => settingsFile \in {None, Invalid}

\* The latest save under way is what is kept.
SaveTrue(s) ==
  s.pc = "saving" =>
    /\ s.req.do = "saveSettings" /\ settings # None
    /\ s.snap \in Snapshots /\ s.no \in 1..saves
    /\ s.no = saves /\ ~raced => s.snap = saved

\* What is in the cache, and in a file that is of the latest save.
PatchesKept ==
  ~raced => /\ settings # None => settings = saved
            /\ fileNo = saves => InSettings(settingsFile) = saved

\* The file is of the latest save, unless that is under way or came to nothing.
SavesLatest(s) == s.pc = "saving" /\ s.no = saves
LatestInFile == fileNo = saves \/ outdated \/ \E c \in Calls : SavesLatest(call[c])

SettingsInv ==
  /\ SettingsTyped /\ NotLoaded /\ PatchesKept /\ LatestInFile
  /\ \A c \in Calls : LoadTrue(call[c]) /\ SaveTrue(call[c])

----------------
(* The activity log *)

LogTyped ==
  /\ log \in [entries : Seq(Entries), torn : BOOLEAN] /\ kept \in Seq(Entries)
  /\ queue \in Seq(Calls) /\ IsInjective(queue) /\ peeked \in BOOLEAN

\* A mutation that has read the log, and is not settled.
Mutating(s) == s.pc \in {"write", "writing"} \/ (s.pc \in {"rescue", "rescuing"} /\ s.req.do # "list")

\* The queue has the mutations that wait in it and the one at its head.
QueueTrue(c) ==
  /\ c \in Range(queue) <=> call[c].pc = "queued" \/ Mutating(call[c])
  /\ Mutating(call[c]) => queue # <<>> /\ Head(queue) = c

LogCallTrue(s) ==
  /\ s.pc = "listing" => s.req.do = "list"
  /\ s.pc = "queued" => s.req.do \in {"append", "clear", "saveSettings"}
  /\ s.pc \in {"write", "writing"} => s.req.do \in {"append", "saveSettings"}
  /\ s.pc \in {"rescue", "rescuing"} => s.req.do \in {"append", "saveSettings", "list"}
  /\ s.pc \in {"queued", "write", "writing"} /\ s.req.do # "clear" => s.snap \in Snapshots
  /\ s.pc \in {"queued", "write", "writing"} /\ Appends(s) => s.entry \in Entries
  /\ s.pc \in {"write", "writing", "rescue", "rescuing"} => s.out \in Seq(Entries)

\* What a mutation makes of the log, and what a repair writes back.
Outcome(s) == Pruned(IF Appends(s) THEN Append(kept, s.entry) ELSE kept, s.snap.activityLog.maxBytes)
OutTrue(s) ==
  /\ s.pc \in {"write", "writing"} => s.out = Outcome(s)
  /\ s.pc \in {"rescue", "rescuing"} => s.out = kept

LogInv ==
  /\ LogTyped /\ LogKept
  /\ \A c \in Calls : QueueTrue(c) /\ LogCallTrue(call[c])
  /\ ~peeked => ~Peeks /\ \A c \in Calls : OutTrue(call[c])

----------------
(* The projects *)

ProjectsTyped ==
  /\ ProjectList(projectsFile) /\ (projects # None => ProjectList(projects))
  /\ DOMAIN credentials \subseteq ProjectIds /\ DOMAIN connections \subseteq ProjectIds

\* Until the projects are first listed none is changed, and nothing is connected.
NotListed ==
  projects = None => /\ DOMAIN connections = {}
                     /\ \A c \in Calls : call[c].pc \notin ChangingPcs \cup OpeningPcs

Listing(s) ==
  /\ s.pc \in ListingPcs => s.req.do \in ProjectRequests
  /\ s.pc \in {"new"} \cup ListingPcs => s.cred = None
  /\ s.pc = "listed" /\ projects = None => s.list = projectsFile

\* A project is removed from the list, and from the file.
Removes(s, id) == s.pc \in {"savingProjects", "removing"} /\ s.req.do = "remove" /\ s.id = id

\* A project that is in the file only is being removed.
FileTrue ==
  projects # None =>
    \A id \in Ids(projectsFile) \ tangled :
      id \in Ids(projects) \/ \E d \in Calls : Removes(call[d], id)

\* A list being written is the one in the cache, or its projects' calls have crossed.
\* The project being added is in no list until it is saved; nor is one being removed.
Changing(s) ==
  /\ s.pc \in ChangingPcs => s.id \in ProjectIds
  /\ s.pc \in {"clearing", "storing"} =>
       /\ s.req.do = "add" /\ ProjectList(s.list) /\ s.id \notin Ids(s.list)
       /\ s.id \notin tangled => s.id \notin Ids(projects) \cup Ids(projectsFile)
  /\ s.pc = "savingProjects" =>
       /\ s.req.do \in {"add", "update", "remove"} /\ ProjectList(s.out)
       /\ s.out = projects \/ Ids(s.out) \subseteq tangled
  /\ s.pc = "removing" =>
       /\ s.req.do = "remove"
       /\ s.id \notin tangled => s.id \notin Ids(projectsFile)
  /\ Removes(s, s.id) /\ s.id \notin tangled => s.id \notin Ids(projects)

\* A connection is being opened with what its project has, unless that has changed.
Opening(s) ==
  s.pc \in OpeningPcs =>
    /\ s.req.do = "connect" /\ s.id = s.req.id
    /\ ProjectList(s.list) /\ s.id \in Ids(s.list)
    /\ ~s.disturbed /\ s.id \notin tangled =>
         /\ s.id \in Ids(projects)
         /\ \A p \in Range(projects) :
              p.id = s.id => /\ p = Find(s.list, s.id)
                             /\ s.pc = "unlocking" => p.credential
                             /\ s.pc # "unlocking" => s.cred = p.cred

\* A connection was opened with the credential its project has.
ConnectedTrue(id) ==
  ~connections[id].late /\ id \notin tangled =>
    /\ id \in Ids(projects) \/ \E d \in Calls : Removes(call[d], id)
    /\ \A p \in Range(projects) : p.id = id => connections[id].cred = p.cred

ProjectsInv ==
  /\ ProjectsTyped /\ NotListed /\ FileTrue /\ CredentialHeld
  /\ \A c \in Calls : Listing(call[c]) /\ Changing(call[c]) /\ Opening(call[c])
  /\ projects # None => \A id \in DOMAIN connections : ConnectedTrue(id)

----------------
DesktopInv == CallsTyped /\ SettingsInv /\ LogInv /\ ProjectsInv /\ SqlInv

----------------
(* Steps of the calls *)

\* Only one call makes a step.
OnlyCall(c) ==
  /\ Calls' = Calls /\ call' = [d \in Calls |-> call'[d]]
  /\ \A d \in Calls : d # c => call'[d] = call[d]

\* A call goes on to a step with the locals given: everything else stays.
LEMMA Goes ==
  ASSUME CallsTyped, NEW c \in Calls, NEW s, Shaped(s), NEW pc, To(c, s, pc)
  PROVE  /\ OnlyCall(c) /\ Shaped(call'[c]) /\ call'[c].pc = pc
         /\ \A f \in CallFields \ {"pc"} : call'[c][f] = s[f]
<1>1. call' = [call EXCEPT ![c] = [s EXCEPT !.pc = pc]] BY DEF To, Becomes
<1>2. DOMAIN call = Calls BY DEF Calls
<1>3. DOMAIN call' = DOMAIN call BY <1>1
<1>4. call'[c] = [s EXCEPT !.pc = pc] BY <1>1, <1>2
<1>5. DOMAIN s = CallFields BY DEF Shaped
<1>6. Shaped(call'[c]) /\ call'[c].pc = pc /\ \A f \in CallFields \ {"pc"} : call'[c][f] = s[f]
  BY <1>4, <1>5 DEF Shaped, CallFields
<1>7. OnlyCall(c) BY <1>1, <1>2, <1>3 DEF OnlyCall, Calls, CallsTyped
<1> QED BY <1>6, <1>7

\* No call gets a connection.
NoneServed == \A d \in Calls : call'[d].served = call[d].served

\* The calls stay typed when one goes on with its request.
LEMMA GoesTyped ==
  ASSUME CallsTyped, NEW c \in Calls, OnlyCall(c), Shaped(call'[c]), call'[c].req = call[c].req,
         call'[c].pc \in Pcs, call'[c].pc \notin Over => call'[c].served = None,
         call'[c].served = call[c].served
  PROVE  CallsTyped' /\ NoneServed
<1>1. \A d \in Calls' :
        /\ Shaped(call'[d]) /\ Requested(call'[d].req) /\ call'[d].pc \in Pcs
        /\ call'[d].pc \notin Over => call'[d].served = None
  BY DEF CallsTyped, OnlyCall
<1>2. call' = [d \in Calls' |-> call'[d]] /\ Calls' \subseteq Nat BY DEF CallsTyped, OnlyCall
<1>3. NoneServed BY DEF NoneServed, OnlyCall
<1> QED BY <1>1, <1>2, <1>3 DEF CallsTyped, Shaped, Requested

----------------
(* What the stores have nothing to do with *)

\* Calls at a step of theirs are as they were: the settings.
SettingsCallsStay ==
  /\ Calls' = Calls
  /\ \A d \in Calls : call'[d].pc \in SettingsPcs =>
       /\ call'[d].pc = call[d].pc /\ call'[d].req = call[d].req
       /\ call'[d].snap = call[d].snap /\ call'[d].no = call[d].no
  /\ \A d \in Calls : call[d].pc = "saving" => call'[d].pc = "saving"

LEMMA SettingsStay ==
  ASSUME SettingsInv, SettingsCallsStay, UNCHANGED settingsVars
  PROVE  SettingsInv'
<1> USE DEF settingsVars
<1>1. SettingsTyped' /\ NotLoaded' /\ PatchesKept'
  BY DEF SettingsInv, SettingsTyped, NotLoaded, PatchesKept, InSettings, Snapshots
<1>2. ASSUME NEW d \in Calls PROVE LoadTrue(call[d])' /\ SaveTrue(call[d])'
  <2>1. LoadTrue(call[d]) /\ SaveTrue(call[d]) BY DEF SettingsInv
  <2>2. call'[d].pc \in SettingsPcs =>
          /\ call'[d].pc = call[d].pc /\ call'[d].req = call[d].req
          /\ call'[d].snap = call[d].snap /\ call'[d].no = call[d].no
    BY DEF SettingsCallsStay
  <2> QED BY <2>1, <2>2 DEF LoadTrue, SaveTrue, SettingsPcs, SettingsRequests, Snapshots
<1>3. LatestInFile'
  <2>1. LatestInFile BY DEF SettingsInv
  <2>2. \A d \in Calls : SavesLatest(call[d]) => SavesLatest(call[d])'
    BY DEF SettingsCallsStay, SettingsPcs, SavesLatest
  <2> QED BY <2>1, <2>2 DEF LatestInFile, SettingsCallsStay
<1> QED BY <1>1, <1>2, <1>3 DEF SettingsInv, SettingsCallsStay

\* A step of a call that saves nothing, as to the latest save.
LEMMA LatestStays ==
  ASSUME LatestInFile, NEW c \in Calls, OnlyCall(c), call[c].pc # "saving",
         UNCHANGED <<saves, fileNo, outdated>>
  PROVE  LatestInFile'
<1>1. \A d \in Calls : SavesLatest(call[d]) => SavesLatest(call[d])' BY DEF OnlyCall, SavesLatest
<1> QED BY <1>1 DEF LatestInFile, OnlyCall

\* The same for the activity log.
LogCallsStay ==
  /\ Calls' = Calls
  /\ \A d \in Calls : call'[d].pc \in LogPcs \/ call[d].pc \in LogPcs =>
       /\ call'[d].pc = call[d].pc /\ call'[d].req = call[d].req
       /\ call'[d].snap = call[d].snap /\ call'[d].entry = call[d].entry
       /\ call'[d].out = call[d].out

LEMMA LogStays ==
  ASSUME LogInv, LogCallsStay, UNCHANGED <<log, queue, kept>>, peeked' = (peeked \/ Peeks')
  PROVE  LogInv'
<1>1. ASSUME NEW d \in Calls
      PROVE  /\ Mutating(call'[d]) <=> Mutating(call[d])
             /\ call'[d].pc = "queued" <=> call[d].pc = "queued"
             /\ Writing(d)' <=> Writing(d)
             /\ LogCallTrue(call[d])' /\ (OutTrue(call[d]) => OutTrue(call[d])')
  <2>1. call'[d].pc \in LogPcs \/ call[d].pc \in LogPcs =>
          /\ call'[d].pc = call[d].pc /\ call'[d].req = call[d].req
          /\ call'[d].snap = call[d].snap /\ call'[d].entry = call[d].entry
          /\ call'[d].out = call[d].out
    BY DEF LogCallsStay
  <2>2. LogCallTrue(call[d]) BY DEF LogInv
  <2>3. /\ Mutating(call'[d]) <=> Mutating(call[d])
        /\ call'[d].pc = "queued" <=> call[d].pc = "queued"
        /\ Writing(d)' <=> Writing(d)
    BY <2>1 DEF Mutating, LogPcs, Writing, Now
  <2>4. LogCallTrue(call[d])' BY <2>1, <2>2 DEF LogCallTrue, LogPcs, Appends, Snapshots, Entries
  <2>5. ASSUME OutTrue(call[d]) PROVE OutTrue(call[d])'
    BY <2>1, <2>5 DEF OutTrue, LogPcs, Outcome, Appends
  <2> QED BY <2>3, <2>4, <2>5
<1>2. LogTyped' BY DEF LogInv, LogTyped, Entries, LogCallsStay
<1>3. \A d \in Calls : QueueTrue(d)'
  <2> TAKE d \in Calls
  <2>1. QueueTrue(d) BY DEF LogInv
  <2> QED BY <1>1, <2>1 DEF QueueTrue
<1>4. Peeks' <=> Peeks
  <2>1. \A d \in Calls : /\ Now(d, {"rescue", "rescuing"})' <=> Now(d, {"rescue", "rescuing"})
                         /\ Now(d, {"rescue", "rescuing"}) => (Does(d, {"list"})' <=> Does(d, {"list"}))
    BY DEF LogCallsStay, Now, Does, LogPcs
  <2> QED BY <2>1 DEF Peeks, LogCallsStay
<1>5. LogKept' /\ (~peeked' => ~Peeks' /\ \A d \in Calls : OutTrue(call[d])')
  <2>1. ~peeked' => ~peeked /\ ~Peeks' OBVIOUS
  <2>2. (\E d \in Calls : Writing(d))' <=> \E d \in Calls : Writing(d) BY <1>1 DEF LogCallsStay
  <2>3. LogKept' BY <2>1, <2>2 DEF LogKept, LogInv
  <2> QED BY <1>1, <2>1, <2>3 DEF LogInv
<1> QED BY <1>1, <1>2, <1>3, <1>5 DEF LogInv, LogCallsStay

\* The same for the projects and their connections.
ProjectCallsStay ==
  /\ Calls' = Calls
  /\ \A d \in Calls :
       /\ call'[d].pc \in {"new"} \cup ListingPcs \cup ChangingPcs \cup OpeningPcs =>
            /\ call'[d].pc = call[d].pc /\ call'[d].req = call[d].req
            /\ call'[d].list = call[d].list /\ call'[d].id = call[d].id
            /\ call'[d].cred = call[d].cred /\ call'[d].disturbed = call[d].disturbed
            /\ call'[d].out = call[d].out
       /\ call[d].pc \in ChangingPcs => call'[d].pc = call[d].pc

LEMMA ProjectsStay ==
  ASSUME ProjectsInv, ProjectCallsStay,
         UNCHANGED <<projectsFile, projects, credentials, connections, tangled>>
  PROVE  ProjectsInv'
<1>1. ASSUME NEW d \in Calls
      PROVE  /\ \A id : Removes(call'[d], id) <=> Removes(call[d], id)
             /\ Listing(call[d])' /\ Changing(call[d])' /\ Opening(call[d])'
  <2>1. /\ call'[d].pc \in {"new"} \cup ListingPcs \cup ChangingPcs \cup OpeningPcs =>
             /\ call'[d].pc = call[d].pc /\ call'[d].req = call[d].req
             /\ call'[d].list = call[d].list /\ call'[d].id = call[d].id
             /\ call'[d].cred = call[d].cred /\ call'[d].disturbed = call[d].disturbed
             /\ call'[d].out = call[d].out
        /\ call[d].pc \in ChangingPcs => call'[d].pc = call[d].pc
    BY DEF ProjectCallsStay
  <2>2. Listing(call[d]) /\ Changing(call[d]) /\ Opening(call[d]) BY DEF ProjectsInv
  <2>3. \A id : Removes(call'[d], id) <=> Removes(call[d], id) BY <2>1 DEF Removes, ChangingPcs
  <2>4. Listing(call[d])' BY <2>1, <2>2 DEF Listing, ListingPcs, ProjectRequests
  <2>5. Changing(call[d])'
    BY <2>1, <2>2 DEF Changing, ChangingPcs, Removes, ProjectList, Ids, ProjectIds
  <2>6. Opening(call[d])'
    <3> SUFFICES ASSUME call'[d].pc \in OpeningPcs PROVE Opening(call[d])' BY DEF Opening
    <3>1. /\ call'[d].pc = call[d].pc /\ call'[d].req = call[d].req
          /\ call'[d].list = call[d].list /\ call'[d].id = call[d].id
          /\ call'[d].cred = call[d].cred /\ call'[d].disturbed = call[d].disturbed
      BY <2>1
    <3>2. ProjectList(call'[d].list) <=> ProjectList(call[d].list) BY <3>1
    <3>3. ProjectList(call[d].list)' <=> ProjectList(call'[d].list) BY DEF ProjectList
    <3>4. (Find(call[d].list, call[d].id))' = Find(call[d].list, call[d].id) BY <3>1 DEF Find, Place
    <3>5. Ids(projects)' = Ids(projects) /\ Ids(call[d].list)' = Ids(call[d].list) BY <3>1 DEF Ids
    <3> QED BY <2>2, <3>1, <3>2, <3>3, <3>4, <3>5 DEF Opening
  <2> QED BY <2>3, <2>4, <2>5, <2>6
<1>2. ProjectsTyped' BY DEF ProjectsInv, ProjectsTyped, ProjectList, ProjectIds
<1>3. NotListed'
  <2>1. NotListed BY DEF ProjectsInv
  <2> QED BY <2>1 DEF NotListed, ProjectCallsStay
<1>4. \A id : (\E d \in Calls : Removes(call[d], id))' <=> \E d \in Calls : Removes(call[d], id)
  BY <1>1 DEF ProjectCallsStay
<1>5. FileTrue'
  <2>1. FileTrue BY DEF ProjectsInv
  <2> QED BY <1>4, <2>1 DEF FileTrue, Ids
<1>6. CredentialHeld' BY DEF ProjectsInv, CredentialHeld
<1>7. \A id : ConnectedTrue(id) => ConnectedTrue(id)' BY <1>4 DEF ConnectedTrue, Ids
<1> QED BY <1>1, <1>2, <1>3, <1>5, <1>6, <1>7 DEF ProjectsInv, ProjectCallsStay

\* A call that is none of theirs before and after.
LEMMA OthersStay ==
  ASSUME CallsTyped, NEW c \in Calls, OnlyCall(c)
  PROVE  /\ call'[c].pc \notin SettingsPcs /\ call[c].pc # "saving" => SettingsCallsStay
         /\ call[c].pc \notin LogPcs /\ call'[c].pc \notin LogPcs => LogCallsStay
         /\ call[c].pc \notin ChangingPcs
              /\ call'[c].pc \notin {"new"} \cup ListingPcs \cup ChangingPcs \cup OpeningPcs =>
            ProjectCallsStay
BY DEF OnlyCall, SettingsCallsStay, LogCallsStay, ProjectCallsStay

----------------
(* The queue of mutations *)

\* A mutation is queued behind the others.
LEMMA QueuedKeeps ==
  ASSUME CallsTyped, LogInv, NEW c \in Calls, OnlyCall(c), call[c].pc \notin LogPcs,
         call'[c].pc = "queued", LogCallTrue(call'[c]),
         queue' = Append(queue, c), UNCHANGED <<log, kept>>, peeked' = (peeked \/ Peeks')
  PROVE  LogInv'
<1>1. /\ queue \in Seq(Calls) /\ IsInjective(queue)
      /\ \A d \in Calls : QueueTrue(d)
  BY DEF LogInv, LogTyped
<1>2. c \notin Range(queue) BY <1>1 DEF QueueTrue, LogPcs, Mutating
<1>3. /\ queue' \in Seq(Calls) /\ Len(queue') = Len(queue) + 1
      /\ \A i \in 1..Len(queue) : queue'[i] = queue[i]
      /\ queue'[Len(queue) + 1] = c
      /\ DOMAIN queue = 1..Len(queue) /\ DOMAIN queue' = 1..(Len(queue) + 1)
      /\ Len(queue) \in Nat
  BY <1>1
<1>4. IsInjective(queue') BY <1>1, <1>2, <1>3 DEF IsInjective, Range
<1>5. Range(queue') = Range(queue) \cup {c} BY <1>3 DEF Range
<1>6. queue # <<>> => Head(queue') = Head(queue) BY <1>1, <1>3
<1>7. queue' # <<>> BY <1>3
<1>8. LogTyped' BY <1>3, <1>4 DEF LogInv, LogTyped, Entries, OnlyCall
<1>9. \A d \in Calls : QueueTrue(d)'
  <2> TAKE d \in Calls
  <2>1. QueueTrue(d) BY <1>1
  <2>2. CASE d = c
    <3>1. call'[d].pc = "queued" BY <2>2
    <3>2. d \in Range(queue)' BY <1>5, <2>2
    <3>3. ~Mutating(call'[d]) BY <3>1 DEF Mutating
    <3> QED BY <3>1, <3>2, <3>3 DEF QueueTrue
  <2>3. CASE d # c
    <3>1. call'[d] = call[d] BY <2>3 DEF OnlyCall
    <3> QED BY <1>5, <1>6, <1>7, <2>1, <2>3, <3>1 DEF QueueTrue
  <2> QED BY <2>2, <2>3
<1>10. \A d \in Calls : LogCallTrue(call[d])'
  <2> TAKE d \in Calls
  <2>1. LogCallTrue(call[d]) BY DEF LogInv
  <2> QED BY <2>1 DEF OnlyCall, LogCallTrue, Snapshots, Entries, Appends
<1>11. \A d \in Calls : Writing(d)' <=> Writing(d) BY DEF OnlyCall, Writing, Now, LogPcs
<1>12. Peeks => Peeks'
  <2>1. \A d \in Calls : Now(d, {"rescue", "rescuing"}) => call'[d] = call[d]
    BY DEF Now, OnlyCall, LogPcs
  <2> QED BY <1>7, <2>1 DEF Peeks, Now, Does, OnlyCall
<1>13. LogKept' BY <1>11 DEF LogKept, LogInv, OnlyCall
<1>14. ~peeked' => ~Peeks' /\ \A d \in Calls : OutTrue(call[d])'
  <2> SUFFICES ASSUME ~peeked' PROVE \A d \in Calls : OutTrue(call[d])' OBVIOUS
  <2> TAKE d \in Calls
  <2>1. OutTrue(call[d]) BY DEF LogInv
  <2>2. CASE d = c BY <2>2 DEF OutTrue
  <2>3. CASE d # c
    <3>1. call'[d] = call[d] BY <2>3 DEF OnlyCall
    <3> QED BY <2>1, <3>1 DEF OutTrue, Outcome, Appends
  <2> QED BY <2>2, <2>3
<1> QED BY <1>8, <1>9, <1>10, <1>13, <1>14 DEF LogInv, OnlyCall

\* Unless a listing repairs the log meanwhile, the mutation at the head has it for itself.
LEMMA Alone ==
  ASSUME CallsTyped, LogInv, ~peeked, NEW c \in Calls, Mutates(c)
  PROVE  \A d \in Calls \ {c} : call[d].pc \notin {"write", "writing", "rescue", "rescuing"}
<1> SUFFICES ASSUME NEW d \in Calls \ {c},
                    call[d].pc \in {"write", "writing", "rescue", "rescuing"}
             PROVE  FALSE
  OBVIOUS
<1>1. QueueTrue(d) /\ LogCallTrue(call[d]) /\ ~Peeks BY DEF LogInv
<1>2. queue # <<>> /\ Head(queue) = c BY DEF Mutates
<1>3. ~Mutating(call[d]) BY <1>1, <1>2 DEF QueueTrue
<1>4. call[d].pc \in {"rescue", "rescuing"} /\ call[d].req.do = "list" BY <1>3 DEF Mutating
<1> QED BY <1>1, <1>2, <1>4 DEF Peeks, Now, Does

\* And so has a listing that repairs the log.
LEMMA AloneToo ==
  ASSUME CallsTyped, LogInv, ~peeked, NEW c \in Calls,
         call[c].pc \in {"rescue", "rescuing"}, call[c].req.do = "list"
  PROVE  /\ queue = <<>>
         /\ \A d \in Calls \ {c} : call[d].pc \notin {"write", "writing", "rescue", "rescuing"}
<1>1. ~Peeks BY DEF LogInv
<1>2. queue = <<>> /\ \A d \in Calls \ {c} : ~Now(d, {"rescue", "rescuing"})
  BY <1>1 DEF Peeks, Now, Does
<1>3. \A d \in Calls : ~Mutating(call[d]) BY <1>2 DEF LogInv, QueueTrue
<1> QED BY <1>2, <1>3 DEF Mutating, Now

----------------
(* Steps of the settings *)

LEMMA SettingsValues ==
  /\ \A file \in Snapshots \cup {None, Invalid} : InSettings(file) \in Snapshots
  /\ \A snap \in Snapshots : snap # None /\ snap # Invalid /\ InSettings(snap) = snap
BY StoresAssumption DEF InSettings

\* A patch of settings gives settings.
LEMMA PatchedTyped ==
  ASSUME NEW snap \in Snapshots, NEW r, Requested(r), r.do = "saveSettings"
  PROVE  Patched(snap, r.patch) \in Snapshots
<1> DEFINE D == DefaultSettings
<1>1. D \in Snapshots BY StoresAssumption
<1>2. DOMAIN D = {"theme", "activityLog"} /\ DOMAIN snap = DOMAIN D BY <1>1 DEF Snapshots
<1>3. DOMAIN r.patch \subseteq DOMAIN D /\ Patched(D, r.patch) \in Snapshots BY DEF Requested
<1>4. \A f \in DOMAIN D : Patched(D, r.patch)[f] = IF f \in DOMAIN r.patch THEN r.patch[f] ELSE D[f]
  BY DEF Patched
<1>5. \A f \in DOMAIN D : Patched(snap, r.patch)[f] = IF f \in DOMAIN r.patch THEN r.patch[f] ELSE snap[f]
  BY <1>2 DEF Patched
<1> DEFINE P == Patched(snap, r.patch)
<1>6. P = [f \in {"theme", "activityLog"} |-> P[f]] BY <1>2 DEF Patched
<1>7. P["theme"] \in {"system", "dark"} /\ P["activityLog"] \in [maxBytes : Nat, enabled : BOOLEAN]
  BY <1>1, <1>2, <1>3, <1>4, <1>5 DEF Snapshots
<1> HIDE DEF P
<1>8. P = [theme |-> P["theme"], activityLog |-> P["activityLog"]] BY <1>6
<1> QED BY <1>7, <1>8 DEF Snapshots, P

\* The cache gets settings that are those kept, unless a load raced with a save.
LEMMA CacheFilled ==
  ASSUME CallsTyped, SettingsInv, NEW c \in Calls, OnlyCall(c),
         call[c].pc # "saving", call'[c].pc \notin SettingsPcs, NEW snap \in Snapshots,
         settings' = snap, UNCHANGED <<settingsFile, saves, saved, fileNo, outdated>>,
         raced' \in BOOLEAN, raced => raced', ~raced' => snap = saved
  PROVE  SettingsInv'
<1>1. settings' # None BY SettingsValues
<1>2. SettingsTyped' BY DEF SettingsInv, SettingsTyped, Snapshots
<1>3. NotLoaded' BY <1>1 DEF NotLoaded
<1>4. PatchesKept' BY DEF SettingsInv, PatchesKept, InSettings
<1>5. ASSUME NEW d \in Calls PROVE LoadTrue(call[d])' /\ SaveTrue(call[d])'
  <2>1. CASE d = c BY <2>1 DEF LoadTrue, SaveTrue, SettingsPcs
  <2>2. CASE d # c
    <3>1. call'[d] = call[d] /\ LoadTrue(call[d]) /\ SaveTrue(call[d])
      BY <2>2 DEF OnlyCall, SettingsInv
    <3>2. LoadTrue(call[d])' BY <1>1, <3>1 DEF LoadTrue, Snapshots
    <3>3. SaveTrue(call[d])' BY <1>1, <3>1 DEF SaveTrue, Snapshots
    <3> QED BY <3>2, <3>3
  <2> QED BY <2>1, <2>2
<1>6. LatestInFile' BY LatestStays DEF SettingsInv
<1> QED BY <1>2, <1>3, <1>4, <1>5, <1>6 DEF SettingsInv, OnlyCall

\* A save changes the cache, and is from then on the latest.
LEMMA MergedKeeps ==
  ASSUME CallsTyped, SettingsInv, NEW c \in Calls, NEW s, Shaped(s), s.req = call[c].req,
         s.req.do = "saveSettings", NEW snap \in Snapshots, Merged(c, s, snap),
         UNCHANGED <<settingsFile, fileNo, outdated>>,
         raced' \in BOOLEAN, raced => raced', ~raced' => snap = saved
  PROVE  /\ OnlyCall(c) /\ Shaped(call'[c]) /\ call'[c].pc = "saving"
         /\ call'[c].req = s.req /\ call'[c].served = s.served
         /\ SettingsInv'
<1> DEFINE merged == Patched(snap, s.req.patch)
           t == [s EXCEPT !.snap = merged, !.no = saves + 1]
<1>1. /\ settings' = merged /\ saves' = saves + 1 /\ saved' = Patched(saved, s.req.patch)
      /\ To(c, t, "saving")
  BY DEF Merged
<1>2. /\ Shaped(t) /\ t.snap = merged /\ t.no = saves + 1
      /\ \A f \in CallFields \ {"snap", "no"} : t[f] = s[f]
  BY DEF Shaped, CallFields
<1>3. Requested(s.req) BY DEF CallsTyped
<1>4. SettingsTyped BY DEF SettingsInv
<1>5. merged \in Snapshots /\ saved' \in Snapshots
  BY <1>1, <1>3, <1>4, PatchedTyped DEF SettingsTyped
<1> HIDE DEF merged, t
<1>6. /\ OnlyCall(c) /\ Shaped(call'[c]) /\ call'[c].pc = "saving"
      /\ \A f \in CallFields \ {"pc"} : call'[c][f] = t[f]
  BY <1>1, <1>2, Goes
<1>7. /\ call'[c].req = s.req /\ call'[c].served = s.served
      /\ call'[c].snap = merged /\ call'[c].no = saves + 1
  BY <1>2, <1>6 DEF CallFields
<1>8. settings' # None BY <1>1, <1>5, SettingsValues
<1>9. ~raced' => merged = saved' BY <1>1 DEF merged
<1>10. SettingsTyped' BY <1>1, <1>4, <1>5 DEF SettingsTyped, Snapshots
<1>11. NotLoaded' BY <1>8 DEF NotLoaded
<1>12. PatchesKept' BY <1>1, <1>4, <1>9 DEF PatchesKept, SettingsTyped
<1>13. ASSUME NEW d \in Calls PROVE LoadTrue(call[d])' /\ SaveTrue(call[d])'
  <2>1. CASE d = c
    <3>1. LoadTrue(call[d])' BY <1>6, <2>1 DEF LoadTrue
    <3>2. saves + 1 \in 1..(saves + 1) BY <1>4 DEF SettingsTyped
    <3>3. merged \in Snapshots' BY <1>5 DEF Snapshots
    <3>4. SaveTrue(call[d])' BY <1>1, <1>7, <1>8, <1>9, <2>1, <3>2, <3>3 DEF SaveTrue
    <3> QED BY <3>1, <3>4
  <2>2. CASE d # c
    <3>1. call'[d] = call[d] /\ LoadTrue(call[d]) /\ SaveTrue(call[d])
      BY <1>6, <2>2 DEF OnlyCall, SettingsInv
    <3>2. LoadTrue(call[d])' BY <1>8, <3>1 DEF LoadTrue, Snapshots
    <3>3. SaveTrue(call[d])' BY <1>1, <1>4, <1>8, <3>1 DEF SaveTrue, Snapshots, SettingsTyped
    <3> QED BY <3>2, <3>3
  <2> QED BY <2>1, <2>2
<1>14. LatestInFile' BY <1>1, <1>6, <1>7 DEF LatestInFile, SavesLatest, OnlyCall
<1>15. SettingsInv' BY <1>6, <1>10, <1>11, <1>12, <1>13, <1>14 DEF SettingsInv, OnlyCall
<1> QED BY <1>6, <1>7, <1>15

\* The continuations of a load.
LEMMA LoadedKeeps ==
  ASSUME CallsTyped, SettingsInv, LogInv, NEW c \in Calls, call[c].pc \notin LogPcs \cup {"saving"},
         NEW s, Shaped(s), s.req = call[c].req, NEW snap \in Snapshots, Loaded(c, s, snap),
         UNCHANGED <<settingsFile, fileNo, outdated, log, kept>>, peeked' = (peeked \/ Peeks'),
         raced' \in BOOLEAN, raced => raced', ~raced' => snap = saved
  PROVE  /\ OnlyCall(c) /\ Shaped(call'[c]) /\ call'[c].pc \in {"done", "saving", "queued"}
         /\ call'[c].req = s.req /\ call'[c].served = s.served
         /\ SettingsInv' /\ LogInv'
<1>1. CASE s.req.do = "loadSettings" /\ Ends(c, s) /\ settings' = snap /\ UNCHANGED <<saves, saved, queue>>
  <2>1. To(c, s, "done") BY <1>1 DEF Ends
  <2>2. /\ OnlyCall(c) /\ Shaped(call'[c]) /\ call'[c].pc = "done"
        /\ \A f \in CallFields \ {"pc"} : call'[c][f] = s[f]
    BY <2>1, Goes
  <2>3. call'[c].req = s.req /\ call'[c].served = s.served BY <2>2 DEF CallFields
  <2>4. call'[c].pc \notin SettingsPcs /\ call'[c].pc \notin LogPcs BY <2>2 DEF SettingsPcs, LogPcs
  <2>5. SettingsInv' BY <1>1, <2>2, <2>4, CacheFilled
  <2>6. LogCallsStay BY <2>2, <2>4, OthersStay
  <2>7. LogInv' BY <1>1, <2>6, LogStays
  <2> QED BY <2>2, <2>3, <2>5, <2>7
<1>2. CASE s.req.do = "saveSettings" /\ Merged(c, s, snap) /\ UNCHANGED queue
  <2>1. /\ OnlyCall(c) /\ Shaped(call'[c]) /\ call'[c].pc = "saving"
        /\ call'[c].req = s.req /\ call'[c].served = s.served /\ SettingsInv'
    BY <1>2, MergedKeeps
  <2>2. call'[c].pc \notin LogPcs BY <2>1 DEF LogPcs
  <2>3. LogCallsStay BY <2>1, <2>2, OthersStay
  <2>4. LogInv' BY <1>2, <2>3, LogStays
  <2> QED BY <2>1, <2>4
<1>3. CASE s.req.do = "append" /\ settings' = snap /\ snap.activityLog.enabled /\ UNCHANGED <<saves, saved>>
           /\ Queued(c, [s EXCEPT !.entry = Sanitized(c, s, snap.activityLog.maxBytes), !.snap = snap])
  <2> DEFINE e == Sanitized(c, s, snap.activityLog.maxBytes)
             t == [s EXCEPT !.entry = e, !.snap = snap]
  <2>1. /\ Shaped(t) /\ t.snap = snap /\ t.entry = e
        /\ \A f \in CallFields \ {"snap", "entry"} : t[f] = s[f]
    BY DEF Shaped, CallFields
  <2>2. Requested(s.req) /\ c \in Nat BY DEF CallsTyped
  <2>3. e \in Entries
    <3>1. s.req.size \in Nat BY <1>3, <2>2 DEF Requested
    <3>2. (IF s.req.size <= snap.activityLog.maxBytes THEN s.req.size ELSE 1) \in Nat BY <3>1
    <3> QED BY <2>2, <3>2 DEF Sanitized, Entries
  <2>4. queue' = Append(queue, c) /\ To(c, t, "queued") BY <1>3 DEF Queued
  <2> HIDE DEF e, t
  <2>5. /\ OnlyCall(c) /\ Shaped(call'[c]) /\ call'[c].pc = "queued"
        /\ \A f \in CallFields \ {"pc"} : call'[c][f] = t[f]
    BY <2>1, <2>4, Goes
  <2>6. /\ call'[c].req = s.req /\ call'[c].served = s.served
        /\ call'[c].snap = snap /\ call'[c].entry = e
    BY <2>1, <2>5 DEF CallFields
  <2>7. call'[c].pc \notin SettingsPcs BY <2>5 DEF SettingsPcs
  <2>8. SettingsInv' BY <1>3, <2>5, <2>7, CacheFilled
  <2>9. LogCallTrue(call'[c]) BY <1>3, <2>3, <2>5, <2>6 DEF LogCallTrue
  <2>10. LogInv' BY <1>3, <2>4, <2>5, <2>9, QueuedKeeps
  <2> QED BY <2>5, <2>6, <2>8, <2>10
<1>4. CASE s.req.do = "append" /\ settings' = snap /\ Ends(c, s) /\ UNCHANGED <<saves, saved, queue>>
  <2>1. To(c, s, "done") BY <1>4 DEF Ends
  <2>2. /\ OnlyCall(c) /\ Shaped(call'[c]) /\ call'[c].pc = "done"
        /\ \A f \in CallFields \ {"pc"} : call'[c][f] = s[f]
    BY <2>1, Goes
  <2>3. call'[c].req = s.req /\ call'[c].served = s.served BY <2>2 DEF CallFields
  <2>4. call'[c].pc \notin SettingsPcs /\ call'[c].pc \notin LogPcs BY <2>2 DEF SettingsPcs, LogPcs
  <2>5. SettingsInv' BY <1>4, <2>2, <2>4, CacheFilled
  <2>6. LogCallsStay BY <2>2, <2>4, OthersStay
  <2>7. LogInv' BY <1>4, <2>6, LogStays
  <2> QED BY <2>2, <2>3, <2>5, <2>7
<1> QED BY <1>1, <1>2, <1>3, <1>4 DEF Loaded

\* What a step of the stores keeps of all of them but the projects.
FilesKept == CallsTyped' /\ NoneServed /\ SettingsInv' /\ LogInv'

LEMMA LoadKeeps ==
  ASSUME CallsTyped, SettingsInv, LogInv, NEW c \in Calls, Load(c), peeked' = (peeked \/ Peeks')
  PROVE  FilesKept /\ (UNCHANGED projectsVars /\ ProjectsInv => ProjectsInv')
<1>1. /\ call[c].pc = "new" /\ call[c].req.do \in SettingsRequests
      /\ Shaped(call[c]) /\ call[c].served = None
  BY DEF Load, Arrives, Now, Does, CallsTyped, Over
<1>2. UNCHANGED <<settingsFile, fileNo, outdated, raced, log, kept>> BY DEF Load
<1>3. SettingsTyped /\ PatchesKept BY DEF SettingsInv
<1>4. CASE settings # None /\ Loaded(c, call[c], settings)
  <2>1. settings \in Snapshots /\ (~raced => settings = saved)
    BY <1>3, <1>4 DEF SettingsTyped, PatchesKept
  <2>2. call[c].pc \notin LogPcs \cup {"saving"} BY <1>1 DEF LogPcs
  <2>3. raced' \in BOOLEAN /\ (raced => raced') /\ (~raced' => settings = saved)
    BY <1>2, <1>3, <2>1 DEF SettingsTyped
  <2>4. /\ OnlyCall(c) /\ Shaped(call'[c]) /\ call'[c].pc \in {"done", "saving", "queued"}
        /\ call'[c].req = call[c].req /\ call'[c].served = call[c].served
        /\ SettingsInv' /\ LogInv'
    BY <1>1, <1>2, <1>4, <2>1, <2>2, <2>3, LoadedKeeps
  <2>5. CallsTyped' /\ NoneServed BY <1>1, <2>4, GoesTyped DEF Pcs, Over, SettingsPcs, LogPcs
  <2>6. ProjectCallsStay BY <1>1, <2>4, OthersStay DEF ListingPcs, ChangingPcs, OpeningPcs
  <2> QED BY <2>4, <2>5, <2>6, ProjectsStay DEF FilesKept, projectsVars
<1>5. CASE To(c, call[c], "loading") /\ UNCHANGED <<settings, saves, saved, queue>>
  <2>1. /\ OnlyCall(c) /\ Shaped(call'[c]) /\ call'[c].pc = "loading"
        /\ \A f \in CallFields \ {"pc"} : call'[c][f] = call[c][f]
    BY <1>1, <1>5, Goes
  <2>2. call'[c].req = call[c].req /\ call'[c].served = call[c].served BY <2>1 DEF CallFields
  <2>3. CallsTyped' /\ NoneServed BY <1>1, <2>1, <2>2, GoesTyped DEF Pcs, SettingsPcs
  <2>4. call[c].pc \notin LogPcs \cup ChangingPcs
        /\ call'[c].pc \notin LogPcs \cup {"new"} \cup ListingPcs \cup ChangingPcs \cup OpeningPcs
    BY <1>1, <2>1 DEF LogPcs, ListingPcs, ChangingPcs, OpeningPcs
  <2>5. LogCallsStay /\ ProjectCallsStay BY <2>1, <2>4, OthersStay
  <2>6. SettingsTyped' /\ NotLoaded' /\ PatchesKept' BY <1>2, <1>3, <1>5
       DEF SettingsInv, SettingsTyped, NotLoaded, PatchesKept, InSettings, Snapshots
  <2>7. ASSUME NEW d \in Calls PROVE LoadTrue(call[d])' /\ SaveTrue(call[d])'
    <3>1. CASE d = c
      <4>1. call'[d].pc = "loading" /\ call'[d].req.do \in SettingsRequests
        BY <1>1, <2>1, <2>2, <3>1
      <4> QED BY <4>1 DEF LoadTrue, SaveTrue, SettingsRequests
    <3>2. CASE d # c
      <4>1. call'[d] = call[d] /\ LoadTrue(call[d]) /\ SaveTrue(call[d])
        BY <2>1, <3>2 DEF OnlyCall, SettingsInv
      <4> QED BY <1>2, <1>5, <4>1 DEF LoadTrue, SaveTrue, Snapshots, SettingsRequests
    <3> QED BY <3>1, <3>2
  <2>8. LatestInFile' BY <1>1, <1>2, <1>5, <2>1, LatestStays DEF SettingsInv
  <2>9. SettingsInv' BY <2>1, <2>6, <2>7, <2>8 DEF SettingsInv, OnlyCall
  <2>10. LogInv' BY <1>2, <1>5, <2>5, LogStays
  <2> QED BY <2>3, <2>5, <2>9, <2>10, ProjectsStay DEF FilesKept, projectsVars
<1> QED BY <1>4, <1>5 DEF Load

LEMMA ReadSettingsKeeps ==
  ASSUME CallsTyped, SettingsInv, LogInv, NEW c \in Calls, ReadSettings(c),
         peeked' = (peeked \/ Peeks')
  PROVE  FilesKept /\ (UNCHANGED projectsVars /\ ProjectsInv => ProjectsInv')
<1>1. call[c].pc = "loading" /\ Shaped(call[c]) /\ call[c].served = None
  BY DEF ReadSettings, Now, CallsTyped, Over
<1>2. UNCHANGED <<settingsVars, logVars>> BY DEF ReadSettings
<1> DEFINE t == [call[c] EXCEPT !.snap = settingsFile]
<1>3. /\ Shaped(t) /\ t.snap = settingsFile
      /\ \A f \in CallFields \ {"snap"} : t[f] = call[c][f]
  BY <1>1 DEF Shaped, CallFields
<1>4. To(c, t, "loaded") BY DEF ReadSettings
<1> HIDE DEF t
<1>5. /\ OnlyCall(c) /\ Shaped(call'[c]) /\ call'[c].pc = "loaded"
      /\ \A f \in CallFields \ {"pc"} : call'[c][f] = t[f]
  BY <1>3, <1>4, Goes
<1>6. /\ call'[c].req = call[c].req /\ call'[c].served = call[c].served
      /\ call'[c].snap = settingsFile
  BY <1>3, <1>5 DEF CallFields
<1>7. CallsTyped' /\ NoneServed BY <1>1, <1>5, <1>6, GoesTyped DEF Pcs, SettingsPcs
<1>8. call[c].pc \notin LogPcs \cup ChangingPcs
      /\ call'[c].pc \notin LogPcs \cup {"new"} \cup ListingPcs \cup ChangingPcs \cup OpeningPcs
  BY <1>1, <1>5 DEF LogPcs, ListingPcs, ChangingPcs, OpeningPcs
<1>9. LogCallsStay /\ ProjectCallsStay BY <1>5, <1>8, OthersStay
<1>10. SettingsTyped' /\ NotLoaded' /\ PatchesKept' BY <1>2
     DEF SettingsInv, SettingsTyped, NotLoaded, PatchesKept, InSettings, Snapshots, settingsVars
<1>11. ASSUME NEW d \in Calls PROVE LoadTrue(call[d])' /\ SaveTrue(call[d])'
  <2>1. CASE d = c
    <3>1. LoadTrue(call[d]) /\ settingsFile \in Snapshots \cup {None, Invalid}
      BY DEF SettingsInv, SettingsTyped
    <3> QED BY <1>1, <1>2, <1>5, <1>6, <2>1, <3>1
            DEF LoadTrue, SaveTrue, Snapshots, SettingsRequests, settingsVars
  <2>2. CASE d # c
    <3>1. call'[d] = call[d] /\ LoadTrue(call[d]) /\ SaveTrue(call[d])
      BY <1>5, <2>2 DEF OnlyCall, SettingsInv
    <3> QED BY <1>2, <3>1 DEF LoadTrue, SaveTrue, Snapshots, SettingsRequests, settingsVars
  <2> QED BY <2>1, <2>2
<1>12. LatestInFile' BY <1>1, <1>2, <1>5, LatestStays DEF SettingsInv, settingsVars
<1>13. SettingsInv' BY <1>5, <1>10, <1>11, <1>12 DEF SettingsInv, OnlyCall
<1>14. LogInv' BY <1>2, <1>9, LogStays DEF logVars
<1> QED BY <1>7, <1>9, <1>13, <1>14, ProjectsStay DEF FilesKept, projectsVars

LEMMA FailsTyped ==
  ASSUME CallsTyped, NEW c \in Calls, Fails(c)
  PROVE  /\ OnlyCall(c) /\ CallsTyped' /\ NoneServed /\ call'[c].pc = "failed"
         /\ call'[c].req = call[c].req /\ call'[c].id = call[c].id
<1>1. Shaped(call[c]) /\ To(c, call[c], "failed") BY DEF CallsTyped, Fails
<1>2. /\ OnlyCall(c) /\ Shaped(call'[c]) /\ call'[c].pc = "failed"
      /\ \A f \in CallFields \ {"pc"} : call'[c][f] = call[c][f]
  BY <1>1, Goes
<1>3. /\ call'[c].req = call[c].req /\ call'[c].id = call[c].id
      /\ call'[c].served = call[c].served
  BY <1>2 DEF CallFields
<1>4. CallsTyped' /\ NoneServed BY <1>2, <1>3, GoesTyped DEF Pcs, Over
<1> QED BY <1>2, <1>3, <1>4

LEMMA SettingsReadKeeps ==
  ASSUME CallsTyped, SettingsInv, LogInv, NEW c \in Calls, SettingsRead(c),
         peeked' = (peeked \/ Peeks')
  PROVE  FilesKept /\ (UNCHANGED projectsVars /\ ProjectsInv => ProjectsInv')
<1> DEFINE s == call[c]
<1>1. s.pc = "loaded" /\ Shaped(s) /\ s.served = None /\ LoadTrue(s)
  BY DEF SettingsRead, Now, CallsTyped, Over, SettingsInv
<1>2. UNCHANGED <<settingsFile, fileNo, outdated, log, kept>> BY DEF SettingsRead
<1>3. SettingsTyped /\ PatchesKept /\ NotLoaded BY DEF SettingsInv
<1>4. CASE s.snap = Invalid /\ To(c, s, "backup") /\ UNCHANGED <<settings, saves, saved, queue, raced>>
  <2>1. /\ OnlyCall(c) /\ Shaped(call'[c]) /\ call'[c].pc = "backup"
        /\ \A f \in CallFields \ {"pc"} : call'[c][f] = s[f]
    BY <1>1, <1>4, Goes
  <2>2. call'[c].req = s.req /\ call'[c].served = s.served BY <2>1 DEF CallFields
  <2>3. CallsTyped' /\ NoneServed BY <1>1, <2>1, <2>2, GoesTyped DEF Pcs, SettingsPcs
  <2>4. s.pc \notin LogPcs \cup ChangingPcs
        /\ call'[c].pc \notin LogPcs \cup {"new"} \cup ListingPcs \cup ChangingPcs \cup OpeningPcs
    BY <1>1, <2>1 DEF LogPcs, ListingPcs, ChangingPcs, OpeningPcs
  <2>5. LogCallsStay /\ ProjectCallsStay BY <2>1, <2>4, OthersStay
  <2>6. SettingsTyped' /\ NotLoaded' /\ PatchesKept'
    BY <1>2, <1>3, <1>4 DEF SettingsTyped, NotLoaded, PatchesKept, InSettings, Snapshots
  <2>7. ASSUME NEW d \in Calls PROVE LoadTrue(call[d])' /\ SaveTrue(call[d])'
    <3>1. CASE d = c
      <4>1. call'[d].pc = "backup" BY <2>1, <3>1
      <4>2. settings' = None => settingsFile' \in {None, Invalid} BY <1>1, <1>2, <1>4 DEF LoadTrue
      <4> QED BY <4>1, <4>2 DEF LoadTrue, SaveTrue
    <3>2. CASE d # c
      <4>1. call'[d] = call[d] /\ LoadTrue(call[d]) /\ SaveTrue(call[d])
        BY <2>1, <3>2 DEF OnlyCall, SettingsInv
      <4> QED BY <1>2, <1>4, <4>1 DEF LoadTrue, SaveTrue, Snapshots, SettingsRequests
    <3> QED BY <3>1, <3>2
  <2>8. LatestInFile' BY <1>1, <1>2, <1>4, <2>1, LatestStays DEF SettingsInv
  <2>9. SettingsInv' BY <2>1, <2>6, <2>7, <2>8 DEF SettingsInv, OnlyCall
  <2>10. LogInv' BY <1>2, <1>4, <2>5, LogStays
  <2> QED BY <2>3, <2>5, <2>9, <2>10, ProjectsStay DEF FilesKept, projectsVars
<1>5. CASE s.snap # Invalid /\ Loaded(c, s, InSettings(s.snap))
           /\ raced' = (raced \/ (settings # None /\ settings # InSettings(s.snap)))
  <2> DEFINE snap == InSettings(s.snap)
  <2>1. s.snap \in Snapshots \cup {None, Invalid} BY <1>1 DEF LoadTrue
  <2>2. snap \in Snapshots BY <2>1, SettingsValues
  <2>3. settings = None => snap = saved BY <1>1, <1>3, <1>5 DEF LoadTrue, NotLoaded
  <2>4. raced' \in BOOLEAN /\ (raced => raced') /\ (~raced' => snap = saved)
    BY <1>3, <1>5, <2>3 DEF SettingsTyped, PatchesKept
  <2>5. s.pc \notin LogPcs \cup {"saving"} BY <1>1 DEF LogPcs
  <2> HIDE DEF snap
  <2>6. Loaded(c, s, snap) BY <1>5 DEF snap
  <2>7. /\ OnlyCall(c) /\ Shaped(call'[c]) /\ call'[c].pc \in {"done", "saving", "queued"}
        /\ call'[c].req = s.req /\ call'[c].served = s.served
        /\ SettingsInv' /\ LogInv'
    BY <1>1, <1>2, <2>2, <2>4, <2>5, <2>6, LoadedKeeps
  <2>8. CallsTyped' /\ NoneServed BY <1>1, <2>7, GoesTyped DEF Pcs, Over, SettingsPcs, LogPcs
  <2>9. ProjectCallsStay BY <1>1, <2>7, OthersStay DEF ListingPcs, ChangingPcs, OpeningPcs
  <2> QED BY <2>7, <2>8, <2>9, ProjectsStay DEF FilesKept, projectsVars
<1> QED BY <1>4, <1>5 DEF SettingsRead

LEMMA BackupKeeps ==
  ASSUME CallsTyped, SettingsInv, LogInv, NEW c \in Calls, BackupSettings(c),
         peeked' = (peeked \/ Peeks')
  PROVE  FilesKept /\ (UNCHANGED projectsVars /\ ProjectsInv => ProjectsInv')
<1>1. call[c].pc = "backup" /\ LoadTrue(call[c]) BY DEF BackupSettings, Now, SettingsInv
<1>2. /\ OnlyCall(c) /\ CallsTyped' /\ NoneServed /\ call'[c].pc = "failed"
  BY FailsTyped DEF BackupSettings
<1>3. /\ settingsFile' = None /\ UNCHANGED <<settings, saves, saved, raced, logVars>>
      /\ \/ settingsFile \in {None, Invalid} /\ UNCHANGED <<fileNo, outdated>>
         \/ settingsFile \notin {None, Invalid} /\ fileNo' = -1 /\ outdated' = TRUE
  BY DEF BackupSettings
<1>4. call[c].pc \notin LogPcs \cup ChangingPcs
      /\ call'[c].pc \notin LogPcs \cup {"new"} \cup ListingPcs \cup ChangingPcs \cup OpeningPcs
  BY <1>1, <1>2 DEF LogPcs, ListingPcs, ChangingPcs, OpeningPcs
<1>5. LogCallsStay /\ ProjectCallsStay BY <1>2, <1>4, OthersStay
<1>6. SettingsTyped /\ PatchesKept /\ NotLoaded BY DEF SettingsInv
<1>7. SettingsTyped'
  <2>1. fileNo' \in -1..saves' BY <1>3, <1>6 DEF SettingsTyped
  <2>2. outdated' \in BOOLEAN BY <1>3, <1>6 DEF SettingsTyped
  <2> QED BY <1>3, <1>6, <2>1, <2>2 DEF SettingsTyped, Snapshots
<1>8. NotLoaded' BY <1>1, <1>3, <1>6 DEF NotLoaded, LoadTrue, InSettings
<1>9. PatchesKept' BY <1>3, <1>6 DEF PatchesKept, InSettings, SettingsTyped
<1>10. ASSUME NEW d \in Calls PROVE LoadTrue(call[d])' /\ SaveTrue(call[d])'
  <2>1. CASE d = c BY <1>2, <2>1 DEF LoadTrue, SaveTrue
  <2>2. CASE d # c
    <3>1. call'[d] = call[d] /\ LoadTrue(call[d]) /\ SaveTrue(call[d])
      BY <1>2, <2>2 DEF OnlyCall, SettingsInv
    <3>2. settings = None => settingsFile \in {None, Invalid} BY <1>1 DEF LoadTrue
    <3>3. LoadTrue(call[d])' BY <1>3, <3>1, <3>2 DEF LoadTrue, Snapshots, SettingsRequests
    <3>4. SaveTrue(call[d])' BY <1>3, <3>1 DEF SaveTrue, Snapshots
    <3> QED BY <3>3, <3>4
  <2> QED BY <2>1, <2>2
<1>11. LatestInFile'
  <2>1. CASE UNCHANGED <<fileNo, outdated>> BY <1>1, <1>2, <1>3, <2>1, LatestStays DEF SettingsInv
  <2>2. CASE outdated' = TRUE BY <2>2 DEF LatestInFile
  <2> QED BY <1>3, <2>1, <2>2
<1>12. SettingsInv' BY <1>2, <1>7, <1>8, <1>9, <1>10, <1>11 DEF SettingsInv, OnlyCall
<1>13. LogInv' BY <1>3, <1>5, LogStays DEF logVars
<1> QED BY <1>2, <1>5, <1>12, <1>13, ProjectsStay DEF FilesKept, projectsVars

\* The file is that of a save.
LEMMA FileSaved ==
  ASSUME CallsTyped, SettingsInv, NEW c \in Calls, OnlyCall(c), call[c].pc = "saving",
         call'[c].pc \notin SettingsPcs,
         settingsFile' = call[c].snap, fileNo' = call[c].no,
         outdated' = (call[c].no # saves /\ (outdated \/ fileNo = saves)),
         UNCHANGED <<settings, saves, saved, raced>>
  PROVE  SettingsInv'
<1>1. /\ settings # None /\ call[c].snap \in Snapshots /\ call[c].no \in 1..saves
      /\ call[c].no = saves /\ ~raced => call[c].snap = saved
  BY DEF SettingsInv, SaveTrue
<1>2. SettingsTyped' BY <1>1 DEF SettingsInv, SettingsTyped, Snapshots
<1>3. NotLoaded' BY <1>1 DEF NotLoaded
<1>4. PatchesKept' BY <1>1, SettingsValues DEF SettingsInv, PatchesKept, InSettings
<1>5. ASSUME NEW d \in Calls PROVE LoadTrue(call[d])' /\ SaveTrue(call[d])'
  <2>1. CASE d = c BY <2>1 DEF LoadTrue, SaveTrue, SettingsPcs
  <2>2. CASE d # c
    <3>1. call'[d] = call[d] /\ LoadTrue(call[d]) /\ SaveTrue(call[d])
      BY <2>2 DEF OnlyCall, SettingsInv
    <3> QED BY <1>1, <3>1 DEF LoadTrue, SaveTrue, Snapshots, SettingsRequests
  <2> QED BY <2>1, <2>2
<1>6. LatestInFile'
  <2>1. LatestInFile BY DEF SettingsInv
  <2>2. \A d \in Calls : d # c /\ SavesLatest(call[d]) => SavesLatest(call[d])'
    BY DEF OnlyCall, SavesLatest
  <2> QED BY <2>1, <2>2 DEF LatestInFile, SavesLatest, OnlyCall
<1> QED BY <1>2, <1>3, <1>4, <1>5, <1>6 DEF SettingsInv, OnlyCall

LEMMA SettingsSavedKeeps ==
  ASSUME CallsTyped, SettingsInv, LogInv, NEW c \in Calls, SettingsSaved(c),
         peeked' = (peeked \/ Peeks')
  PROVE  FilesKept /\ (UNCHANGED projectsVars /\ ProjectsInv => ProjectsInv')
<1> DEFINE s == call[c]
<1>1. s.pc = "saving" /\ Shaped(s) /\ s.served = None /\ SaveTrue(s)
  BY DEF SettingsSaved, Now, CallsTyped, Over, SettingsInv
<1>2. /\ settingsFile' = s.snap /\ fileNo' = s.no
      /\ outdated' = (s.no # saves /\ (outdated \/ fileNo = saves))
      /\ UNCHANGED <<settings, saves, saved, raced, log, kept>>
  BY DEF SettingsSaved
<1>3. s.pc \notin LogPcs \cup ChangingPcs BY <1>1 DEF LogPcs, ChangingPcs
<1>4. CASE Queued(c, [s EXCEPT !.snap = settings])
  <2> DEFINE t == [s EXCEPT !.snap = settings]
  <2>1. /\ Shaped(t) /\ t.snap = settings
        /\ \A f \in CallFields \ {"snap"} : t[f] = s[f]
    BY <1>1 DEF Shaped, CallFields
  <2>2. queue' = Append(queue, c) /\ To(c, t, "queued") BY <1>4 DEF Queued
  <2> HIDE DEF t
  <2>3. /\ OnlyCall(c) /\ Shaped(call'[c]) /\ call'[c].pc = "queued"
        /\ \A f \in CallFields \ {"pc"} : call'[c][f] = t[f]
    BY <2>1, <2>2, Goes
  <2>4. /\ call'[c].req = s.req /\ call'[c].served = s.served /\ call'[c].snap = settings
    BY <2>1, <2>3 DEF CallFields
  <2>5. CallsTyped' /\ NoneServed BY <1>1, <2>3, <2>4, GoesTyped DEF Pcs, LogPcs
  <2>6. call'[c].pc \notin SettingsPcs
        /\ call'[c].pc \notin {"new"} \cup ListingPcs \cup ChangingPcs \cup OpeningPcs
    BY <2>3 DEF SettingsPcs, ListingPcs, ChangingPcs, OpeningPcs
  <2>7. SettingsInv' BY <1>1, <1>2, <2>3, <2>6, FileSaved
  <2>8. settings \in Snapshots BY <1>1 DEF SaveTrue, SettingsInv, SettingsTyped
  <2>9. LogCallTrue(call'[c]) BY <1>1, <2>3, <2>4, <2>8 DEF LogCallTrue, SaveTrue, Appends
  <2>10. LogInv' BY <1>2, <1>3, <2>2, <2>3, <2>9, QueuedKeeps
  <2>11. ProjectCallsStay BY <1>3, <2>3, <2>6, OthersStay
  <2> QED BY <2>5, <2>7, <2>10, <2>11, ProjectsStay DEF FilesKept, projectsVars
<1>5. CASE Ends(c, s) /\ UNCHANGED queue
  <2>1. /\ OnlyCall(c) /\ Shaped(call'[c]) /\ call'[c].pc = "done"
        /\ \A f \in CallFields \ {"pc"} : call'[c][f] = s[f]
    BY <1>1, <1>5, Goes DEF Ends
  <2>2. call'[c].req = s.req /\ call'[c].served = s.served BY <2>1 DEF CallFields
  <2>3. CallsTyped' /\ NoneServed BY <1>1, <2>1, <2>2, GoesTyped DEF Pcs, Over
  <2>4. call'[c].pc \notin SettingsPcs \cup LogPcs
        /\ call'[c].pc \notin {"new"} \cup ListingPcs \cup ChangingPcs \cup OpeningPcs
    BY <2>1 DEF SettingsPcs, LogPcs, ListingPcs, ChangingPcs, OpeningPcs
  <2>5. SettingsInv' BY <1>1, <1>2, <2>1, <2>4, FileSaved
  <2>6. LogCallsStay /\ ProjectCallsStay BY <1>3, <2>1, <2>4, OthersStay
  <2>7. LogInv' BY <1>2, <1>5, <2>6, LogStays
  <2> QED BY <2>3, <2>5, <2>6, <2>7, ProjectsStay DEF FilesKept, projectsVars
<1> QED BY <1>4, <1>5 DEF SettingsSaved

LEMMA SettingsFailKeeps ==
  ASSUME CallsTyped, SettingsInv, LogInv, NEW c \in Calls, SettingsFail(c),
         peeked' = (peeked \/ Peeks')
  PROVE  FilesKept /\ (UNCHANGED projectsVars /\ ProjectsInv => ProjectsInv')
<1>1. /\ call[c].pc \in {"loading", "backup", "saving"}
      /\ OnlyCall(c) /\ CallsTyped' /\ NoneServed /\ call'[c].pc = "failed"
  BY FailsTyped DEF SettingsFail, Now
<1>2. call[c].pc \notin LogPcs \cup ChangingPcs
      /\ call'[c].pc \notin SettingsPcs \cup LogPcs
      /\ call'[c].pc \notin {"new"} \cup ListingPcs \cup ChangingPcs \cup OpeningPcs
  BY <1>1 DEF SettingsPcs, LogPcs, ListingPcs, ChangingPcs, OpeningPcs
<1>3. LogCallsStay /\ ProjectCallsStay BY <1>1, <1>2, OthersStay
<1>4. /\ UNCHANGED <<settingsFile, settings, saves, fileNo, saved, raced>> /\ UNCHANGED logVars
      /\ outdated' = (outdated \/ (call[c].pc = "saving" /\ call[c].no = saves))
  BY DEF SettingsFail, Now
<1>5. SettingsInv'
  <2>1. SettingsTyped' /\ NotLoaded' /\ PatchesKept' BY <1>4
       DEF SettingsInv, SettingsTyped, NotLoaded, PatchesKept, InSettings, Snapshots
  <2>2. LatestInFile'
    <3>1. LatestInFile BY DEF SettingsInv
    <3>2. \A d \in Calls : d # c /\ SavesLatest(call[d]) => SavesLatest(call[d])'
      BY <1>1, <1>4 DEF OnlyCall, SavesLatest
    <3> QED BY <1>1, <1>4, <3>1, <3>2 DEF LatestInFile, SavesLatest, OnlyCall
  <2>3. ASSUME NEW d \in Calls PROVE LoadTrue(call[d])' /\ SaveTrue(call[d])'
    <3>1. LoadTrue(call[d]) /\ SaveTrue(call[d]) BY DEF SettingsInv
    <3>2. call'[d].pc \in SettingsPcs => call'[d] = call[d] BY <1>1, <1>2 DEF OnlyCall
    <3> QED BY <1>4, <3>1, <3>2
            DEF LoadTrue, SaveTrue, SettingsPcs, SettingsRequests, Snapshots
  <2> QED BY <1>1, <2>1, <2>2, <2>3 DEF SettingsInv, OnlyCall
<1>6. LogInv' BY <1>3, <1>4, LogStays DEF logVars
<1> QED BY <1>1, <1>3, <1>5, <1>6, ProjectsStay DEF FilesKept, projectsVars

----------------
(* Steps of the activity log *)

\* A pruned log is an end of it.
LEMMA PrunedTyped ==
  ASSUME NEW entries \in Seq(Entries), NEW limit
  PROVE  Pruned(entries, limit) \in Seq(Entries)
<1> DEFINE n == Len(entries)
           Fitting == {n + 1} \cup {i \in DOMAIN entries : Size(SubSeq(entries, i, n)) <= limit}
           first == CHOOSE i \in Fitting : \A j \in Fitting : i <= j
<1>1. n \in Nat /\ DOMAIN entries = 1..n OBVIOUS
<1>2. Fitting \in SUBSET (1..(n + 1)) /\ Fitting # {} BY <1>1
<1>3. first \in Fitting
  <2>1. Fitting \in SUBSET Nat BY <1>1, <1>2
  <2> HIDE DEF Fitting
  <2>2. \E i \in Fitting : \A j \in Fitting : i <= j BY <1>2, <2>1, LeastNumber
  <2> QED BY <2>2
<1>4. Pruned(entries, limit) = SubSeq(entries, first, n) BY DEF Pruned
<1>5. first \in 1..(n + 1) BY <1>2, <1>3
<1> HIDE DEF first, Fitting
<1>6. \A i \in first..n : entries[i] \in Entries BY <1>1, <1>5
<1>7. SubSeq(entries, first, n) \in Seq(Entries) BY <1>1, <1>5, <1>6, SubSeqProperties
<1> QED BY <1>4, <1>7

\* So is what is in the file while it is written.
LEMMA PartlyTyped ==
  ASSUME NEW entries \in Seq(Entries), NEW file \in Partly(entries)
  PROVE  file \in [entries : Seq(Entries), torn : BOOLEAN]
<1>1. Len(entries) \in Nat /\ DOMAIN entries = 1..Len(entries) OBVIOUS
<1>2. \A n \in 0..Len(entries) : SubSeq(entries, 1, n) \in Seq(Entries) BY <1>1, SubSeqProperties
<1>3. \A n \in DOMAIN entries : n - 1 \in 0..Len(entries) BY <1>1
<1>4. CASE \E n \in 0..Len(entries) : file = [entries |-> SubSeq(entries, 1, n), torn |-> FALSE]
  BY <1>2, <1>4
<1>5. CASE \E n \in DOMAIN entries : file = [entries |-> SubSeq(entries, 1, n - 1), torn |-> TRUE]
  BY <1>2, <1>3, <1>5
<1> QED BY <1>4, <1>5 DEF Partly

\* The mutation at the head is settled.
LEMMA Dequeued ==
  ASSUME CallsTyped, LogInv, NEW c \in Calls, Mutates(c), OnlyCall(c), call'[c].pc \notin LogPcs,
         queue' = Tail(queue)
  PROVE  /\ queue' \in Seq(Calls) /\ IsInjective(queue')
         /\ \A d \in Calls : QueueTrue(d)'
<1>1. /\ queue \in Seq(Calls) /\ IsInjective(queue) /\ queue # <<>> /\ Head(queue) = c
      /\ \A d \in Calls : QueueTrue(d)
  BY DEF LogInv, LogTyped, Mutates
<1>2. /\ queue' \in Seq(Calls) /\ Len(queue') = Len(queue) - 1
      /\ \A i \in 1..Len(queue') : queue'[i] = queue[i + 1]
      /\ DOMAIN queue = 1..Len(queue) /\ DOMAIN queue' = 1..Len(queue') /\ Len(queue) \in Nat \ {0}
  BY <1>1
<1>3. queue[1] = c BY <1>1
<1>4. IsInjective(queue') BY <1>1, <1>2 DEF IsInjective
<1>5. \A d : d \in Range(queue') => d \in Range(queue) /\ d # c
  <2> SUFFICES ASSUME NEW i \in DOMAIN queue' PROVE queue'[i] \in Range(queue) /\ queue'[i] # c
    BY DEF Range
  <2>1. i + 1 \in DOMAIN queue /\ queue'[i] = queue[i + 1] /\ 1 \in DOMAIN queue /\ i + 1 # 1
    BY <1>2
  <2> QED BY <1>1, <1>3, <2>1 DEF IsInjective, Range
<1>6. \A d : d \in Range(queue) /\ d # c => d \in Range(queue')
  <2> SUFFICES ASSUME NEW i \in DOMAIN queue, queue[i] # c PROVE queue[i] \in Range(queue')
    BY DEF Range
  <2>1. i - 1 \in DOMAIN queue' /\ queue'[i - 1] = queue[i] BY <1>2, <1>3
  <2> QED BY <2>1 DEF Range
<1>7. \A d \in Calls : QueueTrue(d)'
  <2> TAKE d \in Calls
  <2>1. CASE d = c
    <3>1. call'[d].pc # "queued" /\ ~Mutating(call'[d]) BY <2>1 DEF LogPcs, Mutating
    <3>2. d \notin Range(queue)' BY <1>5, <2>1
    <3> QED BY <3>1, <3>2 DEF QueueTrue
  <2>2. CASE d # c
    <3>1. call'[d] = call[d] /\ QueueTrue(d) BY <1>1, <2>2 DEF OnlyCall
    <3>2. ~Mutating(call[d]) BY <1>1, <2>2, <3>1 DEF QueueTrue
    <3>3. d \in Range(queue)' <=> d \in Range(queue) BY <1>5, <1>6, <2>2
    <3> QED BY <3>1, <3>2, <3>3 DEF QueueTrue
  <2> QED BY <2>1, <2>2
<1> QED BY <1>2, <1>4, <1>7

\* Calls that have read the log have it for themselves.
LEMMA OneWriter ==
  ASSUME CallsTyped, LogInv, ~peeked, NEW c \in Calls,
         call[c].pc \in {"write", "writing", "rescue", "rescuing"}
  PROVE  \A d \in Calls \ {c} : call[d].pc \notin {"write", "writing", "rescue", "rescuing"}
<1>1. CASE call[c].pc \in {"rescue", "rescuing"} /\ call[c].req.do = "list" BY <1>1, AloneToo
<1>2. CASE ~(call[c].pc \in {"rescue", "rescuing"} /\ call[c].req.do = "list")
  <2>1. Mutating(call[c]) BY <1>2 DEF Mutating
  <2>2. Mutates(c) BY <2>1 DEF LogInv, QueueTrue, Mutates
  <2> QED BY <2>2, Alone
<1> QED BY <1>1, <1>2

\* A call of the log goes on, while the file and the queue stay.
LEMMA LogGoes ==
  ASSUME CallsTyped, LogInv, NEW c \in Calls, OnlyCall(c), UNCHANGED <<log, queue, kept>>,
         peeked' = (peeked \/ Peeks'),
         QueueTrue(c)', LogCallTrue(call'[c]), call'[c].pc \notin {"writing", "rescuing"},
         call[c].pc \notin {"writing", "rescuing"},
         ~peeked' => OutTrue(call'[c])
  PROVE  LogInv'
<1>1. LogTyped' BY DEF LogInv, LogTyped, OnlyCall, Entries
<1>2. ASSUME NEW d \in Calls PROVE QueueTrue(d)' /\ LogCallTrue(call[d])'
  <2>1. CASE d = c
    <3>1. LogCallTrue(call[d])' BY <2>1 DEF LogCallTrue, Snapshots, Entries, Appends
    <3> QED BY <2>1, <3>1
  <2>2. CASE d # c
    <3>1. call'[d] = call[d] /\ QueueTrue(d) /\ LogCallTrue(call[d]) BY <2>2 DEF OnlyCall, LogInv
    <3>2. QueueTrue(d)' BY <3>1 DEF QueueTrue
    <3>3. LogCallTrue(call[d])' BY <3>1 DEF LogCallTrue, Snapshots, Entries, Appends
    <3> QED BY <3>2, <3>3
  <2> QED BY <2>1, <2>2
<1>3. \A d \in Calls : Writing(d)' <=> Writing(d) BY DEF OnlyCall, Writing, Now
<1>4. LogKept' BY <1>3 DEF LogKept, LogInv, OnlyCall
<1>5. ~peeked' => ~Peeks' /\ \A d \in Calls : OutTrue(call[d])'
  <2> SUFFICES ASSUME ~peeked', NEW d \in Calls PROVE OutTrue(call[d])' OBVIOUS
  <2>1. CASE d = c BY <2>1 DEF OutTrue, Outcome, Appends
  <2>2. CASE d # c
    <3>1. call'[d] = call[d] /\ OutTrue(call[d]) BY <2>2 DEF OnlyCall, LogInv
    <3> QED BY <3>1 DEF OutTrue, Outcome, Appends
  <2> QED BY <2>1, <2>2
<1> QED BY <1>1, <1>2, <1>4, <1>5 DEF LogInv, OnlyCall

LEMMA ClearLogKeeps ==
  ASSUME CallsTyped, SettingsInv, LogInv, NEW c \in Calls, ClearLog(c),
         peeked' = (peeked \/ Peeks')
  PROVE  FilesKept /\ (UNCHANGED projectsVars /\ ProjectsInv => ProjectsInv')
<1>1. /\ call[c].pc = "new" /\ call[c].req.do = "clear" /\ Shaped(call[c]) /\ call[c].served = None
      /\ queue' = Append(queue, c) /\ To(c, call[c], "queued")
      /\ UNCHANGED settingsVars /\ UNCHANGED <<log, kept>>
  BY DEF ClearLog, Arrives, Now, Does, CallsTyped, Over, Queued
<1>2. /\ OnlyCall(c) /\ Shaped(call'[c]) /\ call'[c].pc = "queued"
      /\ \A f \in CallFields \ {"pc"} : call'[c][f] = call[c][f]
  BY <1>1, Goes
<1>3. call'[c].req = call[c].req /\ call'[c].served = call[c].served BY <1>2 DEF CallFields
<1>4. CallsTyped' /\ NoneServed BY <1>1, <1>2, <1>3, GoesTyped DEF Pcs, LogPcs
<1>5. call[c].pc \notin {"saving"} \cup LogPcs \cup ChangingPcs
      /\ call'[c].pc \notin SettingsPcs
      /\ call'[c].pc \notin {"new"} \cup ListingPcs \cup ChangingPcs \cup OpeningPcs
  BY <1>1, <1>2 DEF SettingsPcs, LogPcs, ListingPcs, ChangingPcs, OpeningPcs
<1>6. SettingsCallsStay /\ ProjectCallsStay BY <1>2, <1>5, OthersStay
<1>7. LogCallTrue(call'[c]) BY <1>1, <1>2, <1>3 DEF LogCallTrue, Appends
<1>8. LogInv' BY <1>1, <1>2, <1>5, <1>7, QueuedKeeps
<1>9. SettingsInv' BY <1>1, <1>6, SettingsStay
<1> QED BY <1>4, <1>6, <1>8, <1>9, ProjectsStay DEF FilesKept, projectsVars

LEMMA ListLogKeeps ==
  ASSUME CallsTyped, SettingsInv, LogInv, NEW c \in Calls, ListLog(c),
         peeked' = (peeked \/ Peeks')
  PROVE  FilesKept /\ (UNCHANGED projectsVars /\ ProjectsInv => ProjectsInv')
<1> DEFINE t == [call[c] EXCEPT !.behind = Range(queue)]
<1>1. /\ call[c].pc = "new" /\ call[c].req.do = "list" /\ Shaped(call[c]) /\ call[c].served = None
      /\ To(c, t, "listing") /\ UNCHANGED settingsVars /\ UNCHANGED logVars
  BY DEF ListLog, Arrives, Now, Does, CallsTyped, Over
<1>2. Shaped(t) /\ \A f \in CallFields \ {"behind"} : t[f] = call[c][f]
  BY <1>1 DEF Shaped, CallFields
<1> HIDE DEF t
<1>3. /\ OnlyCall(c) /\ Shaped(call'[c]) /\ call'[c].pc = "listing"
      /\ \A f \in CallFields \ {"pc"} : call'[c][f] = t[f]
  BY <1>1, <1>2, Goes
<1>4. call'[c].req = call[c].req /\ call'[c].served = call[c].served BY <1>2, <1>3 DEF CallFields
<1>5. CallsTyped' /\ NoneServed BY <1>1, <1>3, <1>4, GoesTyped DEF Pcs, LogPcs
<1>6. call[c].pc \notin {"saving"} \cup ChangingPcs
      /\ call'[c].pc \notin SettingsPcs
      /\ call'[c].pc \notin {"new"} \cup ListingPcs \cup ChangingPcs \cup OpeningPcs
  BY <1>1, <1>3 DEF SettingsPcs, ListingPcs, ChangingPcs, OpeningPcs
<1>7. SettingsCallsStay /\ ProjectCallsStay BY <1>3, <1>6, OthersStay
<1>8. QueueTrue(c)'
  <2>1. QueueTrue(c) BY DEF LogInv
  <2>2. ~Mutating(call[c]) /\ ~Mutating(call'[c]) BY <1>1, <1>3 DEF Mutating
  <2> QED BY <1>1, <1>3, <2>1, <2>2 DEF QueueTrue, logVars
<1>9. LogCallTrue(call'[c]) /\ OutTrue(call'[c]) BY <1>1, <1>3, <1>4 DEF LogCallTrue, Appends, OutTrue
<1>10. LogInv' BY <1>1, <1>3, <1>8, <1>9, LogGoes DEF logVars
<1>11. SettingsInv' BY <1>1, <1>7, SettingsStay
<1> QED BY <1>5, <1>7, <1>10, <1>11, ProjectsStay DEF FilesKept, projectsVars

LEMMA UnlinkKeeps ==
  ASSUME CallsTyped, SettingsInv, LogInv, NEW c \in Calls, Unlink(c),
         peeked' = (peeked \/ Peeks')
  PROVE  FilesKept /\ (UNCHANGED projectsVars /\ ProjectsInv => ProjectsInv')
<1>1. /\ call[c].pc = "queued" /\ Shaped(call[c]) /\ call[c].served = None /\ Mutates(c)
      /\ To(c, call[c], "done") /\ UNCHANGED settingsVars
      /\ log' = [entries |-> <<>>, torn |-> FALSE] /\ kept' = <<>> /\ queue' = Tail(queue)
  BY DEF Unlink, Now, CallsTyped, Over, Ends
<1>2. /\ OnlyCall(c) /\ Shaped(call'[c]) /\ call'[c].pc = "done"
      /\ \A f \in CallFields \ {"pc"} : call'[c][f] = call[c][f]
  BY <1>1, Goes
<1>3. call'[c].req = call[c].req /\ call'[c].served = call[c].served BY <1>2 DEF CallFields
<1>4. CallsTyped' /\ NoneServed BY <1>1, <1>2, <1>3, GoesTyped DEF Pcs, Over
<1>5. call[c].pc \notin {"saving"} \cup ChangingPcs
      /\ call'[c].pc \notin SettingsPcs \cup LogPcs
      /\ call'[c].pc \notin {"new"} \cup ListingPcs \cup ChangingPcs \cup OpeningPcs
  BY <1>1, <1>2 DEF SettingsPcs, LogPcs, ListingPcs, ChangingPcs, OpeningPcs
<1>6. SettingsCallsStay /\ ProjectCallsStay BY <1>2, <1>5, OthersStay
<1>7. SettingsInv' BY <1>1, <1>6, SettingsStay
<1>8. queue' \in Seq(Calls) /\ IsInjective(queue') /\ \A d \in Calls : QueueTrue(d)'
  BY <1>1, <1>2, <1>5, Dequeued
<1>9. LogTyped'
  <2>1. <<>> \in Seq(Entries) OBVIOUS
  <2>2. Calls' = Calls BY <1>2 DEF OnlyCall
  <2>3. peeked' \in BOOLEAN BY DEF LogInv, LogTyped, Peeks
  <2> QED BY <1>1, <1>8, <2>1, <2>2, <2>3 DEF LogTyped, Entries
<1>10. \A d \in Calls : LogCallTrue(call[d])'
  <2> TAKE d \in Calls
  <2>1. LogCallTrue(call[d]) BY DEF LogInv
  <2> QED BY <1>2, <2>1 DEF OnlyCall, LogCallTrue, Snapshots, Entries, Appends
<1>11. LogKept' BY <1>1 DEF LogKept
<1>12. ~peeked' => ~Peeks' /\ \A d \in Calls : OutTrue(call[d])'
  <2> SUFFICES ASSUME ~peeked', NEW d \in Calls PROVE OutTrue(call[d])' OBVIOUS
  <2>1. d # c => call[d].pc \notin {"write", "writing", "rescue", "rescuing"} BY <1>1, Alone
  <2>2. call'[d].pc \notin {"write", "writing", "rescue", "rescuing"} BY <1>2, <2>1 DEF OnlyCall
  <2> QED BY <2>2 DEF OutTrue
<1>13. LogInv' BY <1>2, <1>8, <1>9, <1>10, <1>11, <1>12 DEF LogInv, OnlyCall
<1> QED BY <1>4, <1>6, <1>7, <1>13, ProjectsStay DEF FilesKept, projectsVars

\* What the step of a call that stays with the log leaves.
LEMMA LogStepTyped ==
  ASSUME CallsTyped, SettingsInv, NEW c \in Calls, call[c].pc \in LogPcs, NEW s, Shaped(s),
         s.req = call[c].req, s.served = call[c].served,
         NEW pc \in LogPcs \cup {"done", "failed"}, To(c, s, pc), UNCHANGED settingsVars
  PROVE  /\ OnlyCall(c) /\ call'[c].pc = pc /\ \A f \in CallFields \ {"pc"} : call'[c][f] = s[f]
         /\ CallsTyped' /\ NoneServed /\ SettingsInv' /\ ProjectCallsStay
<1>1. /\ OnlyCall(c) /\ Shaped(call'[c]) /\ call'[c].pc = pc
      /\ \A f \in CallFields \ {"pc"} : call'[c][f] = s[f]
  BY Goes
<1>2. call'[c].req = call[c].req /\ call'[c].served = call[c].served BY <1>1 DEF CallFields
<1>3. call[c].served = None BY DEF CallsTyped, Over, LogPcs
<1>4. CallsTyped' /\ NoneServed BY <1>1, <1>2, <1>3, GoesTyped DEF Pcs, LogPcs, Over
<1>5. call[c].pc \notin {"saving"} \cup ChangingPcs
      /\ call'[c].pc \notin SettingsPcs
      /\ call'[c].pc \notin {"new"} \cup ListingPcs \cup ChangingPcs \cup OpeningPcs
  BY <1>1 DEF SettingsPcs, LogPcs, ListingPcs, ChangingPcs, OpeningPcs
<1>6. SettingsCallsStay /\ ProjectCallsStay BY <1>1, <1>5, OthersStay
<1>7. SettingsInv' BY <1>6, SettingsStay
<1> QED BY <1>1, <1>4, <1>6, <1>7


LEMMA ReadLogKeeps ==
  ASSUME CallsTyped, SettingsInv, LogInv, NEW c \in Calls, ReadLog(c),
         peeked' = (peeked \/ Peeks')
  PROVE  FilesKept /\ (UNCHANGED projectsVars /\ ProjectsInv => ProjectsInv')
<1> DEFINE s == call[c]
           entries == IF Appends(s) THEN Append(log.entries, s.entry) ELSE log.entries
           listing == Now(c, {"listing"}) /\ s.behind \cap Range(queue) = {}
           mutating == Mutates(c) /\ Now(c, {"queued"}) /\ ~Does(c, {"clear"})
<1>1. /\ Shaped(s) /\ (s.served = None \/ s.pc \in Over) /\ QueueTrue(c) /\ LogCallTrue(s)
      /\ LogTyped /\ LogKept
  BY DEF CallsTyped, LogInv
<1>2. UNCHANGED settingsVars /\ UNCHANGED logVars BY DEF ReadLog
<1>3. mutating => Mutates(c) /\ s.pc = "queued" /\ s.req.do \in {"append", "saveSettings"}
  BY DEF Now, Does, LogInv, LogCallTrue
<1>4. listing => s.pc = "listing" /\ s.req.do = "list" BY DEF Now, LogInv, LogCallTrue
<1>5. listing \/ mutating => call[c].pc \in LogPcs /\ call[c].pc \notin {"writing", "rescuing"}
  BY <1>3, <1>4 DEF LogPcs
\* A mutation finds the log as the others have left it.
<1>6. mutating /\ ~peeked => log.entries = kept
  <2> SUFFICES ASSUME mutating, ~peeked PROVE log.entries = kept OBVIOUS
  <2>1. \A d \in Calls : call[d].pc \notin {"writing", "rescuing"} BY <1>3, Alone
  <2> QED BY <2>1 DEF LogKept, Writing, Now, LogInv
<1>7. log.entries \in Seq(Entries) /\ kept \in Seq(Entries) BY DEF LogInv, LogTyped
<1>8. CASE log.torn /\ (listing \/ mutating) /\ To(c, [s EXCEPT !.out = log.entries], "rescue")
  <2> DEFINE t == [s EXCEPT !.out = log.entries]
  <2>1. Shaped(t) /\ t.out = log.entries /\ \A f \in CallFields \ {"out"} : t[f] = s[f]
    BY DEF CallsTyped, Shaped, CallFields
  <2>2. t.req = s.req /\ t.served = s.served BY <2>1 DEF CallFields
  <2>3. To(c, t, "rescue") BY <1>8
  <2>4. "rescue" \in LogPcs BY DEF LogPcs
  <2>a. s.pc \in LogPcs /\ s.pc \notin {"writing", "rescuing"} BY <1>5, <1>8
  <2> HIDE DEF t
  <2>5. /\ OnlyCall(c) /\ call'[c].pc = "rescue" /\ \A f \in CallFields \ {"pc"} : call'[c][f] = t[f]
        /\ CallsTyped' /\ NoneServed /\ SettingsInv' /\ ProjectCallsStay
    BY <1>2, <2>1, <2>2, <2>3, <2>4, <2>a, LogStepTyped
  <2>6. call'[c].req = s.req /\ call'[c].out = log.entries BY <2>1, <2>5 DEF CallFields
  <2>7. QueueTrue(c)'
    <3>1. QueueTrue(c) BY DEF LogInv
    <3>2. CASE listing
      <4>1. c \notin Range(queue) BY <1>4, <3>1, <3>2 DEF QueueTrue, Mutating
      <4>2. ~Mutating(call'[c]) BY <1>4, <2>5, <2>6, <3>2 DEF Mutating
      <4> QED BY <1>2, <2>5, <4>1, <4>2 DEF QueueTrue, logVars
    <3>3. CASE mutating
      <4>1. c \in Range(queue) /\ queue # <<>> /\ Head(queue) = c
        BY <1>3, <3>1, <3>3 DEF QueueTrue, Mutates
      <4>2. Mutating(call'[c]) BY <1>3, <2>5, <2>6, <3>3 DEF Mutating
      <4> QED BY <1>2, <4>1, <4>2 DEF QueueTrue, logVars
    <3> QED BY <1>8, <3>2, <3>3
  <2>8. LogCallTrue(call'[c]) BY <1>3, <1>4, <1>7, <1>8, <2>5, <2>6 DEF LogCallTrue
  <2>9. ~peeked' => OutTrue(call'[c])
    <3> SUFFICES ASSUME ~peeked' PROVE log.entries = kept BY <1>2, <2>5, <2>6 DEF OutTrue, logVars
    <3>1. ~peeked /\ ~Peeks' OBVIOUS
    <3>2. CASE mutating BY <1>6, <3>1, <3>2
    <3>3. CASE listing
      <4>1. queue = <<>> /\ \A d \in Calls \ {c} : ~Now(d, {"rescue", "rescuing"})'
        BY <1>2, <1>4, <2>5, <2>6, <3>1, <3>3 DEF Peeks, Now, Does, OnlyCall, logVars
      <4>2. \A d \in Calls : ~Writing(d)
        <5> SUFFICES ASSUME NEW d \in Calls, Writing(d) PROVE FALSE OBVIOUS
        <5>1. d # c BY <2>a DEF Writing, Now
        <5>2. call'[d] = call[d] BY <2>5, <5>1 DEF OnlyCall
        <5>3. call[d].pc = "writing" BY <4>1, <5>1, <5>2 DEF Writing, Now
        <5>4. Mutating(call[d]) /\ QueueTrue(d) BY <5>3 DEF Mutating, LogInv
        <5> QED BY <4>1, <5>4 DEF QueueTrue
      <4> QED BY <3>1, <4>2 DEF LogKept, LogInv
    <3> QED BY <1>8, <3>2, <3>3
  <2>10. LogInv' BY <1>2, <2>5, <2>7, <2>8, <2>9, <2>a, LogGoes DEF logVars
  <2> QED BY <2>5, <2>10, ProjectsStay DEF FilesKept, projectsVars
<1>9. CASE listing /\ Ends(c, s)
  <2>1. To(c, s, "done") /\ Shaped(s) BY <1>9 DEF Ends, CallsTyped
  <2>a. s.pc \in LogPcs /\ s.pc \notin {"writing", "rescuing"} BY <1>5, <1>9
  <2>2. /\ OnlyCall(c) /\ call'[c].pc = "done" /\ \A f \in CallFields \ {"pc"} : call'[c][f] = s[f]
        /\ CallsTyped' /\ NoneServed /\ SettingsInv' /\ ProjectCallsStay
    BY <1>2, <2>1, <2>a, LogStepTyped
  <2>3. QueueTrue(c)'
    <3>1. c \notin Range(queue) BY <1>4, <1>9 DEF QueueTrue, Mutating, LogInv
    <3>2. ~Mutating(call'[c]) BY <2>2 DEF Mutating
    <3> QED BY <1>2, <2>2, <3>1, <3>2 DEF QueueTrue, logVars
  <2>4. LogCallTrue(call'[c]) /\ OutTrue(call'[c]) BY <2>2 DEF LogCallTrue, OutTrue
  <2>5. LogInv' BY <1>2, <2>2, <2>3, <2>4, <2>a, LogGoes DEF logVars
  <2> QED BY <2>2, <2>5, ProjectsStay DEF FilesKept, projectsVars
<1>10. CASE mutating /\ To(c, [s EXCEPT !.out = Pruned(entries, s.snap.activityLog.maxBytes)], "write")
  <2> DEFINE new == Pruned(entries, s.snap.activityLog.maxBytes)
             t == [s EXCEPT !.out = new]
  <2>1. Shaped(t) /\ t.out = new /\ \A f \in CallFields \ {"out"} : t[f] = s[f]
    BY DEF CallsTyped, Shaped, CallFields
  <2>2. t.req = s.req /\ t.served = s.served /\ t.snap = s.snap /\ t.entry = s.entry
    BY <2>1 DEF CallFields
  <2>3. To(c, t, "write") BY <1>10
  <2>4. "write" \in LogPcs BY DEF LogPcs
  <2>a. s.pc \in LogPcs /\ s.pc \notin {"writing", "rescuing"} BY <1>5, <1>10
  <2>b. LogCallTrue(s) BY DEF LogInv
  <2>c. s.snap \in Snapshots /\ (Appends(s) => s.entry \in Entries)
    BY <1>3, <1>10, <2>b DEF LogCallTrue
  <2>d. entries \in Seq(Entries) BY <1>7, <2>c
  <2>e. new \in Seq(Entries)
    <3> HIDE DEF entries
    <3> QED BY <2>d, PrunedTyped
  <2>f. mutating BY <1>10
  <2>g. log.entries = kept => new = Outcome(s) BY DEF Outcome
  <2> HIDE DEF t, new, mutating
  <2>5. /\ OnlyCall(c) /\ call'[c].pc = "write" /\ \A f \in CallFields \ {"pc"} : call'[c][f] = t[f]
        /\ CallsTyped' /\ NoneServed /\ SettingsInv' /\ ProjectCallsStay
    BY <1>2, <2>1, <2>2, <2>3, <2>4, <2>a, LogStepTyped
  <2>6. /\ call'[c].req = s.req /\ call'[c].out = new /\ call'[c].snap = s.snap
        /\ call'[c].entry = s.entry
    BY <2>1, <2>2, <2>5 DEF CallFields
  <2>7. QueueTrue(c)'
    <3>1. c \in Range(queue) /\ queue # <<>> /\ Head(queue) = c
      BY <1>3, <2>f DEF QueueTrue, Mutates, LogInv
    <3>2. Mutating(call'[c]) BY <2>5 DEF Mutating
    <3> QED BY <1>2, <3>1, <3>2 DEF QueueTrue, logVars
  <2>8. LogCallTrue(call'[c]) BY <1>3, <2>5, <2>6, <2>c, <2>e, <2>f DEF LogCallTrue, Appends
  <2>9. ~peeked' => OutTrue(call'[c])
    <3> SUFFICES ASSUME ~peeked' PROVE OutTrue(call'[c]) OBVIOUS
    <3>1. log.entries = kept BY <1>6, <2>f
    <3>2. Outcome(call'[c]) = Outcome(s) BY <2>6 DEF Outcome, Appends
    <3>3. Outcome(s) = new BY <2>g, <3>1
    <3> QED BY <2>5, <2>6, <3>2, <3>3 DEF OutTrue
  <2>10. LogInv' BY <1>2, <2>5, <2>7, <2>8, <2>9, <2>a, LogGoes DEF logVars
  <2> QED BY <2>5, <2>10, ProjectsStay DEF FilesKept, projectsVars
<1> QED BY <1>8, <1>9, <1>10 DEF ReadLog


LEMMA BeginWriteKeeps ==
  ASSUME CallsTyped, SettingsInv, LogInv, NEW c \in Calls, BeginWrite(c),
         peeked' = (peeked \/ Peeks')
  PROVE  FilesKept /\ (UNCHANGED projectsVars /\ ProjectsInv => ProjectsInv')
<1> DEFINE s == call[c]
           pc == IF Now(c, {"write"}) THEN "writing" ELSE "rescuing"
<1>1. /\ s.pc \in {"write", "rescue"} /\ Shaped(s) /\ To(c, s, pc)
      /\ log' \in Partly(s.out) /\ UNCHANGED settingsVars /\ UNCHANGED <<queue, kept>>
  BY DEF BeginWrite, Now, CallsTyped
<1>2. LogCallTrue(s) /\ QueueTrue(c) /\ LogTyped BY DEF LogInv
<1>3. /\ s.pc = "write" => pc = "writing"
      /\ s.pc = "rescue" => pc = "rescuing"
      /\ pc \in LogPcs /\ s.pc \in LogPcs
  BY <1>1 DEF LogPcs, Now
<1> HIDE DEF pc
<1>4. /\ OnlyCall(c) /\ call'[c].pc = pc /\ \A f \in CallFields \ {"pc"} : call'[c][f] = s[f]
      /\ CallsTyped' /\ NoneServed /\ SettingsInv' /\ ProjectCallsStay
  BY <1>1, <1>3, LogStepTyped
<1>5. /\ call'[c].req = s.req /\ call'[c].out = s.out /\ call'[c].snap = s.snap
      /\ call'[c].entry = s.entry
  BY <1>4 DEF CallFields
<1>6. \A d \in Calls : Mutating(call'[d]) <=> Mutating(call[d])
  BY <1>1, <1>3, <1>4, <1>5 DEF Mutating, OnlyCall
<1>7. \A d \in Calls : call'[d].pc = "queued" <=> call[d].pc = "queued"
  BY <1>1, <1>3, <1>4 DEF OnlyCall
<1>8. \A d \in Calls : QueueTrue(d)' BY <1>1, <1>6, <1>7 DEF QueueTrue, LogInv
<1>9. LogTyped'
  <2>1. s.out \in Seq(Entries) BY <1>1, <1>2 DEF LogCallTrue
  <2>2. log' \in [entries : Seq(Entries), torn : BOOLEAN] BY <1>1, <2>1, PartlyTyped
  <2>3. peeked' \in BOOLEAN /\ Calls' = Calls BY <1>2, <1>4 DEF LogTyped, Peeks, OnlyCall
  <2> QED BY <1>1, <1>2, <2>2, <2>3 DEF LogTyped, Entries
<1>10. \A d \in Calls : LogCallTrue(call[d])'
  <2> TAKE d \in Calls
  <2>1. LogCallTrue(call[d]) BY DEF LogInv
  <2>2. CASE d = c
    <3>1. LogCallTrue(call'[c]) BY <1>1, <1>2, <1>3, <1>4, <1>5 DEF LogCallTrue, Appends
    <3> QED BY <2>2, <3>1 DEF LogCallTrue, Snapshots, Entries, Appends
  <2>3. CASE d # c
    <3>1. call'[d] = call[d] BY <1>4, <2>3 DEF OnlyCall
    <3> QED BY <2>1, <3>1 DEF LogCallTrue, Snapshots, Entries, Appends
  <2> QED BY <2>2, <2>3
<1>11. LogKept'
  <2>1. Writing(c)' BY <1>1, <1>3, <1>4 DEF Writing, Now
  <2> QED BY <1>4, <2>1 DEF LogKept, OnlyCall
<1>12. ~peeked' => ~Peeks' /\ \A d \in Calls : OutTrue(call[d])'
  <2> SUFFICES ASSUME ~peeked', NEW d \in Calls PROVE OutTrue(call[d])' OBVIOUS
  <2>1. OutTrue(call[d]) BY DEF LogInv
  <2>2. CASE d = c
    <3>1. OutTrue(call'[c]) BY <1>1, <1>3, <1>4, <1>5, <2>1, <2>2 DEF OutTrue, Outcome, Appends
    <3> QED BY <1>1, <2>2, <3>1 DEF OutTrue, Outcome, Appends
  <2>3. CASE d # c
    <3>1. call'[d] = call[d] BY <1>4, <2>3 DEF OnlyCall
    <3> QED BY <1>1, <2>1, <3>1 DEF OutTrue, Outcome, Appends
  <2> QED BY <2>2, <2>3
<1>13. LogInv' BY <1>4, <1>8, <1>9, <1>10, <1>11, <1>12 DEF LogInv, OnlyCall
<1> QED BY <1>4, <1>13, ProjectsStay DEF FilesKept, projectsVars

\* A call is done with the log, and the queue goes on: what is left to show is the log.
LEMMA LogSettles ==
  ASSUME CallsTyped, SettingsInv, LogInv, NEW c \in Calls, call[c].pc \in LogPcs,
         NEW pc \in {"done", "failed"}, To(c, call[c], pc),
         Mutates(c) <=> call[c].pc = "queued" \/ Mutating(call[c]),
         queue' = IF Mutates(c) THEN Tail(queue) ELSE queue, UNCHANGED settingsVars,
         log' \in [entries : Seq(Entries), torn : BOOLEAN], kept' \in Seq(Entries),
         peeked' = (peeked \/ Peeks'),
         LogKept',
         kept' # kept /\ ~peeked' =>
           \A d \in Calls \ {c} : call[d].pc \notin {"write", "writing", "rescue", "rescuing"}
  PROVE  FilesKept /\ (UNCHANGED projectsVars /\ ProjectsInv => ProjectsInv')
<1>1. Shaped(call[c]) BY DEF CallsTyped
<1>2. /\ OnlyCall(c) /\ call'[c].pc = pc /\ \A f \in CallFields \ {"pc"} : call'[c][f] = call[c][f]
      /\ CallsTyped' /\ NoneServed /\ SettingsInv' /\ ProjectCallsStay
  BY <1>1, LogStepTyped
<1>3. call'[c].pc \notin LogPcs BY <1>2 DEF LogPcs
<1>4. queue' \in Seq(Calls) /\ IsInjective(queue') /\ \A d \in Calls : QueueTrue(d)'
  <2>1. CASE Mutates(c) BY <1>2, <1>3, <2>1, Dequeued
  <2>2. CASE ~Mutates(c)
    <3>1. queue' = queue BY <2>2
    <3>2. c \notin Range(queue) BY <2>2 DEF QueueTrue, LogInv
    <3>3. ~Mutating(call'[c]) /\ call'[c].pc # "queued" BY <1>3 DEF Mutating, LogPcs
    <3>4. \A d \in Calls : QueueTrue(d)'
      <4> TAKE d \in Calls
      <4>1. CASE d = c BY <3>1, <3>2, <3>3, <4>1 DEF QueueTrue
      <4>2. CASE d # c
        <5>1. call'[d] = call[d] /\ QueueTrue(d) BY <1>2, <4>2 DEF OnlyCall, LogInv
        <5> QED BY <3>1, <5>1 DEF QueueTrue
      <4> QED BY <4>1, <4>2
    <3> QED BY <3>1, <3>4 DEF LogInv, LogTyped
  <2> QED BY <2>1, <2>2
<1>5. LogTyped'
  <2>1. peeked' \in BOOLEAN /\ Calls' = Calls BY <1>2 DEF LogInv, LogTyped, Peeks, OnlyCall
  <2> QED BY <1>4, <2>1 DEF LogTyped, Entries
<1>6. \A d \in Calls : LogCallTrue(call[d])'
  <2> TAKE d \in Calls
  <2>1. LogCallTrue(call[d]) BY DEF LogInv
  <2>2. CASE d = c BY <1>3, <2>2 DEF LogCallTrue, LogPcs
  <2>3. CASE d # c
    <3>1. call'[d] = call[d] BY <1>2, <2>3 DEF OnlyCall
    <3> QED BY <2>1, <3>1 DEF LogCallTrue, Snapshots, Entries, Appends
  <2> QED BY <2>2, <2>3
<1>7. ~peeked' => ~Peeks' /\ \A d \in Calls : OutTrue(call[d])'
  <2> SUFFICES ASSUME ~peeked', NEW d \in Calls PROVE OutTrue(call[d])' OBVIOUS
  <2>1. OutTrue(call[d]) BY DEF LogInv
  <2>2. CASE d = c BY <1>3, <2>2 DEF OutTrue, LogPcs
  <2>3. CASE d # c
    <3>1. call'[d] = call[d] BY <1>2, <2>3 DEF OnlyCall
    <3>2. CASE kept' = kept BY <2>1, <3>1, <3>2 DEF OutTrue, Outcome, Appends
    <3>3. CASE kept' # kept
      <4>1. call[d].pc \notin {"write", "writing", "rescue", "rescuing"} BY <2>3, <3>3
      <4> QED BY <3>1, <4>1 DEF OutTrue
    <3> QED BY <3>2, <3>3
  <2> QED BY <2>2, <2>3
<1>8. LogInv' BY <1>2, <1>4, <1>5, <1>6, <1>7 DEF LogInv, OnlyCall
<1> QED BY <1>2, <1>8, ProjectsStay DEF FilesKept, projectsVars

LEMMA EndWriteKeeps ==
  ASSUME CallsTyped, SettingsInv, LogInv, NEW c \in Calls, EndWrite(c),
         peeked' = (peeked \/ Peeks')
  PROVE  FilesKept /\ (UNCHANGED projectsVars /\ ProjectsInv => ProjectsInv')
<1> DEFINE s == call[c]
           pc == IF Now(c, {"writing"}) THEN "done" ELSE "failed"
           Torn == {d \in Calls \ {c} : Writing(d)}
<1>1. /\ s.pc \in {"writing", "rescuing"} /\ Shaped(s) /\ To(c, s, pc) /\ pc \in {"done", "failed"}
      /\ queue' = IF Mutates(c) THEN Tail(queue) ELSE queue
      /\ UNCHANGED settingsVars
  BY DEF EndWrite, Writing, Now, CallsTyped
<1>2. \/ log' = [entries |-> s.out, torn |-> FALSE]
      \/ Torn # {} /\ log' = [entries |-> s.out, torn |-> TRUE]
  BY DEF EndWrite
<1>3. LogCallTrue(s) /\ QueueTrue(c) /\ LogTyped BY DEF LogInv
<1>4. kept' = IF s.pc # "writing" THEN kept ELSE Outcome(s) BY DEF EndWrite, Now, Outcome
<1> HIDE DEF pc
<1>5. s.pc \in LogPcs BY <1>1 DEF LogPcs
<1>6. Mutates(c) <=> s.pc = "queued" \/ Mutating(s)
  <2>1. Mutating(s) => Mutates(c) BY <1>3 DEF QueueTrue, Mutates
  <2>2. ASSUME Mutates(c) PROVE Mutating(s)
    <3>1. queue \in Seq(Calls) BY <1>3 DEF LogTyped
    <3>2. 1 \in DOMAIN queue /\ queue[1] = c BY <2>2, <3>1 DEF Mutates
    <3>3. c \in Range(queue) BY <3>2 DEF Range
    <3> QED BY <1>1, <1>3, <3>3 DEF QueueTrue
  <2> QED BY <1>1, <2>1, <2>2
<1>7. s.out \in Seq(Entries) BY <1>1, <1>3 DEF LogCallTrue
<1>8. log' \in [entries : Seq(Entries), torn : BOOLEAN] /\ log'.entries = s.out
  <2>1. PICK b \in BOOLEAN : log' = [entries |-> s.out, torn |-> b] BY <1>2
  <2> QED BY <1>7, <2>1
<1>9. kept' \in Seq(Entries)
  <2>1. CASE s.pc # "writing" BY <1>3, <1>4, <2>1 DEF LogTyped
  <2>2. CASE s.pc = "writing"
    <3>1. Appends(s) => s.entry \in Entries BY <1>3, <2>2 DEF LogCallTrue
    <3>2. (IF Appends(s) THEN Append(kept, s.entry) ELSE kept) \in Seq(Entries)
      BY <1>3, <3>1 DEF LogTyped
    <3> QED BY <1>4, <2>2, <3>2, PrunedTyped DEF Outcome
  <2> QED BY <2>1, <2>2
<1>10. OnlyCall(c) BY <1>1, Goes
\* Without a listing in its way the call has written what it was to.
<1>11. ~peeked' => log'.entries = kept'
  <2>1. ~peeked' => OutTrue(s) BY DEF LogInv
  <2> QED BY <1>1, <1>4, <1>8, <2>1 DEF OutTrue
<1>12. LogKept' BY <1>11 DEF LogKept
<1>13. kept' # kept /\ ~peeked' =>
         \A d \in Calls \ {c} : call[d].pc \notin {"write", "writing", "rescue", "rescuing"}
  BY <1>1, OneWriter
<1> QED BY <1>1, <1>5, <1>6, <1>8, <1>9, <1>12, <1>13, LogSettles

LEMMA LogFailsKeeps ==
  ASSUME CallsTyped, SettingsInv, LogInv, NEW c \in Calls, LogFails(c),
         peeked' = (peeked \/ Peeks')
  PROVE  FilesKept /\ (UNCHANGED projectsVars /\ ProjectsInv => ProjectsInv')
<1> DEFINE s == call[c]
<1>1. /\ \/ Mutates(c) /\ s.pc = "queued"
         \/ s.pc \in {"listing", "write", "rescue", "writing", "rescuing"}
      /\ To(c, s, "failed")
      /\ queue' = IF Mutates(c) THEN Tail(queue) ELSE queue
      /\ kept' = IF Writing(c) THEN log.entries ELSE kept
      /\ UNCHANGED settingsVars /\ log' = log
  BY DEF LogFails, Now, Writing, Fails
<1>2. QueueTrue(c) /\ LogTyped /\ LogKept BY DEF LogInv
<1>3. s.pc \in LogPcs BY <1>1 DEF LogPcs
<1>4. Mutates(c) <=> s.pc = "queued" \/ Mutating(s)
  <2>1. Mutating(s) => Mutates(c) BY <1>2 DEF QueueTrue, Mutates
  <2>2. ASSUME Mutates(c) PROVE s.pc = "queued" \/ Mutating(s)
    <3>1. queue \in Seq(Calls) BY <1>2 DEF LogTyped
    <3>2. 1 \in DOMAIN queue /\ queue[1] = c BY <2>2, <3>1 DEF Mutates
    <3>3. c \in Range(queue) BY <3>2 DEF Range
    <3> QED BY <1>2, <3>3 DEF QueueTrue
  <2>3. s.pc = "queued" => Mutates(c) BY <1>1
  <2> QED BY <2>1, <2>2, <2>3
<1>5. log' \in [entries : Seq(Entries), torn : BOOLEAN] /\ kept' \in Seq(Entries)
  BY <1>1, <1>2 DEF LogTyped
<1>6. OnlyCall(c) /\ call'[c].pc = "failed" BY <1>1, Goes DEF CallsTyped
<1>7. LogKept'
  <2> SUFFICES ASSUME ~peeked', ~(\E d \in Calls : Writing(d))' PROVE log.entries = kept'
    BY <1>1 DEF LogKept
  <2>1. CASE Writing(c) BY <1>1, <2>1
  <2>2. CASE ~Writing(c)
    <3>1. \A d \in Calls : ~Writing(d) BY <1>6, <2>2 DEF Writing, Now, OnlyCall
    <3> QED BY <1>1, <1>2, <2>2, <3>1 DEF LogKept
  <2> QED BY <2>1, <2>2
<1>8. kept' # kept /\ ~peeked' =>
        \A d \in Calls \ {c} : call[d].pc \notin {"write", "writing", "rescue", "rescuing"}
  BY <1>1, OneWriter DEF Writing, Now
<1> QED BY <1>1, <1>3, <1>4, <1>5, <1>7, <1>8, LogSettles

----------------
(* Lists of projects *)

LEMMA Listable ==
  ASSUME NEW list, ProjectList(list)
  PROVE  /\ \A p \in Range(list) : p \in ProjectType /\ (p.credential <=> p.cred # None)
         /\ \A p \in Range(list) : p.id \in Ids(list) /\ Find(list, p.id) = p
         /\ \A id \in Ids(list) : Find(list, id) \in Range(list) /\ Find(list, id).id = id
         /\ Ids(list) \subseteq ProjectIds
<1>1. /\ list \in Seq(ProjectType)
      /\ \A i, j \in DOMAIN list : list[i].id = list[j].id => i = j
      /\ \A i \in DOMAIN list : list[i].credential <=> list[i].cred # None
  BY DEF ProjectList
<1>2. \A i \in DOMAIN list : list[i] \in ProjectType BY <1>1
<1>3. \A p \in Range(list) : p \in ProjectType /\ (p.credential <=> p.cred # None)
  BY <1>1, <1>2 DEF Range
<1>4. ASSUME NEW id \in Ids(list)
      PROVE  Place(list, id) \in DOMAIN list /\ list[Place(list, id)].id = id
  <2>1. \E i \in DOMAIN list : list[i].id = id BY DEF Ids, Range
  <2> QED BY <2>1 DEF Place
<1>5. ASSUME NEW p \in Range(list) PROVE p.id \in Ids(list) /\ Find(list, p.id) = p
  <2>1. PICK i \in DOMAIN list : list[i] = p BY DEF Range
  <2>2. p.id \in Ids(list) BY DEF Ids
  <2>3. Place(list, p.id) = i BY <1>1, <1>4, <2>1, <2>2
  <2> QED BY <2>1, <2>2, <2>3 DEF Find
<1>6. \A id \in Ids(list) : Find(list, id) \in Range(list) /\ Find(list, id).id = id
  BY <1>4 DEF Find, Range
<1>7. Ids(list) \subseteq ProjectIds
  <2>1. \A p \in ProjectType : p.id \in ProjectIds BY DEF ProjectType
  <2> QED BY <1>3, <2>1 DEF Ids
<1> QED BY <1>3, <1>5, <1>6, <1>7

\* uniqueProjectId: some number up to one more than the projects there are is free.
LEMMA UniqueIdIsFree ==
  ASSUME NEW list, ProjectList(list), NEW name \in STRING
  PROVE  UniqueId(name, list) \in ProjectIds \ Ids(list)
<1> DEFINE n == Len(list)
           Free == {k \in 1..(n + 1) : <<name, k>> \notin Ids(list)}
           least == CHOOSE k \in Free : \A m \in Free : k <= m
<1>1. n \in Nat /\ DOMAIN list = 1..n BY DEF ProjectList
<1>2. Free # {}
  <2> SUFFICES ASSUME \A k \in 1..(n + 1) : <<name, k>> \in Ids(list) PROVE FALSE OBVIOUS
  <2> DEFINE f == [k \in 1..(n + 1) |-> Place(list, <<name, k>>)]
  <2>1. ASSUME NEW k \in 1..(n + 1) PROVE f[k] \in 1..n /\ list[f[k]].id = <<name, k>>
    <3>1. \E i \in DOMAIN list : list[i].id = <<name, k>> BY DEF Ids, Range
    <3> QED BY <1>1, <3>1 DEF Place
  <2>2. f \in [1..(n + 1) -> 1..n] BY <2>1
  <2>3. \A a, b \in 1..(n + 1) : f[a] = f[b] => a = b
    <3> SUFFICES ASSUME NEW a \in 1..(n + 1), NEW b \in 1..(n + 1), f[a] = f[b] PROVE a = b OBVIOUS
    <3>1. <<name, a>> = <<name, b>> BY <2>1
    <3> QED BY <3>1
  <2> HIDE DEF f
  <2>4. f \in Injection(1..(n + 1), 1..n) BY <2>2, <2>3 DEF Injection, IsInjective
  <2>5. ExistsInjection(1..(n + 1), 1..n) BY <2>4 DEF ExistsInjection
  <2>6. n + 1 \in Nat /\ ~(n + 1 <= n) BY <1>1
  <2> HIDE DEF n
  <2> QED BY <1>1, <2>5, <2>6, Fun_NatInjLeq
<1>3. Free \in SUBSET Nat
  <2>1. \A k \in Free : k \in 1..(n + 1) OBVIOUS
  <2>2. 1..(n + 1) \subseteq Nat BY <1>1
  <2> QED BY <2>1, <2>2
<1>4. least \in Free
  <2> HIDE DEF Free
  <2>1. \E k \in Free : \A m \in Free : k <= m BY <1>2, <1>3, LeastNumber
  <2> QED BY <2>1
<1>5. UniqueId(name, list) = <<name, least>> BY DEF UniqueId
<1>6. least \in Nat /\ <<name, least>> \notin Ids(list) BY <1>3, <1>4
<1> HIDE DEF least
<1>7. <<name, least>> \in STRING \X Nat BY <1>6
<1> QED BY <1>5, <1>6, <1>7 DEF ProjectIds

LEMMA Appended ==
  ASSUME NEW list, ProjectList(list), NEW p \in ProjectType, p.id \notin Ids(list),
         p.credential <=> p.cred # None
  PROVE  /\ ProjectList(Append(list, p)) /\ Range(Append(list, p)) = Range(list) \cup {p}
         /\ Ids(Append(list, p)) = Ids(list) \cup {p.id}
<1> DEFINE n == Len(list)
           new == Append(list, p)
<1>1. /\ list \in Seq(ProjectType) /\ n \in Nat /\ DOMAIN list = 1..n
      /\ new \in Seq(ProjectType) /\ DOMAIN new = 1..(n + 1)
      /\ new[n + 1] = p /\ \A i \in 1..n : new[i] = list[i]
  BY DEF ProjectList
<1>2. \A i \in 1..n : list[i].id # p.id BY <1>1 DEF Ids, Range
<1>3. ProjectList(new) BY <1>1, <1>2 DEF ProjectList
<1>4. Range(new) = Range(list) \cup {p} BY <1>1 DEF Range
<1>5. Ids(new) = Ids(list) \cup {p.id} BY <1>4 DEF Ids
<1> QED BY <1>3, <1>4, <1>5

LEMMA Withdrawn ==
  ASSUME NEW list, ProjectList(list), NEW id
  PROVE  /\ ProjectList(WithoutProject(list, id))
         /\ Range(WithoutProject(list, id)) = {p \in Range(list) : p.id # id}
         /\ Ids(WithoutProject(list, id)) = Ids(list) \ {id}
<1> DEFINE new == WithoutProject(list, id)
<1> SUFFICES ProjectList(new) /\ Range(new) = {p \in Range(list) : p.id # id} BY DEF Ids
<1>1. CASE id \notin Ids(list) BY <1>1 DEF WithoutProject, Ids
<1>2. CASE id \in Ids(list)
  <2> DEFINE k == Place(list, id)
             n == Len(list)
             before == SubSeq(list, 1, k - 1)
             after == SubSeq(list, k + 1, n)
  <2>1. \E i \in DOMAIN list : list[i].id = id BY <1>2 DEF Ids, Range
  <2>2. /\ list \in Seq(ProjectType) /\ n \in Nat /\ DOMAIN list = 1..n
        /\ k \in 1..n /\ list[k].id = id
        /\ \A i \in 1..n : list[i] \in ProjectType
        /\ \A i, j \in 1..n : list[i].id = list[j].id => i = j
        /\ \A i \in 1..n : list[i].credential <=> list[i].cred # None
    BY <2>1 DEF ProjectList, Place
  <2>3. new = before \o after BY <1>2 DEF WithoutProject, RemoveAt
  <2> HIDE DEF k, n
  <2>4. /\ before \in Seq(ProjectType) /\ Len(before) = k - 1
        /\ \A i \in 1..(k - 1) : before[i] = list[i]
    <3>1. \A i \in 1..(k - 1) : list[i] \in ProjectType BY <2>2
    <3>2. 1 \in Int /\ k - 1 \in Int BY <2>2
    <3>3. /\ SubSeq(list, 1, k - 1) \in Seq(ProjectType)
          /\ Len(SubSeq(list, 1, k - 1)) = IF 1 <= k - 1 THEN (k - 1) - 1 + 1 ELSE 0
          /\ \A i \in 1..((k - 1) - 1 + 1) : SubSeq(list, 1, k - 1)[i] = list[1 + i - 1]
      BY <3>1, <3>2, SubSeqProperties
    <3> QED BY <2>2, <3>3
  <2>5. /\ after \in Seq(ProjectType) /\ Len(after) = n - k
        /\ \A i \in 1..(n - k) : after[i] = list[k + i]
    <3>1. \A i \in (k + 1)..n : list[i] \in ProjectType BY <2>2
    <3>2. k + 1 \in Int /\ n \in Int BY <2>2
    <3>3. /\ SubSeq(list, k + 1, n) \in Seq(ProjectType)
          /\ Len(SubSeq(list, k + 1, n)) = IF k + 1 <= n THEN n - (k + 1) + 1 ELSE 0
          /\ \A i \in 1..(n - (k + 1) + 1) : SubSeq(list, k + 1, n)[i] = list[(k + 1) + i - 1]
      BY <3>1, <3>2, SubSeqProperties
    <3> QED BY <2>2, <3>3
  <2> HIDE DEF before, after
  <2>6. /\ new \in Seq(ProjectType) /\ Len(new) = n - 1
        /\ \A i \in 1..(n - 1) : new[i] = IF i < k THEN list[i] ELSE list[i + 1]
    <3>1. /\ before \o after \in Seq(ProjectType)
          /\ Len(before \o after) = Len(before) + Len(after)
          /\ \A i \in 1..(Len(before) + Len(after)) :
               (before \o after)[i] = IF i <= Len(before) THEN before[i] ELSE after[i - Len(before)]
      BY <2>4, <2>5, ConcatProperties
    <3>2. new \in Seq(ProjectType) /\ Len(new) = n - 1 BY <2>2, <2>3, <2>4, <2>5, <3>1
    <3>3. ASSUME NEW i \in 1..(n - 1) PROVE new[i] = IF i < k THEN list[i] ELSE list[i + 1]
      <4>1. i \in 1..(Len(before) + Len(after)) BY <2>2, <2>4, <2>5
      <4>2. CASE i < k BY <2>2, <2>3, <2>4, <3>1, <4>1, <4>2
      <4>3. CASE i >= k
        <5>1. new[i] = after[i - (k - 1)] BY <2>2, <2>3, <2>4, <3>1, <4>1, <4>3
        <5>2. i - (k - 1) \in 1..(n - k) /\ k + (i - (k - 1)) = i + 1 BY <2>2, <4>3
        <5>3. after[i - (k - 1)] = list[i + 1] BY <2>5, <5>2
        <5> QED BY <2>2, <4>3, <5>1, <5>3
      <4> QED BY <2>2, <4>2, <4>3
    <3> QED BY <3>2, <3>3
  <2>7. DOMAIN new = 1..(n - 1) BY <2>6
  <2> HIDE DEF new
  <2>8. ASSUME NEW i \in 1..(n - 1)
        PROVE  \E j \in 1..n : j # k /\ new[i] = list[j] /\ j = IF i < k THEN i ELSE i + 1
    BY <2>2, <2>6
  <2>9. ASSUME NEW j \in 1..n, j # k PROVE \E i \in 1..(n - 1) : new[i] = list[j]
    <3>1. CASE j < k BY <2>2, <2>6, <3>1
    <3>2. CASE j > k
      <4>1. j - 1 \in 1..(n - 1) /\ ~(j - 1 < k) /\ (j - 1) + 1 = j BY <2>2, <3>2
      <4> QED BY <2>6, <4>1
    <3> QED BY <2>2, <2>9, <3>1, <3>2
  <2>10. ProjectList(new)
    <3>1. \A i, j \in 1..(n - 1) : new[i].id = new[j].id => i = j
      <4> TAKE i, j \in 1..(n - 1)
      <4>1. PICK a \in 1..n : new[i] = list[a] /\ a = IF i < k THEN i ELSE i + 1 BY <2>8
      <4>2. PICK b \in 1..n : new[j] = list[b] /\ b = IF j < k THEN j ELSE j + 1 BY <2>8
      <4>3. a = b => i = j BY <2>2, <4>1, <4>2
      <4> QED BY <2>2, <4>1, <4>2, <4>3
    <3>2. \A i \in 1..(n - 1) : new[i].credential <=> new[i].cred # None BY <2>2, <2>8
    <3> QED BY <2>6, <2>7, <3>1, <3>2 DEF ProjectList
  <2>11. ASSUME NEW p \in Range(new) PROVE p \in Range(list) /\ p.id # id
    <3>1. PICK i \in 1..(n - 1) : new[i] = p BY <2>7 DEF Range
    <3>2. PICK j \in 1..n : j # k /\ p = list[j] BY <2>8, <3>1
    <3> QED BY <2>2, <3>2 DEF Range
  <2>12. ASSUME NEW p \in Range(list), p.id # id PROVE p \in Range(new)
    <3>1. PICK j \in 1..n : list[j] = p BY <2>2 DEF Range
    <3>2. j # k BY <2>2, <2>12, <3>1
    <3>3. PICK i \in 1..(n - 1) : new[i] = list[j] BY <2>9, <3>2
    <3> QED BY <2>7, <3>1, <3>3 DEF Range
  <2> QED BY <2>10, <2>11, <2>12
<1> QED BY <1>1, <1>2

----------------
(* Steps of the projects *)

ProjectPcs == {"dropping"} \cup ListingPcs \cup ChangingPcs \cup OpeningPcs

\* What a step of the projects keeps of all of the stores, but for the connections it gives.
ProjectsKept == CallsTyped' /\ SettingsCallsStay /\ LogCallsStay /\ ProjectsInv'

\* A call of the projects goes on: the other stores see nothing of it.
LEMMA ProjectGoes ==
  ASSUME CallsTyped, NEW c \in Calls, call[c].pc \in {"new"} \cup ProjectPcs,
         NEW s, Shaped(s), s.req = call[c].req, NEW pc \in ProjectPcs \cup {"done", "failed"},
         To(c, s, pc), pc # "done" => s.served = None
  PROVE  /\ OnlyCall(c) /\ call'[c].pc = pc /\ \A f \in CallFields \ {"pc"} : call'[c][f] = s[f]
         /\ call'[c].req = s.req /\ call'[c].list = s.list /\ call'[c].id = s.id
         /\ call'[c].cred = s.cred /\ call'[c].disturbed = s.disturbed /\ call'[c].out = s.out
         /\ call'[c].served = s.served
         /\ CallsTyped' /\ SettingsCallsStay /\ LogCallsStay
         /\ s.served = None => NoneServed
<1>1. /\ OnlyCall(c) /\ Shaped(call'[c]) /\ call'[c].pc = pc
      /\ \A f \in CallFields \ {"pc"} : call'[c][f] = s[f]
  BY Goes
<1>2. /\ call'[c].req = s.req /\ call'[c].list = s.list /\ call'[c].id = s.id
      /\ call'[c].cred = s.cred /\ call'[c].disturbed = s.disturbed /\ call'[c].out = s.out
      /\ call'[c].served = s.served
  BY <1>1 DEF CallFields
<1>3. call[c].served = None BY DEF CallsTyped, Over, ProjectPcs, ListingPcs, ChangingPcs, OpeningPcs
<1>4. /\ call[c].pc \notin SettingsPcs \cup LogPcs
      /\ call'[c].pc \notin SettingsPcs \cup LogPcs
  BY <1>1 DEF SettingsPcs, LogPcs, ProjectPcs, ListingPcs, ChangingPcs, OpeningPcs
<1>5. SettingsCallsStay /\ LogCallsStay BY <1>1, <1>4, OthersStay DEF SettingsPcs
<1>6. pc \in Pcs /\ ("done" \in Over)
  BY DEF Pcs, Over, ProjectPcs, ListingPcs, ChangingPcs, OpeningPcs
<1>7. CallsTyped'
  <2>1. \A d \in Calls' :
          /\ Shaped(call'[d]) /\ Requested(call'[d].req) /\ call'[d].pc \in Pcs
          /\ call'[d].pc \notin Over => call'[d].served = None
    BY <1>1, <1>2, <1>6 DEF CallsTyped, OnlyCall
  <2>2. call' = [d \in Calls' |-> call'[d]] /\ Calls' \subseteq Nat BY <1>1 DEF CallsTyped, OnlyCall
  <2> QED BY <2>1, <2>2 DEF CallsTyped, Shaped, Requested
<1>8. s.served = None => NoneServed BY <1>1, <1>2, <1>3 DEF NoneServed, OnlyCall
<1> QED BY <1>1, <1>2, <1>5, <1>7, <1>8

\* What of the projects stays true while the list does, or is the first read.
LEMMA ListStands ==
  ASSUME CallsTyped, ProjectsInv, NEW c \in Calls, OnlyCall(c),
         call[c].pc \notin {"savingProjects", "removing"},
         projects' = projects \/ (projects = None /\ projects' = projectsFile),
         UNCHANGED projectsFile, tangled \subseteq tangled'
  PROVE  /\ FileTrue'
         /\ \A d \in Calls \ {c} : Listing(call[d])' /\ Changing(call[d])' /\ Opening(call[d])'
         /\ \A id \in DOMAIN connections :
              connections'[id] = connections[id] => ConnectedTrue(id)' /\ projects # None
<1>1. /\ ProjectsTyped /\ NotListed /\ FileTrue
      /\ \A d \in Calls : Listing(call[d]) /\ Changing(call[d]) /\ Opening(call[d])
      /\ projects # None => \A id \in DOMAIN connections : ConnectedTrue(id)
  BY DEF ProjectsInv
<1>2. projects' = None => projects = None BY <1>1, StoresAssumption DEF ProjectsTyped, ProjectList
<1>3. \A id : \A d \in Calls : Removes(call[d], id) => d # c /\ Removes(call'[d], id)
  BY DEF Removes, OnlyCall
<1>4. projects # None => projects' = projects OBVIOUS
<1>5. FileTrue'
  <2> SUFFICES ASSUME projects' # None, NEW id \in Ids(projectsFile) \ tangled'
               PROVE  id \in Ids(projects') \/ \E d \in Calls : Removes(call'[d], id)
    BY DEF FileTrue, OnlyCall, Ids
  <2>1. CASE projects = None BY <2>1
  <2>2. CASE projects # None
    <3>1. id \in Ids(projects) \/ \E d \in Calls : Removes(call[d], id) BY <1>1, <2>2 DEF FileTrue
    <3> QED BY <1>3, <1>4, <2>2, <3>1
  <2> QED BY <2>1, <2>2
<1>6. ASSUME NEW d \in Calls \ {c}
      PROVE  Listing(call[d])' /\ Changing(call[d])' /\ Opening(call[d])'
  <2>1. call'[d] = call[d] BY DEF OnlyCall
  <2>2. Listing(call[d]) /\ Changing(call[d]) /\ Opening(call[d]) BY <1>1
  <2>3. Listing(call[d])' BY <1>2, <2>1, <2>2 DEF Listing, ListingPcs, ProjectRequests
  <2>4. CASE projects = None
    <3>1. call[d].pc \notin ChangingPcs \cup OpeningPcs BY <1>1, <2>4 DEF NotListed
    <3>2. Changing(call[d])' BY <2>1, <3>1 DEF Changing, ChangingPcs, Removes
    <3>3. Opening(call[d])' BY <2>1, <3>1 DEF Opening, OpeningPcs
    <3> QED BY <2>3, <3>2, <3>3
  <2>5. CASE projects # None
    <3>1. projects' = projects BY <1>4, <2>5
    <3>2. Changing(call[d])'
      BY <2>1, <2>2, <3>1 DEF Changing, ChangingPcs, Removes, ProjectList, Ids, ProjectIds
    <3>3. Opening(call[d])'
      <4>1. (Find(call[d].list, call[d].id))' = Find(call[d].list, call[d].id)
        BY <2>1 DEF Find, Place
      <4>2. ProjectList(call[d].list)' <=> ProjectList(call[d].list) BY <2>1 DEF ProjectList
      <4>3. Ids(projects)' = Ids(projects) /\ Ids(call[d].list)' = Ids(call[d].list)
        BY <2>1, <3>1 DEF Ids
      <4> QED BY <2>1, <2>2, <3>1, <4>1, <4>2, <4>3 DEF Opening
    <3> QED BY <2>3, <3>2, <3>3
  <2> QED BY <2>4, <2>5
<1>7. ASSUME NEW id \in DOMAIN connections, connections'[id] = connections[id]
      PROVE  ConnectedTrue(id)' /\ projects # None
  <2>1. projects # None BY <1>1 DEF NotListed
  <2>2. ConnectedTrue(id) /\ projects' = projects BY <1>1, <1>4, <2>1
  <2>3. (\E d \in Calls : Removes(call[d], id)) => (\E d \in Calls : Removes(call[d], id))'
    BY <1>3 DEF OnlyCall
  <2> QED BY <1>7, <2>1, <2>2, <2>3 DEF ConnectedTrue, Ids
<1> QED BY <1>5, <1>6, <1>7

\* And the credentials, while none is changed.
LEMMA CredentialsStand ==
  ASSUME ProjectsInv,
         projects' = projects \/ (projects = None /\ projects' = projectsFile),
         UNCHANGED <<projectsFile, credentials>>, tangled \subseteq tangled'
  PROVE  CredentialHeld'
<1>1. CredentialHeld BY DEF ProjectsInv
<1>2. {projectsFile'} \cup ({projects'} \ {None}) \subseteq {projectsFile} \cup ({projects} \ {None})
  OBVIOUS
<1> SUFFICES ASSUME NEW list \in {projectsFile} \cup ({projects} \ {None}), NEW p \in Range(list),
                    p.credential, p.id \notin tangled'
             PROVE  p.id \in DOMAIN credentials /\ credentials[p.id] = p.cred
  BY <1>2 DEF CredentialHeld
<1> QED BY <1>1 DEF CredentialHeld

\* A step after which the list and the file are as they were.
LEMMA CallStays ==
  ASSUME CallsTyped, ProjectsInv, NEW c \in Calls, OnlyCall(c),
         call[c].pc \notin {"savingProjects", "removing"},
         projects' = projects \/ (projects = None /\ projects' = projectsFile),
         UNCHANGED projectsFile, tangled \subseteq tangled',
         DOMAIN credentials' \subseteq ProjectIds, CredentialHeld',
         projects' = None => /\ connections' = connections
                             /\ call'[c].pc \notin ChangingPcs \cup OpeningPcs,
         Listing(call[c])', Changing(call[c])', Opening(call[c])',
         DOMAIN connections' \subseteq ProjectIds,
         \A id \in DOMAIN connections' :
           \/ id \in DOMAIN connections /\ connections'[id] = connections[id]
           \/ ConnectedTrue(id)'
  PROVE  ProjectsInv'
<1>1. /\ FileTrue'
      /\ \A d \in Calls \ {c} : Listing(call[d])' /\ Changing(call[d])' /\ Opening(call[d])'
      /\ \A id \in DOMAIN connections :
           connections'[id] = connections[id] => ConnectedTrue(id)' /\ projects # None
  BY ListStands
<1>2. ProjectsTyped' BY DEF ProjectsTyped, ProjectList, ProjectIds, ProjectsInv
<1>3. projects' = None => projects = None
  BY StoresAssumption DEF ProjectsInv, ProjectsTyped, ProjectList
<1>4. NotListed'
  <2> SUFFICES ASSUME projects' = None
               PROVE  /\ DOMAIN connections' = {}
                      /\ \A d \in Calls : call'[d].pc \notin ChangingPcs \cup OpeningPcs
    BY DEF NotListed, OnlyCall
  <2>1. NotListed BY DEF ProjectsInv
  <2> QED BY <1>3, <2>1 DEF NotListed, OnlyCall
<1>5. \A id \in DOMAIN connections' : ConnectedTrue(id)' BY <1>1
<1> QED BY <1>1, <1>2, <1>4, <1>5 DEF ProjectsInv, OnlyCall

\* And the credentials are.
LEMMA CallStands ==
  ASSUME CallsTyped, ProjectsInv, NEW c \in Calls, OnlyCall(c),
         call[c].pc \notin {"savingProjects", "removing"},
         projects' = projects \/ (projects = None /\ projects' = projectsFile),
         UNCHANGED <<projectsFile, credentials>>, tangled \subseteq tangled',
         projects' = None => /\ connections' = connections
                             /\ call'[c].pc \notin ChangingPcs \cup OpeningPcs,
         Listing(call[c])', Changing(call[c])', Opening(call[c])',
         DOMAIN connections' \subseteq ProjectIds,
         \A id \in DOMAIN connections' :
           \/ id \in DOMAIN connections /\ connections'[id] = connections[id]
           \/ ConnectedTrue(id)'
  PROVE  ProjectsInv'
<1>1. CredentialHeld' BY CredentialsStand
<1>2. DOMAIN credentials' \subseteq ProjectIds BY DEF ProjectsInv, ProjectsTyped
<1> QED BY <1>1, <1>2, CallStays

----------------
(* Connections *)

\* A connection that a call gets is one to its project as it is.
AllCurrent ==
  \A c \in Calls :
    LET s == call'[c]
    IN call[c].served = None /\ s.served # None
         /\ ~s.disturbed /\ ~s.served.late /\ s.id \notin tangled
       => \A p \in Range(projects') :
            p.id = s.id => s.served.key.host = p.host /\ s.served.cred = p.cred

LEMMA NoneIsCurrent ==
  ASSUME NoneServed
  PROVE  AllCurrent
BY DEF NoneServed, AllCurrent

\* What a call that opens a connection knows of its project.
Known(s) ==
  /\ ProjectList(s.list) /\ s.id \in Ids(s.list)
  /\ ~s.disturbed /\ s.id \notin tangled =>
       /\ s.id \in Ids(projects')
       /\ \A p \in Range(projects') : p.id = s.id => p = Find(s.list, s.id) /\ s.cred = p.cred

LEMMA FailsKeeps ==
  ASSUME CallsTyped, ProjectsInv, NEW c \in Calls,
         call[c].pc \in ({"new"} \cup ProjectPcs) \ {"savingProjects", "removing"}, Fails(c),
         projects' = projects \/ (projects = None /\ projects' = projectsFile),
         UNCHANGED <<projectsFile, credentials, connections>>, tangled \subseteq tangled'
  PROVE  ProjectsKept /\ NoneServed
<1>1. Shaped(call[c]) /\ call[c].served = None /\ To(c, call[c], "failed")
  BY DEF CallsTyped, Over, Fails, ProjectPcs, ListingPcs, ChangingPcs, OpeningPcs
<1>2. /\ OnlyCall(c) /\ call'[c].pc = "failed"
      /\ CallsTyped' /\ SettingsCallsStay /\ LogCallsStay /\ NoneServed
  BY <1>1, ProjectGoes
<1>3. call'[c].pc \notin {"new"} \cup ListingPcs \cup ChangingPcs \cup OpeningPcs
  BY <1>2 DEF ListingPcs, ChangingPcs, OpeningPcs
<1>4. Listing(call[c])' /\ Changing(call[c])' /\ Opening(call[c])'
  BY <1>3 DEF Listing, Changing, Opening, Removes, ListingPcs, ChangingPcs, OpeningPcs
<1>5. DOMAIN connections' \subseteq ProjectIds BY DEF ProjectsInv, ProjectsTyped
<1>6. ProjectsInv' BY <1>2, <1>3, <1>4, <1>5, CallStands
<1> QED BY <1>2, <1>6 DEF ProjectsKept

LEMMA OpenedKeeps ==
  ASSUME CallsTyped, ProjectsInv, NEW c \in Calls,
         call[c].pc \in {"new", "listed", "unlocked", "closing"},
         NEW s, Shaped(s), s.req = call[c].req, s.served = None, Known(s),
         projects' = projects \/ (projects = None /\ projects' = projectsFile), projects' # None,
         UNCHANGED <<projectsFile, credentials, tangled>>, NEW alive, Opened(c, s, alive)
  PROVE  ProjectsKept /\ AllCurrent
<1> DEFINE project == Find(s.list, s.id)
           key == Key(project, s.cred)
           entry == [key |-> key, cred |-> s.cred, late |-> s.disturbed]
           t == [s EXCEPT !.served = entry]
<1>1. call[c].pc \in ({"new"} \cup ProjectPcs) \ {"savingProjects", "removing"}
  BY DEF ProjectPcs, ListingPcs, ChangingPcs, OpeningPcs
<1>2. CASE Fails(c) /\ UNCHANGED connections
  <2>1. ProjectsKept /\ NoneServed BY <1>1, <1>2, FailsKeeps
  <2> QED BY <2>1, NoneIsCurrent
<1>3. CASE Ends(c, t) /\ connections' = With(connections, s.id, entry)
  <2>1. /\ Shaped(t) /\ t.served = entry
        /\ \A f \in CallFields \ {"served"} : t[f] = s[f]
    BY DEF Shaped, CallFields
  <2>2. t.req = s.req /\ t.id = s.id /\ t.disturbed = s.disturbed BY <2>1 DEF CallFields
  <2>3. To(c, t, "done") BY <1>3 DEF Ends
  <2>4. entry.late = s.disturbed /\ entry.cred = s.cred /\ entry.key.host = project.host BY DEF Key
  <2> HIDE DEF t, entry, project
  <2>5. /\ OnlyCall(c) /\ call'[c].pc = "done"
        /\ call'[c].id = s.id /\ call'[c].served = entry /\ call'[c].disturbed = s.disturbed
        /\ CallsTyped' /\ SettingsCallsStay /\ LogCallsStay
    BY <1>1, <2>1, <2>2, <2>3, ProjectGoes
  <2>6. call'[c].pc \notin {"new"} \cup ListingPcs \cup ChangingPcs \cup OpeningPcs
    BY <2>5 DEF ListingPcs, ChangingPcs, OpeningPcs
  <2>7. Listing(call[c])' /\ Changing(call[c])' /\ Opening(call[c])'
    BY <2>6 DEF Listing, Changing, Opening, Removes, ListingPcs, ChangingPcs, OpeningPcs
  <2>8. s.id \in ProjectIds BY Listable DEF Known
  <2>9. /\ DOMAIN connections' = DOMAIN connections \cup {s.id}
        /\ connections'[s.id] = entry
        /\ \A id \in DOMAIN connections : id # s.id => connections'[id] = connections[id]
    BY <1>3 DEF With
  <2>10. DOMAIN connections' \subseteq ProjectIds BY <2>8, <2>9 DEF ProjectsInv, ProjectsTyped
  <2>11. ConnectedTrue(s.id)'
    <3> SUFFICES ASSUME ~entry.late, s.id \notin tangled
                 PROVE  s.id \in Ids(projects') /\ \A p \in Range(projects') : p.id = s.id => entry.cred = p.cred
      BY <2>9 DEF ConnectedTrue, Ids
    <3> QED BY <2>4 DEF Known
  <2>12. \A id \in DOMAIN connections' :
           \/ id \in DOMAIN connections /\ connections'[id] = connections[id]
           \/ ConnectedTrue(id)'
    BY <2>9, <2>11
  <2>13. ProjectsInv' BY <1>1, <2>5, <2>6, <2>7, <2>10, <2>12, CallStands
  <2>14. AllCurrent
    <3> SUFFICES ASSUME NEW d \in Calls, call[d].served = None, call'[d].served # None,
                        ~call'[d].disturbed, call'[d].id \notin tangled,
                        NEW p \in Range(projects'), p.id = call'[d].id
                 PROVE  call'[d].served.key.host = p.host /\ call'[d].served.cred = p.cred
      BY DEF AllCurrent
    <3>1. d = c BY <2>5 DEF OnlyCall
    <3>2. p = project /\ s.cred = p.cred BY <2>5, <3>1 DEF Known, project
    <3> QED BY <2>4, <2>5, <3>1, <3>2
  <2> QED BY <2>5, <2>13, <2>14 DEF ProjectsKept
<1> QED BY <1>2, <1>3 DEF Opened

LEMMA GetFirestoreKeeps ==
  ASSUME CallsTyped, ProjectsInv, NEW c \in Calls,
         call[c].pc \in {"new", "listed", "unlocked"},
         NEW s, Shaped(s), s.req = call[c].req, s.served = None, Known(s),
         s.req.do = "connect", s.id = s.req.id,
         projects' = projects \/ (projects = None /\ projects' = projectsFile), projects' # None,
         UNCHANGED <<projectsFile, credentials, tangled>>, GetFirestore(c, s)
  PROVE  ProjectsKept /\ AllCurrent
<1> DEFINE project == Find(s.list, s.id)
           key == Key(project, s.cred)
           cached == connections[s.id]
<1>1. call[c].pc \in ({"new"} \cup ProjectPcs) \ {"savingProjects", "removing"}
  BY DEF ProjectPcs, ListingPcs, ChangingPcs, OpeningPcs
<1>2. CASE s.id \notin DOMAIN connections /\ Opened(c, s, apps)
  <2>1. call[c].pc \in {"new", "listed", "unlocked", "closing"} OBVIOUS
  <2> QED BY <1>2, <2>1, OpenedKeeps
<1>3. CASE /\ s.id \in DOMAIN connections /\ cached.key = key
           /\ Ends(c, [s EXCEPT !.served = cached]) /\ UNCHANGED <<connections, apps>>
  <2> DEFINE t == [s EXCEPT !.served = cached]
  <2>1. /\ Shaped(t) /\ t.served = cached
        /\ \A f \in CallFields \ {"served"} : t[f] = s[f]
    BY DEF Shaped, CallFields
  <2>2. t.req = s.req /\ t.id = s.id /\ t.disturbed = s.disturbed BY <2>1 DEF CallFields
  <2>3. To(c, t, "done") BY <1>3 DEF Ends
  <2>4. cached.key.host = project.host BY <1>3 DEF Key
  <2> HIDE DEF t, project
  <2>5. /\ OnlyCall(c) /\ call'[c].pc = "done"
        /\ call'[c].id = s.id /\ call'[c].served = cached /\ call'[c].disturbed = s.disturbed
        /\ CallsTyped' /\ SettingsCallsStay /\ LogCallsStay
    BY <1>1, <2>1, <2>2, <2>3, ProjectGoes
  <2>6. call'[c].pc \notin {"new"} \cup ListingPcs \cup ChangingPcs \cup OpeningPcs
    BY <2>5 DEF ListingPcs, ChangingPcs, OpeningPcs
  <2>7. Listing(call[c])' /\ Changing(call[c])' /\ Opening(call[c])'
    BY <2>6 DEF Listing, Changing, Opening, Removes, ListingPcs, ChangingPcs, OpeningPcs
  <2>8. DOMAIN connections' \subseteq ProjectIds BY <1>3 DEF ProjectsInv, ProjectsTyped
  <2>9. ProjectsInv' BY <1>1, <1>3, <2>5, <2>6, <2>7, <2>8, CallStands
  <2>10. AllCurrent
    <3> SUFFICES ASSUME NEW d \in Calls, call[d].served = None, call'[d].served # None,
                        ~call'[d].disturbed, ~call'[d].served.late, call'[d].id \notin tangled,
                        NEW p \in Range(projects'), p.id = call'[d].id
                 PROVE  call'[d].served.key.host = p.host /\ call'[d].served.cred = p.cred
      BY DEF AllCurrent
    <3>1. d = c BY <2>5 DEF OnlyCall
    <3>2. p = project BY <2>5, <3>1 DEF Known, project
    <3>3. ConnectedTrue(s.id)' BY <1>3, <2>9 DEF ProjectsInv
    <3>4. cached.cred = p.cred BY <1>3, <2>5, <3>1, <3>3 DEF ConnectedTrue
    <3> QED BY <2>4, <2>5, <3>1, <3>2, <3>4
  <2> QED BY <2>5, <2>9, <2>10 DEF ProjectsKept
<1>4. CASE To(c, [s EXCEPT !.out = cached], "closing") /\ UNCHANGED <<connections, apps>>
  <2> DEFINE t == [s EXCEPT !.out = cached]
  <2>1. Shaped(t) /\ \A f \in CallFields \ {"out"} : t[f] = s[f] BY DEF Shaped, CallFields
  <2>2. /\ t.req = s.req /\ t.id = s.id /\ t.disturbed = s.disturbed /\ t.list = s.list
        /\ t.cred = s.cred /\ t.served = s.served
    BY <2>1 DEF CallFields
  <2>3. To(c, t, "closing") /\ "closing" \in ProjectPcs BY <1>4 DEF ProjectPcs, OpeningPcs
  <2> HIDE DEF t
  <2>5. /\ OnlyCall(c) /\ call'[c].pc = "closing" /\ call'[c].req = s.req
        /\ call'[c].id = s.id /\ call'[c].list = s.list /\ call'[c].cred = s.cred
        /\ call'[c].disturbed = s.disturbed
        /\ CallsTyped' /\ SettingsCallsStay /\ LogCallsStay /\ NoneServed
    BY <1>1, <2>1, <2>2, <2>3, ProjectGoes
  <2>6. Listing(call[c])' /\ Changing(call[c])'
    BY <2>5 DEF Listing, Changing, Removes, ListingPcs, ChangingPcs
  <2>7. Opening(call[c])'
    <3>1. (Find(call[c].list, call[c].id))' = project BY <2>5 DEF Find, Place
    <3>2. ProjectList(call[c].list)' BY <2>5 DEF Known, ProjectList
    <3>3. Ids(call[c].list)' = Ids(s.list) /\ (Ids(projects))' = Ids(projects') BY <2>5 DEF Ids
    <3> HIDE DEF project
    <3>4. ~s.disturbed /\ s.id \notin tangled =>
            /\ s.id \in Ids(projects')
            /\ \A p \in Range(projects') : p.id = s.id => p = project /\ s.cred = p.cred
      BY DEF Known, project
    <3> QED BY <2>5, <3>1, <3>2, <3>3, <3>4 DEF Opening, Known
  <2>8. DOMAIN connections' \subseteq ProjectIds BY <1>4 DEF ProjectsInv, ProjectsTyped
  <2>9. ProjectsInv' BY <1>1, <1>4, <2>5, <2>6, <2>7, <2>8, CallStands
  <2> QED BY <2>5, <2>9, NoneIsCurrent DEF ProjectsKept
<1> QED BY <1>2, <1>3, <1>4 DEF GetFirestore


LEMMA ReadProjectsKeeps ==
  ASSUME CallsTyped, ProjectsInv, NEW c \in Calls, ReadProjects(c)
  PROVE  ProjectsKept /\ AllCurrent
<1> DEFINE t == [call[c] EXCEPT !.list = projectsFile]
<1>1. /\ call[c].pc = "listingProjects" /\ Shaped(call[c]) /\ call[c].served = None
      /\ To(c, t, "listed") /\ UNCHANGED projectsVars
  BY DEF ReadProjects, Now, CallsTyped, Over
<1>2. Shaped(t) /\ t.list = projectsFile /\ \A f \in CallFields \ {"list"} : t[f] = call[c][f]
  BY <1>1 DEF Shaped, CallFields
<1>3. t.req = call[c].req /\ t.served = call[c].served /\ t.cred = call[c].cred
  BY <1>2 DEF CallFields
<1>4. call[c].pc \in ProjectPcs /\ "listed" \in ProjectPcs BY <1>1 DEF ProjectPcs, ListingPcs
<1> HIDE DEF t
<1>5. /\ OnlyCall(c) /\ call'[c].pc = "listed" /\ call'[c].req = call[c].req
      /\ call'[c].list = projectsFile /\ call'[c].cred = call[c].cred
      /\ CallsTyped' /\ SettingsCallsStay /\ LogCallsStay /\ NoneServed
  BY <1>1, <1>2, <1>3, <1>4, ProjectGoes
<1>6. Listing(call[c]) BY DEF ProjectsInv
<1>7. Listing(call[c])' BY <1>1, <1>5, <1>6 DEF Listing, ListingPcs, ProjectRequests, projectsVars
<1>8. Changing(call[c])' /\ Opening(call[c])'
  BY <1>5 DEF Changing, Removes, Opening, ChangingPcs, OpeningPcs
<1>9. DOMAIN connections' \subseteq ProjectIds BY <1>1 DEF ProjectsInv, ProjectsTyped, projectsVars
<1>10. call'[c].pc \notin ChangingPcs \cup OpeningPcs BY <1>5 DEF ChangingPcs, OpeningPcs
<1>11. ProjectsInv' BY <1>1, <1>5, <1>7, <1>8, <1>9, <1>10, CallStands DEF projectsVars
<1> QED BY <1>5, <1>11, NoneIsCurrent DEF ProjectsKept

LEMMA LoadCredentialKeeps ==
  ASSUME CallsTyped, ProjectsInv, NEW c \in Calls, LoadCredential(c)
  PROVE  ProjectsKept /\ AllCurrent
<1> DEFINE s == call[c]
           cred == IF s.id \in DOMAIN credentials THEN credentials[s.id] ELSE None
           t == [s EXCEPT !.cred = cred]
<1>1. /\ s.pc = "unlocking" /\ Shaped(s) /\ s.served = None
      /\ To(c, t, "unlocked") /\ UNCHANGED projectsVars
  BY DEF LoadCredential, Now, CallsTyped, Over
<1>2. Shaped(t) /\ t.cred = cred /\ \A f \in CallFields \ {"cred"} : t[f] = s[f]
  BY <1>1 DEF Shaped, CallFields
<1>3. /\ t.req = s.req /\ t.served = s.served /\ t.list = s.list /\ t.id = s.id
      /\ t.disturbed = s.disturbed
  BY <1>2 DEF CallFields
<1>4. s.pc \in ProjectPcs /\ "unlocked" \in ProjectPcs BY <1>1 DEF ProjectPcs, OpeningPcs
<1> HIDE DEF t
<1>5. /\ OnlyCall(c) /\ call'[c].pc = "unlocked" /\ call'[c].req = s.req
      /\ call'[c].list = s.list /\ call'[c].id = s.id /\ call'[c].cred = cred
      /\ call'[c].disturbed = s.disturbed
      /\ CallsTyped' /\ SettingsCallsStay /\ LogCallsStay /\ NoneServed
  BY <1>1, <1>2, <1>3, <1>4, ProjectGoes
<1>6. Opening(s) /\ CredentialHeld /\ NotListed BY DEF ProjectsInv
<1>7. projects # None BY <1>1, <1>6 DEF NotListed, OpeningPcs
<1>8. Listing(call[c])' /\ Changing(call[c])'
  BY <1>5 DEF Listing, Changing, Removes, ListingPcs, ChangingPcs
<1>9. Opening(call[c])'
  <2> DEFINE project == Find(s.list, s.id)
  <2>1. /\ s.req.do = "connect" /\ s.id = s.req.id
        /\ ProjectList(s.list) /\ s.id \in Ids(s.list)
        /\ ~s.disturbed /\ s.id \notin tangled =>
             /\ s.id \in Ids(projects)
             /\ \A p \in Range(projects) : p.id = s.id => p = project /\ p.credential
    BY <1>1, <1>6 DEF Opening, OpeningPcs
  <2>2. (Find(call[c].list, call[c].id))' = project BY <1>5 DEF Find, Place
  <2>3. ProjectList(call[c].list)' BY <1>5, <2>1 DEF ProjectList
  <2>4. Ids(call[c].list)' = Ids(s.list) /\ (Ids(projects))' = Ids(projects)
    BY <1>1, <1>5 DEF Ids, projectsVars
  <2> HIDE DEF project
  <2>5. ASSUME s.id \notin tangled, NEW p \in Range(projects), p.id = s.id, p.credential
        PROVE  cred = p.cred
    BY <1>6, <1>7, <2>5 DEF CredentialHeld
  <2> HIDE DEF cred
  <2> QED BY <1>1, <1>5, <2>1, <2>2, <2>3, <2>4, <2>5 DEF Opening, projectsVars
<1>10. DOMAIN connections' \subseteq ProjectIds BY <1>1 DEF ProjectsInv, ProjectsTyped, projectsVars
<1>11. ProjectsInv' BY <1>1, <1>5, <1>7, <1>8, <1>9, <1>10, CallStands DEF projectsVars
<1> QED BY <1>5, <1>11, NoneIsCurrent DEF ProjectsKept

LEMMA KnownStill ==
  ASSUME ProjectsInv, NEW c \in Calls, call[c].pc \in {"unlocked", "closing"}, projects' = projects
  PROVE  Known(call[c]) /\ projects # None
<1>1. Opening(call[c]) /\ NotListed BY DEF ProjectsInv
<1>2. call[c].pc \in OpeningPcs /\ call[c].pc # "unlocking" BY DEF OpeningPcs
<1>3. projects # None BY <1>1, <1>2 DEF NotListed
<1> QED BY <1>1, <1>2, <1>3 DEF Opening, Known

LEMMA CredentialLoadedKeeps ==
  ASSUME CallsTyped, ProjectsInv, NEW c \in Calls, CredentialLoaded(c)
  PROVE  ProjectsKept /\ AllCurrent
<1>1. /\ call[c].pc = "unlocked" /\ Shaped(call[c]) /\ call[c].served = None
      /\ GetFirestore(c, call[c]) /\ UNCHANGED <<projectsFile, projects, credentials, tangled>>
  BY DEF CredentialLoaded, Now, CallsTyped, Over
<1>2. Known(call[c]) /\ projects # None BY <1>1, KnownStill
<1>3. call[c].req.do = "connect" /\ call[c].id = call[c].req.id
  BY <1>1 DEF ProjectsInv, Opening, OpeningPcs
<1> QED BY <1>1, <1>2, <1>3, GetFirestoreKeeps

LEMMA ClosedKeeps ==
  ASSUME CallsTyped, ProjectsInv, NEW c \in Calls, Closed(c)
  PROVE  ProjectsKept /\ AllCurrent
<1> DEFINE s == call[c]
           name == AppName(s.id, s.out.key)
<1>1. /\ s.pc = "closing" /\ Shaped(s) /\ s.served = None
      /\ UNCHANGED <<projectsFile, projects, credentials, tangled>>
      /\ Opened(c, s, apps \ {name}) \/ (Fails(c) /\ UNCHANGED connections)
  BY DEF Closed, Now, CallsTyped, Over
<1>2. Known(s) /\ projects # None BY <1>1, KnownStill
<1>3. CASE Opened(c, s, apps \ {name}) BY <1>1, <1>2, <1>3, OpenedKeeps
<1>4. CASE Fails(c) /\ UNCHANGED connections
  <2>1. s.pc \in ({"new"} \cup ProjectPcs) \ {"savingProjects", "removing"}
    BY <1>1 DEF ProjectPcs, OpeningPcs
  <2> QED BY <1>1, <1>4, <2>1, FailsKeeps, NoneIsCurrent
<1> QED BY <1>1, <1>3, <1>4

LEMMA CloseFailsKeeps ==
  ASSUME CallsTyped, ProjectsInv, NEW c \in Calls, CloseFails(c)
  PROVE  ProjectsKept /\ AllCurrent
<1>1. /\ call[c].pc \in {"closing", "dropping"} /\ Fails(c)
      /\ UNCHANGED <<projectsFile, projects, credentials, connections, tangled>>
  BY DEF CloseFails, Now
<1>2. call[c].pc \in ({"new"} \cup ProjectPcs) \ {"savingProjects", "removing"}
  BY <1>1 DEF ProjectPcs, OpeningPcs
<1> QED BY <1>1, <1>2, FailsKeeps, NoneIsCurrent

LEMMA DroppedKeeps ==
  ASSUME CallsTyped, ProjectsInv, NEW c \in Calls, Dropped(c)
  PROVE  ProjectsKept /\ AllCurrent
<1> DEFINE s == call[c]
<1>1. /\ s.pc = "dropping" /\ Shaped(s) /\ s.served = None
      /\ To(c, s, "done") \/ To(c, s, "failed")
      /\ UNCHANGED <<projectsFile, projects, credentials, connections, tangled>>
  BY DEF Dropped, Now, CallsTyped, Over, Ends, Fails
<1>2. PICK pc \in {"done", "failed"} : To(c, s, pc) BY <1>1
<1>3. s.pc \in ProjectPcs BY <1>1 DEF ProjectPcs
<1>4. /\ OnlyCall(c) /\ call'[c].pc = pc
      /\ CallsTyped' /\ SettingsCallsStay /\ LogCallsStay /\ NoneServed
  BY <1>1, <1>2, <1>3, ProjectGoes
<1>5. call[c].pc \notin ChangingPcs
      /\ call'[c].pc \notin {"new"} \cup ListingPcs \cup ChangingPcs \cup OpeningPcs
  BY <1>1, <1>4 DEF ListingPcs, ChangingPcs, OpeningPcs
<1>6. ProjectCallsStay BY <1>4, <1>5, OthersStay
<1>7. ProjectsInv' BY <1>1, <1>6, ProjectsStay
<1> QED BY <1>4, <1>7, NoneIsCurrent DEF ProjectsKept

----------------
(* Saving the list of projects *)

\* A save disturbs the connections being opened to its project, and no other call.
Disturbs(c, id) ==
  /\ Calls' = Calls /\ call' = [d \in Calls |-> call'[d]]
  /\ \A d \in Calls \ {c} :
       /\ Shaped(call'[d]) /\ call'[d].req = call[d].req /\ call'[d].pc = call[d].pc
       /\ call'[d].snap = call[d].snap /\ call'[d].no = call[d].no
       /\ call'[d].entry = call[d].entry /\ call'[d].out = call[d].out
       /\ call'[d].list = call[d].list /\ call'[d].id = call[d].id
       /\ call'[d].cred = call[d].cred /\ call'[d].served = call[d].served
       /\ ~call'[d].disturbed => ~call[d].disturbed
       /\ /\ call[d].req.do = "connect" /\ call[d].req.id = id
          /\ call[d].pc \notin Over \cup {"new"}
          => call'[d].disturbed

LEMMA SavesGoes ==
  ASSUME CallsTyped, NEW c \in Calls, NEW s, Shaped(s), s.req = call[c].req, s.req.do # "connect",
         s.served = None, call[c].pc \in {"new", "listed", "storing"},
         NEW list, Saves(c, s, list)
  PROVE  /\ Disturbs(c, s.id)
         /\ call'[c].req = s.req /\ call'[c].pc = "savingProjects" /\ call'[c].out = list
         /\ call'[c].list = s.list /\ call'[c].id = s.id
         /\ CallsTyped' /\ SettingsCallsStay /\ LogCallsStay /\ NoneServed
<1> DEFINE t == [s EXCEPT !.out = list, !.pc = "savingProjects"]
           f == [call EXCEPT ![c] = t]
           Met(d) == f[d].req.do = "connect" /\ f[d].req.id = s.id /\ f[d].pc \notin Over \cup {"new"}
           u(d) == IF Met(d) THEN [f[d] EXCEPT !.disturbed = TRUE] ELSE f[d]
<1>1. /\ Shaped(t) /\ t.out = list /\ t.pc = "savingProjects" /\ t.req = s.req /\ t.list = s.list
      /\ t.id = s.id /\ t.served = s.served
  BY DEF Shaped, CallFields
<1>2. call' = [d \in Calls |-> u(d)] BY DEF Saves, Disturbed
<1> HIDE DEF t
<1>3. f[c] = t /\ \A d \in Calls \ {c} : f[d] = call[d] BY DEF Calls
<1> HIDE DEF f
<1>4. Calls' = Calls /\ \A d \in Calls : call'[d] = u(d) BY <1>2 DEF Calls
<1>5. call'[c] = t BY <1>1, <1>3, <1>4
<1>6. ASSUME NEW d \in Calls \ {c}
      PROVE  /\ Shaped(call'[d]) /\ call'[d].req = call[d].req /\ call'[d].pc = call[d].pc
             /\ call'[d].snap = call[d].snap /\ call'[d].no = call[d].no
             /\ call'[d].entry = call[d].entry /\ call'[d].out = call[d].out
             /\ call'[d].list = call[d].list /\ call'[d].id = call[d].id
             /\ call'[d].cred = call[d].cred /\ call'[d].served = call[d].served
             /\ ~call'[d].disturbed => ~call[d].disturbed
             /\ /\ call[d].req.do = "connect" /\ call[d].req.id = s.id
                /\ call[d].pc \notin Over \cup {"new"}
                => call'[d].disturbed
  <2>1. Shaped(call[d]) BY DEF CallsTyped
  <2>2. f[d] = call[d] BY <1>3
  <2>3. CASE Met(d)
    <3>1. call'[d] = [call[d] EXCEPT !.disturbed = TRUE] BY <1>4, <2>2, <2>3
    <3> QED BY <2>1, <3>1 DEF Shaped, CallFields
  <2>4. CASE ~Met(d)
    <3>1. call'[d] = call[d] BY <1>4, <2>2, <2>4
    <3> QED BY <2>1, <2>2, <2>4, <3>1
  <2> QED BY <2>3, <2>4
<1>7. call' = [d \in Calls |-> call'[d]] BY <1>2
<1>8. Disturbs(c, s.id) BY <1>4, <1>6, <1>7 DEF Disturbs
<1>9. CallsTyped'
  <2>1. \A d \in Calls : d # c => Shaped(call'[d]) BY <1>6
  <2>2. \A d \in Calls' :
          /\ Shaped(call'[d]) /\ Requested(call'[d].req) /\ call'[d].pc \in Pcs
          /\ call'[d].pc \notin Over => call'[d].served = None
    BY <1>1, <1>4, <1>5, <1>6 DEF CallsTyped, Pcs, ChangingPcs
  <2> QED BY <1>4, <1>7, <2>2 DEF CallsTyped, Shaped, Requested
<1>10. SettingsCallsStay BY <1>1, <1>4, <1>5, <1>6 DEF SettingsCallsStay, SettingsPcs
<1>11. LogCallsStay BY <1>1, <1>4, <1>5, <1>6 DEF LogCallsStay, LogPcs
<1>12. call[c].served = None BY DEF CallsTyped, Over
<1>13. NoneServed BY <1>1, <1>5, <1>6, <1>12 DEF NoneServed
<1> QED BY <1>1, <1>5, <1>8, <1>9, <1>10, <1>11, <1>13

\* A list saved is the one listed, but for the project of the call.
ButFor(list, s) ==
  /\ ProjectList(list) /\ ProjectList(s.list) /\ s.id \in ProjectIds
  /\ \A p \in Range(list) : p.id # s.id => p \in Range(s.list)
  /\ Ids(list) \subseteq Ids(s.list) \cup {s.id} /\ Ids(s.list) \ {s.id} \subseteq Ids(list)
  /\ \/ s.req.do = "add" /\ s.id \notin Ids(s.list)
     \/ /\ s.req.do = "update" /\ s.id \in Ids(s.list) \cap Ids(list)
        /\ \A p \in Range(list), q \in Range(s.list) :
             p.id = s.id /\ q.id = s.id => p.cred = q.cred
     \/ s.req.do = "remove" /\ s.id \notin Ids(list)

LEMMA SavesKeeps ==
  ASSUME CallsTyped, ProjectsInv, NEW c \in Calls, call[c].pc \in {"new", "listed", "storing"},
         NEW s, Shaped(s), s.req = call[c].req, s.served = None,
         projects = None => s.list = projectsFile,
         NEW list, Saves(c, s, list), ButFor(list, s),
         UNCHANGED <<projectsFile, connections>>, DOMAIN credentials' \subseteq ProjectIds,
         CredentialHeld'
  PROVE  ProjectsKept /\ NoneServed
<1> DEFINE Calm == projects \in {None, s.list} /\ ~\E d \in Calls : Now(d, {"savingProjects"})
<1>1. /\ ProjectsTyped /\ NotListed /\ FileTrue
      /\ \A d \in Calls : Listing(call[d]) /\ Changing(call[d]) /\ Opening(call[d])
      /\ projects # None => \A id \in DOMAIN connections : ConnectedTrue(id)
  BY DEF ProjectsInv
<1>2. s.req.do \in {"add", "update", "remove"} BY DEF ButFor
<1>3. /\ Disturbs(c, s.id)
      /\ call'[c].req = s.req /\ call'[c].pc = "savingProjects" /\ call'[c].out = list
      /\ call'[c].list = s.list /\ call'[c].id = s.id
      /\ CallsTyped' /\ SettingsCallsStay /\ LogCallsStay /\ NoneServed
  BY <1>2, SavesGoes
<1>4. projects' = list /\ list # None /\ ProjectList(list)
  BY StoresAssumption DEF Saves, ButFor, ProjectList
<1>5. tangled \cup Crossing(c, s.id) \subseteq tangled' BY DEF Saves
<1>6. ~Calm => /\ projects # None
               /\ Ids(list) \cup Ids(s.list) \cup Ids(projects) \subseteq tangled'
  <2> SUFFICES ASSUME ~Calm
               PROVE  projects # None /\ Ids(list) \cup Ids(s.list) \cup Ids(projects) \subseteq tangled'
    OBVIOUS
  <2>1. projects # None BY <1>1 DEF NotListed, Now, ChangingPcs
  <2>2. (IF projects = None THEN <<>> ELSE projects) = projects BY <2>1
  <2> QED BY <2>1, <2>2 DEF Saves
<1>7. Calm => (projects # None => projects = s.list) /\ \A d \in Calls : call[d].pc # "savingProjects"
  BY DEF Now
\* Other calls that add or remove the project make it a tangled one.
<1>8. ASSUME NEW d \in Calls \ {c}, call[d].id = s.id, call[d].req.do \in {"add", "remove"},
             call[d].pc \in ChangingPcs
      PROVE  s.id \in tangled'
  <2>1. UnderWay(d) /\ Does(d, {"add", "remove"}) BY <1>8 DEF UnderWay, Over, Does, ChangingPcs
  <2>2. s.id \in Crossing(c, s.id) BY <1>8, <2>1 DEF Crossing
  <2> QED BY <1>5, <2>2
<1>9. \A d \in Calls : \A id : Removes(call[d], id) =>
        /\ d # c /\ Removes(call'[d], id) /\ call[d].pc \in ChangingPcs /\ id = call[d].id
        /\ call[d].req.do = "remove"
  <2> TAKE d \in Calls
  <2> TAKE id
  <2>1. call[c].pc \notin {"savingProjects", "removing"} OBVIOUS
  <2> QED BY <1>3, <2>1 DEF Removes, Disturbs, ChangingPcs
<1>10. s.req.do = "remove" => Removes(call'[c], s.id) BY <1>3 DEF Removes
<1> HIDE DEF Calm
<1>11. FileTrue'
  <2> SUFFICES ASSUME NEW id \in Ids(projectsFile) \ tangled'
               PROVE  id \in Ids(list) \/ \E d \in Calls : Removes(call'[d], id)
    BY <1>3, <1>4 DEF FileTrue, Disturbs, Ids
  <2>1. id \notin tangled BY <1>5
  <2>2. CASE ~Calm
    <3>1. id \in Ids(projects) \/ \E d \in Calls : Removes(call[d], id)
      BY <1>1, <1>6, <2>1, <2>2 DEF FileTrue
    <3> QED BY <1>6, <1>9, <2>2, <3>1
  <2>3. CASE Calm
    <3>1. id \in Ids(s.list) \/ \E d \in Calls : Removes(call[d], id)
      BY <1>1, <1>7, <2>1, <2>3 DEF FileTrue
    <3>2. id \in Ids(s.list) => id \in Ids(list) \/ Removes(call'[c], id) BY <1>10 DEF ButFor
    <3> QED BY <1>9, <3>1, <3>2
  <2> QED BY <2>2, <2>3
<1>12. ASSUME NEW d \in Calls \ {c} PROVE Listing(call[d])' /\ Changing(call[d])' /\ Opening(call[d])'
  <2>1. /\ call'[d].req = call[d].req /\ call'[d].pc = call[d].pc /\ call'[d].out = call[d].out
        /\ call'[d].list = call[d].list /\ call'[d].id = call[d].id /\ call'[d].cred = call[d].cred
        /\ ~call'[d].disturbed => ~call[d].disturbed
        /\ /\ call[d].req.do = "connect" /\ call[d].req.id = s.id
           /\ call[d].pc \notin Over \cup {"new"}
           => call'[d].disturbed
    BY <1>3 DEF Disturbs
  <2>2. Listing(call[d]) /\ Changing(call[d]) /\ Opening(call[d]) BY <1>1
  <2>3. Listing(call[d])' BY <1>4, <2>1, <2>2 DEF Listing, ListingPcs, ProjectRequests
  <2>4. ASSUME call[d].pc \in ChangingPcs, call[d].req.do \in {"add", "remove"},
               call[d].id \notin tangled', call[d].id \notin Ids(projects)
        PROVE  call[d].id \notin Ids(list)
    <3>1. call[d].id # s.id BY <1>8, <2>4
    <3>2. CASE Calm
      <4>1. projects = s.list BY <1>1, <1>7, <2>4, <3>2 DEF NotListed
      <4> QED BY <2>4, <3>1, <4>1 DEF ButFor
    <3>3. CASE ~Calm BY <1>6, <2>4, <3>3
    <3> QED BY <3>2, <3>3
  <2>5. Changing(call[d])'
    <3>1. call[d].pc \in {"clearing", "storing"} =>
            /\ call[d].pc \in ChangingPcs /\ call[d].req.do = "add" /\ ProjectList(call[d].list)
            /\ call[d].id \notin Ids(call[d].list)
            /\ call[d].id \notin tangled' => call[d].id \notin Ids(list) \cup Ids(projectsFile)
      BY <1>5, <2>2, <2>4 DEF Changing, ChangingPcs
    <3>2. call[d].pc = "savingProjects" =>
            /\ call[d].req.do \in {"add", "update", "remove"} /\ ProjectList(call[d].out)
            /\ Ids(call[d].out) \subseteq tangled'
      BY <1>5, <1>6, <1>7, <2>2 DEF Changing
    <3>3. call[d].pc = "removing" =>
            /\ call[d].req.do = "remove"
            /\ call[d].id \notin tangled' => call[d].id \notin Ids(projectsFile)
      BY <1>5, <2>2 DEF Changing
    <3>4. Removes(call[d], call[d].id) /\ call[d].id \notin tangled' => call[d].id \notin Ids(list)
      BY <1>5, <1>9, <2>2, <2>4 DEF Changing
    <3>5. call[d].pc \in ChangingPcs => call[d].id \in ProjectIds BY <2>2 DEF Changing
    <3>6. /\ (Ids(projects))' = Ids(list) /\ (Ids(projectsFile))' = Ids(projectsFile)
          /\ (Ids(call[d].list))' = Ids(call[d].list) /\ (Ids(call[d].out))' = Ids(call[d].out)
      BY <1>4, <2>1 DEF Ids
    <3>7. /\ (ProjectList(call[d].list))' <=> ProjectList(call[d].list)
          /\ (ProjectList(call[d].out))' <=> ProjectList(call[d].out)
      BY <2>1 DEF ProjectList
    <3>8. (Removes(call[d], call[d].id))' <=> Removes(call[d], call[d].id) BY <2>1 DEF Removes
    <3>9. ProjectIds' = ProjectIds BY DEF ProjectIds
    <3> QED BY <2>1, <3>1, <3>2, <3>3, <3>4, <3>5, <3>6, <3>7, <3>8, <3>9 DEF Changing, ChangingPcs
  <2>6. Opening(call[d])'
    <3> DEFINE project == Find(call[d].list, call[d].id)
    <3> SUFFICES ASSUME call[d].pc \in OpeningPcs PROVE Opening(call[d])'
      BY <2>1 DEF Opening, OpeningPcs
    <3>1. /\ call[d].req.do = "connect" /\ call[d].id = call[d].req.id
          /\ ProjectList(call[d].list) /\ call[d].id \in Ids(call[d].list)
          /\ ~call[d].disturbed /\ call[d].id \notin tangled =>
               /\ call[d].id \in Ids(projects)
               /\ \A p \in Range(projects) :
                    p.id = call[d].id => /\ p = project
                                         /\ call[d].pc = "unlocking" => p.credential
                                         /\ call[d].pc # "unlocking" => call[d].cred = p.cred
      BY <2>2 DEF Opening
    <3>2. projects # None BY <1>1 DEF NotListed
    <3>3. (Find(call[d].list, call[d].id))' = project BY <2>1 DEF Find, Place
    <3>4. (Ids(projects))' = Ids(list) /\ (Ids(call[d].list))' = Ids(call[d].list)
      BY <1>4, <2>1 DEF Ids
    <3>5. (ProjectList(call[d].list))' <=> ProjectList(call[d].list) BY <2>1 DEF ProjectList
    <3> HIDE DEF project
    <3>6. ASSUME ~call'[d].disturbed, call[d].id \notin tangled'
          PROVE  /\ call[d].id \in Ids(list)
                 /\ \A p \in Range(list) :
                      p.id = call[d].id => /\ p = project
                                           /\ call[d].pc = "unlocking" => p.credential
                                           /\ call[d].pc # "unlocking" => call[d].cred = p.cred
      <4>1. ~call[d].disturbed /\ call[d].id \notin tangled BY <1>5, <2>1, <3>6
      <4>2. call[d].id \in Ids(projects) BY <3>1, <4>1
      <4>3. projects = s.list BY <1>6, <1>7, <3>2, <3>6, <4>2
      <4>4. call[d].id # s.id BY <2>1, <3>1, <3>6 DEF OpeningPcs, Over
      <4>5. call[d].id \in Ids(list) BY <4>2, <4>3, <4>4 DEF ButFor
      <4>6. \A p \in Range(list) : p.id = call[d].id => p \in Range(projects)
        BY <4>3, <4>4 DEF ButFor
      <4> QED BY <3>1, <4>1, <4>5, <4>6
    <3> QED BY <1>4, <2>1, <3>1, <3>3, <3>4, <3>5, <3>6 DEF Opening
  <2> QED BY <2>3, <2>5, <2>6
<1>13. Listing(call[c])' /\ Changing(call[c])' /\ Opening(call[c])'
  <2>1. Listing(call[c])' /\ Opening(call[c])' BY <1>3 DEF Listing, Opening, ListingPcs, OpeningPcs
  <2>2. (Ids(projects))' = Ids(list) /\ (ProjectList(call[c].out))' BY <1>3, <1>4 DEF Ids, ProjectList
  <2>3. s.id \in ProjectIds' BY DEF ButFor, ProjectIds
  <2>4. s.req.do = "remove" => s.id \notin Ids(list) BY DEF ButFor
  <2>5. Changing(call[c])' BY <1>2, <1>3, <1>4, <2>2, <2>3, <2>4 DEF Changing, Removes
  <2> QED BY <2>1, <2>5
<1>14. ASSUME NEW id \in DOMAIN connections PROVE ConnectedTrue(id)'
  <2>1. projects # None BY <1>1 DEF NotListed
  <2>2. ~connections[id].late /\ id \notin tangled =>
          /\ id \in Ids(projects) \/ \E d \in Calls : Removes(call[d], id)
          /\ \A p \in Range(projects) : p.id = id => connections[id].cred = p.cred
    BY <1>1, <2>1 DEF ConnectedTrue
  <2> SUFFICES ASSUME ~connections[id].late, id \notin tangled'
               PROVE  /\ id \in Ids(list) \/ \E d \in Calls : Removes(call'[d], id)
                      /\ \A p \in Range(list) : p.id = id => connections[id].cred = p.cred
    BY <1>3, <1>4 DEF ConnectedTrue, Disturbs, Ids
  <2>3. /\ id \in Ids(projects) \/ \E d \in Calls : Removes(call[d], id)
        /\ \A p \in Range(projects) : p.id = id => connections[id].cred = p.cred
    BY <1>5, <2>2
  <2>4. \A p \in Range(list) : p.id = id => id \in Ids(list) BY DEF Ids
  <2>5. CASE ~Calm
    <3>1. id \notin Ids(list) \cup Ids(projects) BY <1>6, <2>5
    <3> QED BY <1>9, <2>3, <2>4, <3>1
  <2>6. CASE Calm
    <3>1. projects = s.list BY <1>7, <2>1, <2>6
    <3>2. CASE id # s.id
      <4>1. id \in Ids(s.list) => id \in Ids(list) BY <3>2 DEF ButFor
      <4>2. \A p \in Range(list) : p.id = id => p \in Range(s.list) BY <3>2 DEF ButFor
      <4> QED BY <1>9, <2>3, <3>1, <4>1, <4>2
    <3>3. CASE id = s.id
      <4>1. ASSUME NEW d \in Calls, Removes(call[d], id) PROVE FALSE BY <1>8, <1>9, <3>3, <4>1
      <4>2. id \in Ids(s.list) BY <2>3, <3>1, <4>1
      <4>3. CASE s.req.do = "remove"
        <5>1. id \notin Ids(list) BY <3>3, <4>3 DEF ButFor
        <5> QED BY <1>10, <2>4, <3>3, <4>3, <5>1
      <4>4. CASE s.req.do = "update"
        <5>1. /\ id \in Ids(list)
              /\ \A p \in Range(list), q \in Range(s.list) : p.id = id /\ q.id = id => p.cred = q.cred
          BY <3>3, <4>4 DEF ButFor
        <5>2. PICK q \in Range(s.list) : q.id = id BY <4>2 DEF Ids
        <5> QED BY <2>3, <3>1, <5>1, <5>2
      <4>5. s.req.do # "add" BY <3>3, <4>2 DEF ButFor
      <4> QED BY <1>2, <4>3, <4>4, <4>5
    <3> QED BY <3>2, <3>3
  <2> QED BY <2>5, <2>6
<1>15. ProjectsTyped' BY <1>1, <1>4 DEF ProjectsTyped, ProjectList, ProjectIds
<1>16. NotListed' BY <1>4 DEF NotListed
<1>17. ProjectsInv' BY <1>3, <1>11, <1>12, <1>13, <1>14, <1>15, <1>16 DEF ProjectsInv, Disturbs
<1> QED BY <1>3, <1>17 DEF ProjectsKept

----------------
(* What a handler does with the list *)

\* The list with a project's host changed.
Hosted(list, id, host) ==
  [i \in DOMAIN list |-> IF list[i].id # id THEN list[i] ELSE [list[i] EXCEPT !.host = host]]

LEMMA Updated ==
  ASSUME NEW list, ProjectList(list), NEW id, NEW host \in STRING
  PROVE  /\ ProjectList(Hosted(list, id, host)) /\ Ids(Hosted(list, id, host)) = Ids(list)
         /\ \A p \in Range(Hosted(list, id, host)) : \E q \in Range(list) :
              /\ q.id = p.id /\ q.credential = p.credential /\ q.cred = p.cred
              /\ p.id # id => p = q
<1> DEFINE n == Len(list)
           new == Hosted(list, id, host)
<1>1. /\ list \in Seq(ProjectType) /\ n \in Nat /\ DOMAIN list = 1..n
      /\ \A i \in 1..n : list[i] \in ProjectType
      /\ \A i, j \in 1..n : list[i].id = list[j].id => i = j
      /\ \A i \in 1..n : list[i].credential <=> list[i].cred # None
  BY DEF ProjectList
<1>2. \A i \in 1..n : new[i] = IF list[i].id # id THEN list[i] ELSE [list[i] EXCEPT !.host = host]
  BY <1>1 DEF Hosted
<1>3. ASSUME NEW i \in 1..n
      PROVE  /\ new[i] \in ProjectType /\ new[i].id = list[i].id
             /\ new[i].credential = list[i].credential /\ new[i].cred = list[i].cred
             /\ new[i].id # id => new[i] = list[i]
  <2>1. CASE list[i].id # id BY <1>1, <1>2, <2>1
  <2>2. CASE list[i].id = id
    <3>1. new[i] = [list[i] EXCEPT !.host = host] /\ list[i] \in ProjectType BY <1>1, <1>2, <2>2
    <3> QED BY <2>2, <3>1 DEF ProjectType
  <2> QED BY <2>1, <2>2
<1>4. DOMAIN new = 1..n BY <1>1 DEF Hosted
<1>5. new \in Seq(ProjectType)
  <2>1. new \in [1..n -> ProjectType] BY <1>1, <1>3 DEF Hosted
  <2> QED BY <1>1, <2>1
<1> HIDE DEF new
<1>6. ProjectList(new) BY <1>1, <1>3, <1>4, <1>5 DEF ProjectList
<1>7. ASSUME NEW p \in Range(new)
      PROVE  \E q \in Range(list) : /\ q.id = p.id /\ q.credential = p.credential /\ q.cred = p.cred
                                    /\ p.id # id => p = q
  <2>1. PICK i \in 1..n : new[i] = p BY <1>4 DEF Range
  <2>2. list[i] \in Range(list) BY <1>1 DEF Range
  <2> QED BY <1>3, <2>1, <2>2
<1>8. Ids(new) = Ids(list)
  <2>1. \A x \in Ids(new) : x \in Ids(list) BY <1>7 DEF Ids
  <2>2. ASSUME NEW x \in Ids(list) PROVE x \in Ids(new)
    <3>1. PICK i \in 1..n : list[i].id = x BY <1>1 DEF Ids, Range
    <3>2. new[i] \in Range(new) /\ new[i].id = x BY <1>3, <1>4, <3>1 DEF Range
    <3> QED BY <3>2 DEF Ids
  <2> QED BY <2>1, <2>2
<1> QED BY <1>6, <1>7, <1>8 DEF new

\* A list saved has the credentials its projects had.
LEMMA CredentialsSaved ==
  ASSUME ProjectsInv, UNCHANGED <<projectsFile, credentials>>, tangled \subseteq tangled',
         NEW list \in {projectsFile} \cup ({projects} \ {None}),
         \A p \in Range(projects') : p.credential =>
           \E q \in Range(list) : q.id = p.id /\ q.credential /\ q.cred = p.cred
  PROVE  CredentialHeld'
<1>1. CredentialHeld BY DEF ProjectsInv
<1> SUFFICES ASSUME NEW l \in {projectsFile} \cup ({projects'} \ {None}), NEW p \in Range(l),
                    p.credential, p.id \notin tangled'
             PROVE  p.id \in DOMAIN credentials /\ credentials[p.id] = p.cred
  BY DEF CredentialHeld
<1>2. CASE l = projectsFile BY <1>1, <1>2 DEF CredentialHeld
<1>3. CASE l = projects'
  <2>1. PICK q \in Range(list) : q.id = p.id /\ q.credential /\ q.cred = p.cred BY <1>3
  <2>2. q.id \in DOMAIN credentials /\ credentials[q.id] = q.cred BY <1>1, <2>1 DEF CredentialHeld
  <2> QED BY <2>1, <2>2
<1> QED BY <1>2, <1>3

LEMMA ListedKeeps ==
  ASSUME CallsTyped, ProjectsInv, NEW c \in Calls, call[c].pc \in {"new", "listed"},
         NEW list, list = (IF projects # None THEN projects ELSE projectsFile),
         Listed(c, call[c], list), UNCHANGED <<projectsFile, credentials>>
  PROVE  ProjectsKept /\ AllCurrent
<1> DEFINE s == call[c]
           t == [s EXCEPT !.list = list]
           r == [t EXCEPT !.id = s.req.id]
<1>1. /\ Shaped(s) /\ s.served = None /\ Requested(s.req)
      /\ Listing(s) /\ ProjectsTyped
  BY DEF CallsTyped, Over, ProjectsInv
<1>2. s.cred = None BY <1>1 DEF Listing, ListingPcs
<1>3. ProjectList(list) /\ list # None BY <1>1, StoresAssumption DEF ProjectsTyped, ProjectList
<1>4. list \in {projectsFile} \cup ({projects} \ {None}) /\ (projects = None => list = projectsFile)
  OBVIOUS
<1>5. ASSUME NEW id, NEW a, a = [t EXCEPT !.id = id]
      PROVE  /\ Shaped(a) /\ a.id = id /\ a.list = list /\ a.req = s.req /\ a.served = None
             /\ a.cred = None /\ a.disturbed = s.disturbed
  BY <1>1, <1>2, <1>5 DEF Shaped, CallFields
<1>6. s.pc \in {"new"} \cup ProjectPcs /\ s.pc \notin {"savingProjects", "removing"}
  BY DEF ProjectPcs, ListingPcs
<1>7. DOMAIN connections \subseteq ProjectIds /\ DOMAIN credentials \subseteq ProjectIds
  BY <1>1 DEF ProjectsTyped
<1> HIDE DEF t
\* A project is added, with its credential, or without.
<1>8. ASSUME s.req.do = "add", NEW a, a = [t EXCEPT !.id = UniqueId(s.req.name, list)],
             UNCHANGED connections,
             \/ To(c, a, "clearing") /\ projects' = list /\ tangled' = tangled \cup Crossing(c, a.id)
             \/ Saves(c, a, Append(list, Project(c, a)))
      PROVE  ProjectsKept /\ AllCurrent
  <2>1. /\ Shaped(a) /\ a.id = UniqueId(s.req.name, list) /\ a.list = list /\ a.req = s.req
        /\ a.served = None /\ a.cred = None
    BY <1>1, <1>2, <1>8 DEF Shaped, CallFields, t
  <2>2. s.req.name \in STRING /\ s.req.host \in STRING BY <1>1, <1>8 DEF Requested
  <2>3. a.id \in ProjectIds \ Ids(list) BY <1>3, <2>1, <2>2, UniqueIdIsFree
  <2>4. CASE To(c, a, "clearing") /\ projects' = list /\ tangled' = tangled \cup Crossing(c, a.id)
    <3>1. "clearing" \in ProjectPcs BY DEF ProjectPcs, ChangingPcs
    <3>2. /\ OnlyCall(c) /\ call'[c].pc = "clearing" /\ call'[c].req = s.req
          /\ call'[c].list = list /\ call'[c].id = a.id
          /\ CallsTyped' /\ SettingsCallsStay /\ LogCallsStay /\ NoneServed
      BY <1>6, <2>1, <2>4, <3>1, ProjectGoes
    <3>3. /\ projects' = projects \/ (projects = None /\ projects' = projectsFile)
          /\ tangled \subseteq tangled'
      BY <1>4, <2>4
    <3>4. FileTrue' BY <1>6, <3>2, <3>3, ListStands
    <3>5. a.id \notin tangled' => a.id \notin Ids(projectsFile)
      <4> SUFFICES ASSUME a.id \notin tangled', a.id \in Ids(projectsFile) PROVE FALSE OBVIOUS
      <4>1. a.id \in Ids(projects') \/ \E d \in Calls : Removes(call'[d], a.id)
        BY <1>3, <2>4, <3>2, <3>4 DEF FileTrue, OnlyCall, Ids
      <4>2. PICK d \in Calls : Removes(call'[d], a.id) BY <2>3, <2>4, <4>1
      <4>3. d # c BY <3>2, <4>2 DEF Removes
      <4>4. Removes(call[d], a.id) BY <3>2, <4>2, <4>3 DEF OnlyCall
      <4>5. UnderWay(d) /\ Does(d, {"add", "remove"}) /\ call[d].id = a.id
        BY <4>4 DEF Removes, UnderWay, Over, Does
      <4>6. a.id \in Crossing(c, a.id) BY <4>3, <4>5 DEF Crossing
      <4> QED BY <2>4, <4>6
    <3>6. Listing(call[c])' /\ Opening(call[c])'
      BY <3>2 DEF Listing, Opening, ListingPcs, OpeningPcs
    <3>7. Changing(call[c])'
      <4>1. /\ (Ids(projects))' = Ids(list) /\ (Ids(projectsFile))' = Ids(projectsFile)
            /\ (Ids(call[c].list))' = Ids(list)
        BY <2>4, <3>2 DEF Ids
      <4>2. (ProjectList(call[c].list))' BY <1>3, <3>2 DEF ProjectList
      <4>3. a.id \in ProjectIds' BY <2>3 DEF ProjectIds
      <4> QED BY <1>8, <2>3, <3>2, <3>5, <4>1, <4>2, <4>3 DEF Changing, Removes
    <3>8. projects' # None /\ DOMAIN connections' \subseteq ProjectIds BY <1>3, <1>7, <1>8, <2>4
    <3>9. ProjectsInv' BY <1>6, <1>8, <3>2, <3>3, <3>6, <3>7, <3>8, CallStands
    <3> QED BY <3>2, <3>9, NoneIsCurrent DEF ProjectsKept
  <2>5. CASE Saves(c, a, Append(list, Project(c, a)))
    <3> DEFINE p == Project(c, a)
    <3>1. /\ p \in ProjectType /\ p.id = a.id /\ (p.credential <=> p.cred # None) /\ ~p.credential
      BY <2>1, <2>2, <2>3 DEF Project, ProjectType
    <3> HIDE DEF p
    <3> DEFINE new == Append(list, p)
    <3>2. /\ ProjectList(new) /\ Range(new) = Range(list) \cup {p}
          /\ Ids(new) = Ids(list) \cup {p.id}
      BY <1>3, <2>3, <3>1, Appended
    <3>3. Saves(c, a, new) BY <2>5 DEF p
    <3> HIDE DEF new
    <3>4. ButFor(new, a) BY <1>3, <1>8, <2>1, <2>3, <3>1, <3>2 DEF ButFor
    <3>5. projects' = new /\ tangled \subseteq tangled' BY <3>3 DEF Saves
    <3>6. \A q \in Range(projects') : q.credential => q \in Range(list) BY <3>1, <3>2, <3>5
    <3>7. CredentialHeld' BY <1>4, <3>5, <3>6, CredentialsSaved
    <3>8. ProjectsKept /\ NoneServed BY <1>4, <1>7, <1>8, <2>1, <3>3, <3>4, <3>7, SavesKeeps
    <3> QED BY <3>8, NoneIsCurrent
  <2> QED BY <1>8, <2>4, <2>5
\* A project is updated.
<1>9. ASSUME s.req.do = "update", s.req.id \in Ids(list), UNCHANGED connections,
             Saves(c, r, Hosted(list, s.req.id, s.req.host))
      PROVE  ProjectsKept /\ AllCurrent
  <2> DEFINE new == Hosted(list, s.req.id, s.req.host)
  <2>a. Saves(c, r, new) BY <1>9
  <2>1. Shaped(r) /\ r.id = s.req.id /\ r.list = list /\ r.req = s.req /\ r.served = None BY <1>5
  <2>2. s.req.id \in ProjectIds /\ s.req.host \in STRING BY <1>1, <1>9 DEF Requested
  <2>3. /\ ProjectList(new) /\ Ids(new) = Ids(list)
        /\ \A p \in Range(new) : \E q \in Range(list) :
             /\ q.id = p.id /\ q.credential = p.credential /\ q.cred = p.cred
             /\ p.id # s.req.id => p = q
    <3> DEFINE id == s.req.id
               host == s.req.host
    <3>1. host \in STRING /\ new = Hosted(list, id, host) BY <2>2
    <3> HIDE DEF id, host, new
    <3>2. /\ ProjectList(Hosted(list, id, host)) /\ Ids(Hosted(list, id, host)) = Ids(list)
          /\ \A p \in Range(Hosted(list, id, host)) : \E q \in Range(list) :
               /\ q.id = p.id /\ q.credential = p.credential /\ q.cred = p.cred
               /\ p.id # id => p = q
      BY <1>3, <3>1, Updated
    <3> QED BY <3>1, <3>2 DEF id
  <2> HIDE DEF r, new
  <2>4. \A p \in Range(new), q \in Range(list) : p.id = r.id /\ q.id = r.id => p.cred = q.cred
    <3> SUFFICES ASSUME NEW p \in Range(new), NEW q \in Range(list), p.id = q.id PROVE p.cred = q.cred
      OBVIOUS
    <3>1. PICK o \in Range(list) : o.id = p.id /\ o.cred = p.cred BY <2>3
    <3>2. o = q BY <1>3, <3>1, Listable
    <3> QED BY <3>1, <3>2
  <2>5. ButFor(new, r)
    <3>1. \A p \in Range(new) : p.id # r.id => p \in Range(list) BY <2>1, <2>3
    <3> QED BY <1>3, <1>9, <2>1, <2>2, <2>3, <2>4, <3>1 DEF ButFor
  <2>6. projects' = new /\ tangled \subseteq tangled' BY <2>a DEF Saves
  <2>7. \A p \in Range(projects') : p.credential =>
          \E q \in Range(list) : q.id = p.id /\ q.credential /\ q.cred = p.cred
    BY <2>3, <2>6
  <2>8. CredentialHeld' BY <1>4, <2>6, <2>7, CredentialsSaved
  <2>9. ProjectsKept /\ NoneServed BY <1>4, <1>7, <1>9, <2>1, <2>5, <2>8, <2>a, SavesKeeps
  <2> QED BY <2>9, NoneIsCurrent
\* A project is removed.
<1>10. ASSUME s.req.do = "remove", UNCHANGED connections,
              Saves(c, r, WithoutProject(list, s.req.id))
       PROVE  ProjectsKept /\ AllCurrent
  <2> DEFINE new == WithoutProject(list, s.req.id)
  <2>1. Shaped(r) /\ r.id = s.req.id /\ r.list = list /\ r.req = s.req /\ r.served = None BY <1>5
  <2>2. s.req.id \in ProjectIds BY <1>1, <1>10 DEF Requested
  <2>3. /\ ProjectList(new) /\ Range(new) = {p \in Range(list) : p.id # s.req.id}
        /\ Ids(new) = Ids(list) \ {s.req.id}
    BY <1>3, Withdrawn
  <2>4. Saves(c, r, new) BY <1>10
  <2> HIDE DEF r, new
  <2>5. ButFor(new, r) BY <1>3, <1>10, <2>1, <2>2, <2>3 DEF ButFor
  <2>6. projects' = new /\ tangled \subseteq tangled' BY <2>4 DEF Saves
  <2>7. \A p \in Range(projects') : p \in Range(list) BY <2>3, <2>6
  <2>8. CredentialHeld' BY <1>4, <2>6, <2>7, CredentialsSaved
  <2>9. ProjectsKept /\ NoneServed BY <1>4, <1>7, <1>10, <2>1, <2>4, <2>5, <2>8, SavesKeeps
  <2> QED BY <2>9, NoneIsCurrent
\* Nothing comes of the request.
<1>11. ASSUME Fails(c), projects' = list, UNCHANGED <<connections, tangled>>
       PROVE  ProjectsKept /\ AllCurrent
  <2>1. projects' = projects \/ (projects = None /\ projects' = projectsFile) BY <1>4, <1>11
  <2> QED BY <1>6, <1>11, <2>1, FailsKeeps, NoneIsCurrent
\* A connection is asked for.
<1>12. ASSUME s.req.do = "connect", s.req.id \in Ids(list), projects' = list, UNCHANGED tangled,
              \/ Find(list, s.req.id).credential /\ To(c, r, "unlocking") /\ UNCHANGED connections
              \/ ~Find(list, s.req.id).credential /\ GetFirestore(c, r)
       PROVE  ProjectsKept /\ AllCurrent
  <2> DEFINE project == Find(list, s.req.id)
  <2>1. /\ Shaped(r) /\ r.id = s.req.id /\ r.list = list /\ r.req = s.req /\ r.served = None
        /\ r.cred = None
    BY <1>5
  <2>2. projects' = projects \/ (projects = None /\ projects' = projectsFile) BY <1>4, <1>12
  <2>3. \A p \in Range(list) : p.id = s.req.id => p = project BY <1>3, Listable
  <2>4. project \in Range(list) /\ (project.credential <=> project.cred # None)
    BY <1>3, <1>12, Listable
  <2> HIDE DEF r
  <2>5. CASE project.credential /\ To(c, r, "unlocking") /\ UNCHANGED connections
    <3>1. "unlocking" \in ProjectPcs BY DEF ProjectPcs, OpeningPcs
    <3>2. /\ OnlyCall(c) /\ call'[c].pc = "unlocking" /\ call'[c].req = s.req
          /\ call'[c].list = list /\ call'[c].id = s.req.id
          /\ CallsTyped' /\ SettingsCallsStay /\ LogCallsStay /\ NoneServed
      BY <1>6, <2>1, <2>5, <3>1, ProjectGoes
    <3>3. Listing(call[c])' /\ Changing(call[c])'
      BY <3>2 DEF Listing, Changing, Removes, ListingPcs, ChangingPcs
    <3>4. Opening(call[c])'
      <4>1. (Find(call[c].list, call[c].id))' = project BY <3>2 DEF Find, Place
      <4>2. (ProjectList(call[c].list))' BY <1>3, <3>2 DEF ProjectList
      <4>3. (Ids(call[c].list))' = Ids(list) /\ (Ids(projects))' = Ids(list) BY <1>12, <3>2 DEF Ids
      <4> HIDE DEF project
      <4> QED BY <1>12, <2>3, <2>5, <3>2, <4>1, <4>2, <4>3 DEF Opening
    <3>5. projects' # None /\ DOMAIN connections' \subseteq ProjectIds BY <1>3, <1>7, <1>12, <2>5
    <3>6. tangled \subseteq tangled' BY <1>12
    <3>7. ProjectsInv' BY <1>6, <2>2, <2>5, <3>2, <3>3, <3>4, <3>5, <3>6, CallStands
    <3> QED BY <3>2, <3>7, NoneIsCurrent DEF ProjectsKept
  <2>6. CASE ~project.credential /\ GetFirestore(c, r)
    <3>1. Known(r) BY <1>3, <1>12, <2>1, <2>3, <2>4, <2>6 DEF Known
    <3>2. s.pc \in {"new", "listed", "unlocked"} OBVIOUS
    <3> QED BY <1>3, <1>12, <2>1, <2>2, <2>6, <3>1, <3>2, GetFirestoreKeeps
  <2> QED BY <1>12, <2>5, <2>6
<1>13. CASE s.req.do = "add" BY <1>8, <1>13 DEF Listed, t
<1>14. CASE s.req.do = "update" BY <1>9, <1>11, <1>14 DEF Listed, Hosted, t
<1>15. CASE s.req.do = "remove" BY <1>10, <1>15 DEF Listed, t
<1>16. CASE s.req.do = "connect" BY <1>11, <1>12, <1>16 DEF Listed, t
<1> QED BY <1>13, <1>14, <1>15, <1>16 DEF Listed

LEMMA ListKeeps ==
  ASSUME CallsTyped, ProjectsInv, NEW c \in Calls, List(c)
  PROVE  ProjectsKept /\ AllCurrent
<1>1. /\ call[c].pc = "new" /\ call[c].req.do \in ProjectRequests
      /\ Shaped(call[c]) /\ call[c].served = None
      /\ UNCHANGED <<projectsFile, credentials>>
  BY DEF List, Arrives, Now, Does, CallsTyped, Over
<1>2. CASE projects # None /\ Listed(c, call[c], projects)
  <2>1. projects = (IF projects # None THEN projects ELSE projectsFile) BY <1>2
  <2> QED BY <1>1, <1>2, <2>1, ListedKeeps
<1>3. CASE /\ projects = None /\ To(c, call[c], "listingProjects")
           /\ UNCHANGED <<projects, connections, apps, tangled>>
  <2>1. "listingProjects" \in ProjectPcs BY DEF ProjectPcs, ListingPcs
  <2>2. /\ OnlyCall(c) /\ call'[c].pc = "listingProjects" /\ call'[c].req = call[c].req
        /\ call'[c].cred = call[c].cred
        /\ CallsTyped' /\ SettingsCallsStay /\ LogCallsStay /\ NoneServed
    BY <1>1, <1>3, <2>1, ProjectGoes
  <2>3. Listing(call[c]) BY DEF ProjectsInv
  <2>4. Listing(call[c])' BY <1>1, <2>2, <2>3 DEF Listing, ListingPcs, ProjectRequests
  <2>5. Changing(call[c])' /\ Opening(call[c])'
    BY <2>2 DEF Changing, Removes, Opening, ChangingPcs, OpeningPcs
  <2>6. DOMAIN connections' \subseteq ProjectIds BY <1>3 DEF ProjectsInv, ProjectsTyped
  <2>7. call'[c].pc \notin ChangingPcs \cup OpeningPcs BY <2>2 DEF ChangingPcs, OpeningPcs
  <2>8. ProjectsInv' BY <1>1, <1>3, <2>2, <2>4, <2>5, <2>6, <2>7, CallStands
  <2> QED BY <2>2, <2>8, NoneIsCurrent DEF ProjectsKept
<1> QED BY <1>2, <1>3 DEF List

LEMMA ProjectsReadKeeps ==
  ASSUME CallsTyped, ProjectsInv, NEW c \in Calls, ProjectsRead(c)
  PROVE  ProjectsKept /\ AllCurrent
<1> DEFINE list == IF projects # None THEN projects ELSE call[c].list
<1>1. /\ call[c].pc = "listed" /\ Listed(c, call[c], list)
      /\ UNCHANGED <<projectsFile, credentials>>
  BY DEF ProjectsRead, Now
<1>2. projects = None => call[c].list = projectsFile BY <1>1 DEF ProjectsInv, Listing
<1>3. list = IF projects # None THEN projects ELSE projectsFile BY <1>2
<1> HIDE DEF list
<1> QED BY <1>1, <1>3, ListedKeeps

----------------
(* Credentials, and the ends of the changes *)

LEMMA ClearCredentialKeeps ==
  ASSUME CallsTyped, ProjectsInv, NEW c \in Calls, ClearCredential(c)
  PROVE  ProjectsKept /\ AllCurrent
<1> DEFINE s == call[c]
<1>1. /\ s.pc = "clearing" /\ Shaped(s) /\ s.served = None /\ To(c, s, "storing")
      /\ credentials' = Without(credentials, s.id)
      /\ UNCHANGED <<projectsFile, projects, connections, tangled>>
  BY DEF ClearCredential, Now, CallsTyped, Over
<1>2. s.pc \in ProjectPcs /\ "storing" \in ProjectPcs BY <1>1 DEF ProjectPcs, ChangingPcs
<1>3. /\ OnlyCall(c) /\ call'[c].pc = "storing" /\ call'[c].req = s.req
      /\ call'[c].list = s.list /\ call'[c].id = s.id /\ call'[c].out = s.out
      /\ CallsTyped' /\ SettingsCallsStay /\ LogCallsStay /\ NoneServed
  BY <1>1, <1>2, ProjectGoes
<1>4. Changing(s) /\ CredentialHeld /\ NotListed /\ ProjectsTyped BY DEF ProjectsInv
<1>5. /\ s.req.do = "add" /\ ProjectList(s.list) /\ s.id \notin Ids(s.list) /\ s.id \in ProjectIds
      /\ s.id \notin tangled => s.id \notin Ids(projects) \cup Ids(projectsFile)
  BY <1>1, <1>4 DEF Changing, ChangingPcs
<1>6. projects # None BY <1>1, <1>4 DEF NotListed, ChangingPcs
<1>7. Listing(call[c])' /\ Opening(call[c])' BY <1>3 DEF Listing, Opening, ListingPcs, OpeningPcs
<1>8. Changing(call[c])'
  <2>1. /\ (Ids(projects))' = Ids(projects) /\ (Ids(projectsFile))' = Ids(projectsFile)
        /\ (Ids(call[c].list))' = Ids(s.list)
    BY <1>1, <1>3 DEF Ids
  <2>2. (ProjectList(call[c].list))' BY <1>3, <1>5 DEF ProjectList
  <2>3. s.id \in ProjectIds' BY <1>5 DEF ProjectIds
  <2> QED BY <1>1, <1>3, <1>5, <2>1, <2>2, <2>3 DEF Changing, Removes
<1>9. /\ DOMAIN credentials' \subseteq DOMAIN credentials
      /\ \A id \in DOMAIN credentials : id # s.id =>
           id \in DOMAIN credentials' /\ credentials'[id] = credentials[id]
  BY <1>1 DEF Without, Restrict
<1>10. CredentialHeld'
  <2> SUFFICES ASSUME NEW list \in {projectsFile} \cup ({projects} \ {None}), NEW p \in Range(list),
                      p.credential, p.id \notin tangled
               PROVE  p.id \in DOMAIN credentials' /\ credentials'[p.id] = p.cred
    BY <1>1 DEF CredentialHeld
  <2>1. p.id \in DOMAIN credentials /\ credentials[p.id] = p.cred BY <1>4 DEF CredentialHeld
  <2>2. p.id # s.id BY <1>5 DEF Ids
  <2> QED BY <1>9, <2>1, <2>2
<1>11. DOMAIN credentials' \subseteq ProjectIds /\ DOMAIN connections' \subseteq ProjectIds
  BY <1>1, <1>4, <1>9 DEF ProjectsTyped
<1>12. ProjectsInv' BY <1>1, <1>3, <1>6, <1>7, <1>8, <1>10, <1>11, CallStays
<1> QED BY <1>3, <1>12, NoneIsCurrent DEF ProjectsKept

LEMMA StoreCredentialKeeps ==
  ASSUME CallsTyped, ProjectsInv, NEW c \in Calls, StoreCredential(c)
  PROVE  ProjectsKept /\ AllCurrent
<1> DEFINE s == [call[c] EXCEPT !.cred = c]
           p == Project(c, s)
           new == Append(s.list, p)
<1>1. /\ call[c].pc = "storing" /\ Shaped(call[c]) /\ call[c].served = None /\ c \in Nat
      /\ Requested(call[c].req)
      /\ credentials' = With(credentials, s.id, c) /\ Saves(c, s, new)
      /\ UNCHANGED <<projectsFile, connections>>
  BY DEF StoreCredential, Now, CallsTyped, Over
<1>2. /\ Shaped(s) /\ s.cred = c /\ s.req = call[c].req /\ s.served = None
      /\ s.list = call[c].list /\ s.id = call[c].id
  BY <1>1 DEF Shaped, CallFields
<1> HIDE DEF s
<1>3. Changing(call[c]) /\ CredentialHeld /\ NotListed /\ ProjectsTyped BY DEF ProjectsInv
<1>4. /\ s.req.do = "add" /\ ProjectList(s.list) /\ s.id \notin Ids(s.list) /\ s.id \in ProjectIds
      /\ s.id \notin tangled => s.id \notin Ids(projects) \cup Ids(projectsFile)
  BY <1>1, <1>2, <1>3 DEF Changing, ChangingPcs
<1>5. projects # None BY <1>1, <1>3 DEF NotListed, ChangingPcs
<1>6. c # None BY <1>1, StoresAssumption
<1>7. /\ p \in ProjectType /\ p.id = s.id /\ p.cred = c /\ (p.credential <=> p.cred # None)
  BY <1>1, <1>2, <1>4, <1>6 DEF Project, ProjectType, Requested
<1> HIDE DEF p
<1>8. /\ ProjectList(new) /\ Range(new) = Range(s.list) \cup {p}
      /\ Ids(new) = Ids(s.list) \cup {p.id}
  BY <1>4, <1>7, Appended
<1>9. ButFor(new, s) BY <1>4, <1>7, <1>8 DEF ButFor
<1> HIDE DEF new
<1>10. projects' = new /\ tangled \subseteq tangled' BY <1>1 DEF Saves
<1>11. /\ DOMAIN credentials' = DOMAIN credentials \cup {s.id} /\ credentials'[s.id] = c
       /\ \A id \in DOMAIN credentials : id # s.id => credentials'[id] = credentials[id]
  BY <1>1 DEF With
\* The credential is stored before its project is: the projects there were keep theirs.
<1>12. CredentialHeld'
  <2> SUFFICES ASSUME NEW list \in {projectsFile, new}, NEW q \in Range(list),
                      q.credential, q.id \notin tangled'
               PROVE  q.id \in DOMAIN credentials' /\ credentials'[q.id] = q.cred
    BY <1>1, <1>10 DEF CredentialHeld
  <2>1. q.id \notin tangled BY <1>10
  <2>2. CASE q = p BY <1>7, <1>11, <2>2
  <2>3. CASE q \in Range(projectsFile)
    <3>1. q.id \in DOMAIN credentials /\ credentials[q.id] = q.cred
      BY <1>3, <2>1, <2>3 DEF CredentialHeld
    <3>2. q.id # s.id BY <1>4, <2>1, <2>3 DEF Ids
    <3> QED BY <1>11, <3>1, <3>2
  <2>4. CASE q \in Range(s.list)
    <3>1. q.id \in Ids(new) /\ q.id \in Ids(s.list) BY <1>8, <2>4 DEF Ids
    <3>2. projects = s.list
      <4> SUFFICES ASSUME projects # s.list PROVE q.id \in tangled' OBVIOUS
      <4> QED BY <1>1, <1>5, <3>1 DEF Saves
    <3>3. q.id \in DOMAIN credentials /\ credentials[q.id] = q.cred
      BY <1>3, <1>5, <2>1, <2>4, <3>2 DEF CredentialHeld
    <3>4. q.id # s.id BY <1>4, <3>1
    <3> QED BY <1>11, <3>3, <3>4
  <2> QED BY <1>8, <2>2, <2>3, <2>4
<1>13. DOMAIN credentials' \subseteq ProjectIds BY <1>3, <1>4, <1>11 DEF ProjectsTyped
<1>14. ProjectsKept /\ NoneServed BY <1>1, <1>2, <1>5, <1>9, <1>12, <1>13, SavesKeeps
<1> QED BY <1>14, NoneIsCurrent

\* A change is written, has removed its credential, or fails.
LEMMA ChangeStands ==
  ASSUME CallsTyped, ProjectsInv, NEW c \in Calls, OnlyCall(c),
         call[c].pc \in {"savingProjects", "removing"},
         UNCHANGED projects, tangled \subseteq tangled',
         \/ projectsFile' = projectsFile
         \/ call[c].pc = "savingProjects" /\ projectsFile' = call[c].out,
         Removes(call[c], call[c].id) =>
           \/ Removes(call'[c], call[c].id)
           \/ call[c].id \in tangled'
           \/ call[c].id \notin Ids(projectsFile') /\ call[c].id \notin DOMAIN connections',
         call'[c].pc \in {"removing", "dropping", "done", "failed"}, Changing(call[c])',
         CredentialHeld', DOMAIN credentials' \subseteq ProjectIds,
         DOMAIN connections' \subseteq DOMAIN connections,
         \A id \in DOMAIN connections' : connections'[id] = connections[id]
  PROVE  ProjectsInv'
<1>1. /\ ProjectsTyped /\ NotListed /\ FileTrue
      /\ \A d \in Calls : Listing(call[d]) /\ Changing(call[d]) /\ Opening(call[d])
      /\ projects # None => \A id \in DOMAIN connections : ConnectedTrue(id)
  BY DEF ProjectsInv
<1>2. projects # None BY <1>1 DEF NotListed, ChangingPcs
<1>3. call[c].pc = "savingProjects" =>
        /\ ProjectList(call[c].out)
        /\ call[c].out = projects \/ Ids(call[c].out) \subseteq tangled
  BY <1>1 DEF Changing
<1>4. \A id \in Ids(projectsFile') \ tangled : id \in Ids(projectsFile) \cup Ids(projects) BY <1>3
<1>5. \A d \in Calls \ {c} : call'[d] = call[d] BY DEF OnlyCall
<1>6. ASSUME NEW id, NEW d \in Calls, Removes(call[d], id)
      PROVE  \/ \E e \in Calls : Removes(call'[e], id)
             \/ id \in tangled'
             \/ id \notin Ids(projectsFile') /\ id \notin DOMAIN connections'
  <2>1. CASE d = c BY <1>6, <2>1 DEF Removes
  <2>2. CASE d # c BY <1>5, <1>6, <2>2
  <2> QED BY <2>1, <2>2
<1>7. FileTrue'
  <2> SUFFICES ASSUME NEW id \in Ids(projectsFile') \ tangled'
               PROVE  id \in Ids(projects) \/ \E d \in Calls : Removes(call'[d], id)
    BY DEF FileTrue, OnlyCall, Ids
  <2>1. CASE id \in Ids(projects) BY <2>1
  <2>2. CASE id \in Ids(projectsFile)
    <3>1. id \in Ids(projects) \/ \E d \in Calls : Removes(call[d], id)
      BY <1>1, <1>2, <2>2 DEF FileTrue
    <3> QED BY <1>6, <3>1
  <2> QED BY <1>4, <2>1, <2>2
<1>8. ASSUME NEW d \in Calls \ {c} PROVE Listing(call[d])' /\ Changing(call[d])' /\ Opening(call[d])'
  <2>1. Listing(call[d]) /\ Changing(call[d]) /\ Opening(call[d]) /\ call'[d] = call[d]
    BY <1>1, <1>5
  <2>2. Listing(call[d])' BY <1>2, <2>1 DEF Listing, ListingPcs, ProjectRequests
  <2>3. Changing(call[d])'
    <3>1. /\ (Ids(projects))' = Ids(projects) /\ (Ids(projectsFile))' = Ids(projectsFile')
          /\ (Ids(call[d].list))' = Ids(call[d].list) /\ (Ids(call[d].out))' = Ids(call[d].out)
      BY <2>1 DEF Ids
    <3>2. /\ (ProjectList(call[d].list))' <=> ProjectList(call[d].list)
          /\ (ProjectList(call[d].out))' <=> ProjectList(call[d].out)
      BY <2>1 DEF ProjectList
    <3>3. (Removes(call[d], call[d].id))' <=> Removes(call[d], call[d].id) BY <2>1 DEF Removes
    <3>4. ProjectIds' = ProjectIds BY DEF ProjectIds
    <3>5. call[d].pc \in {"clearing", "storing"} =>
            /\ call[d].req.do = "add" /\ ProjectList(call[d].list)
            /\ call[d].id \notin Ids(call[d].list)
            /\ call[d].id \notin tangled' => call[d].id \notin Ids(projects) \cup Ids(projectsFile')
      BY <1>4, <2>1 DEF Changing
    <3>6. call[d].pc = "savingProjects" =>
            /\ call[d].req.do \in {"add", "update", "remove"} /\ ProjectList(call[d].out)
            /\ call[d].out = projects \/ Ids(call[d].out) \subseteq tangled'
      BY <2>1 DEF Changing
    <3>7. call[d].pc = "removing" =>
            /\ call[d].req.do = "remove"
            /\ call[d].id \notin tangled' => call[d].id \notin Ids(projectsFile')
      BY <1>4, <2>1 DEF Changing, Removes
    <3>8. Removes(call[d], call[d].id) /\ call[d].id \notin tangled' => call[d].id \notin Ids(projects)
      BY <2>1 DEF Changing
    <3>9. call[d].pc \in ChangingPcs => call[d].id \in ProjectIds BY <2>1 DEF Changing
    <3> QED BY <2>1, <3>1, <3>2, <3>3, <3>4, <3>5, <3>6, <3>7, <3>8, <3>9 DEF Changing, ChangingPcs
  <2>4. Opening(call[d])'
    <3>1. (Find(call[d].list, call[d].id))' = Find(call[d].list, call[d].id) BY <2>1 DEF Find, Place
    <3>2. (ProjectList(call[d].list))' <=> ProjectList(call[d].list) BY <2>1 DEF ProjectList
    <3>3. (Ids(projects))' = Ids(projects) /\ (Ids(call[d].list))' = Ids(call[d].list)
      BY <2>1 DEF Ids
    <3> QED BY <2>1, <3>1, <3>2, <3>3 DEF Opening
  <2> QED BY <2>2, <2>3, <2>4
<1>9. Listing(call[c])' /\ Opening(call[c])' BY DEF Listing, Opening, ListingPcs, OpeningPcs
<1>10. ASSUME NEW id \in DOMAIN connections' PROVE ConnectedTrue(id)'
  <2>1. ConnectedTrue(id) /\ connections'[id] = connections[id] BY <1>1, <1>2
  <2> SUFFICES ASSUME ~connections[id].late, id \notin tangled'
               PROVE  /\ id \in Ids(projects) \/ \E d \in Calls : Removes(call'[d], id)
                      /\ \A p \in Range(projects) : p.id = id => connections[id].cred = p.cred
    BY <2>1 DEF ConnectedTrue, OnlyCall, Ids
  <2>2. /\ id \in Ids(projects) \/ \E d \in Calls : Removes(call[d], id)
        /\ \A p \in Range(projects) : p.id = id => connections[id].cred = p.cred
    BY <2>1 DEF ConnectedTrue
  <2> QED BY <1>6, <2>2
<1>11. ProjectsTyped' BY <1>1, <1>3 DEF ProjectsTyped, ProjectList, ProjectIds
<1>12. NotListed' BY <1>2 DEF NotListed
<1> QED BY <1>7, <1>8, <1>9, <1>10, <1>11, <1>12 DEF ProjectsInv, OnlyCall

LEMMA InvalidatesGoes ==
  ASSUME CallsTyped, NEW c \in Calls, call[c].pc \in ProjectPcs, Invalidates(c, call[c])
  PROVE  /\ OnlyCall(c) /\ call'[c].pc \in {"dropping", "done"}
         /\ CallsTyped' /\ SettingsCallsStay /\ LogCallsStay /\ NoneServed
         /\ DOMAIN connections' = DOMAIN connections \ {call[c].id}
         /\ \A id \in DOMAIN connections' : connections'[id] = connections[id]
<1> DEFINE s == call[c]
           t == [s EXCEPT !.out = connections[s.id]]
<1>1. Shaped(s) /\ s.served = None
  BY DEF CallsTyped, Over, ProjectPcs, ListingPcs, ChangingPcs, OpeningPcs
<1>2. CASE /\ s.id \in DOMAIN connections /\ connections' = Without(connections, s.id)
           /\ To(c, t, "dropping")
  <2>1. Shaped(t) /\ \A f \in CallFields \ {"out"} : t[f] = s[f] BY <1>1 DEF Shaped, CallFields
  <2>2. t.req = s.req /\ t.served = s.served BY <2>1 DEF CallFields
  <2>3. "dropping" \in ProjectPcs BY DEF ProjectPcs
  <2> HIDE DEF t
  <2>4. /\ OnlyCall(c) /\ call'[c].pc = "dropping"
        /\ CallsTyped' /\ SettingsCallsStay /\ LogCallsStay /\ NoneServed
    BY <1>1, <1>2, <2>1, <2>2, <2>3, ProjectGoes
  <2> QED BY <1>2, <2>4 DEF Without, Restrict
<1>3. CASE s.id \notin DOMAIN connections /\ Ends(c, s) /\ UNCHANGED <<connections, apps>>
  <2>1. To(c, s, "done") BY <1>3 DEF Ends
  <2>2. /\ OnlyCall(c) /\ call'[c].pc = "done"
        /\ CallsTyped' /\ SettingsCallsStay /\ LogCallsStay /\ NoneServed
    BY <1>1, <2>1, ProjectGoes
  <2> QED BY <1>3, <2>2
<1> QED BY <1>2, <1>3 DEF Invalidates

LEMMA ProjectsSavedKeeps ==
  ASSUME CallsTyped, ProjectsInv, NEW c \in Calls, ProjectsSaved(c)
  PROVE  ProjectsKept /\ AllCurrent
<1> DEFINE s == call[c]
<1>1. /\ s.pc = "savingProjects" /\ Shaped(s) /\ s.served = None
      /\ projectsFile' = s.out /\ UNCHANGED <<projects, credentials, tangled>>
  BY DEF ProjectsSaved, Now, CallsTyped, Over
<1>2. Changing(s) /\ CredentialHeld /\ NotListed /\ ProjectsTyped BY DEF ProjectsInv
<1>3. /\ s.id \in ProjectIds /\ ProjectList(s.out) /\ (s.out = projects \/ Ids(s.out) \subseteq tangled)
      /\ s.req.do = "remove" /\ s.id \notin tangled => s.id \notin Ids(projects)
  BY <1>1, <1>2 DEF Changing, ChangingPcs, Removes
<1>4. projects # None BY <1>1, <1>2 DEF NotListed, ChangingPcs
<1>5. s.pc \in ProjectPcs BY <1>1 DEF ProjectPcs, ChangingPcs
<1>6. CredentialHeld'
  <2> SUFFICES ASSUME NEW list \in {s.out, projects}, NEW p \in Range(list),
                      p.credential, p.id \notin tangled
               PROVE  p.id \in DOMAIN credentials /\ credentials[p.id] = p.cred
    BY <1>1 DEF CredentialHeld
  <2>1. p \in Range(projects) BY <1>3 DEF Ids
  <2> QED BY <1>2, <1>4, <2>1 DEF CredentialHeld
<1>7. DOMAIN credentials' \subseteq ProjectIds BY <1>1, <1>2 DEF ProjectsTyped
<1>8. CASE s.req.do \in {"add", "update"} /\ (Invalidates(c, s) \/ (Ends(c, s) /\ UNCHANGED connections))
  <2>1. /\ OnlyCall(c) /\ call'[c].pc \in {"dropping", "done"}
        /\ CallsTyped' /\ SettingsCallsStay /\ LogCallsStay /\ NoneServed
        /\ DOMAIN connections' \subseteq DOMAIN connections
        /\ \A id \in DOMAIN connections' : connections'[id] = connections[id]
    <3>1. CASE Invalidates(c, s) BY <1>5, <3>1, InvalidatesGoes
    <3>2. CASE Ends(c, s) /\ UNCHANGED connections
      <4>1. To(c, s, "done") BY <3>2 DEF Ends
      <4>2. /\ OnlyCall(c) /\ call'[c].pc = "done"
            /\ CallsTyped' /\ SettingsCallsStay /\ LogCallsStay /\ NoneServed
        BY <1>1, <1>5, <4>1, ProjectGoes
      <4> QED BY <3>2, <4>2
    <3> QED BY <1>8, <3>1, <3>2
  <2>2. ~Removes(s, s.id) BY <1>8 DEF Removes
  <2>3. Changing(call[c])' BY <2>1 DEF Changing, ChangingPcs, Removes
  <2>4. ProjectsInv' BY <1>1, <1>6, <1>7, <2>1, <2>2, <2>3, ChangeStands
  <2> QED BY <2>1, <2>4, NoneIsCurrent DEF ProjectsKept
<1>9. CASE s.req.do = "remove" /\ To(c, s, "removing") /\ UNCHANGED connections
  <2>1. "removing" \in ProjectPcs BY DEF ProjectPcs, ChangingPcs
  <2>2. /\ OnlyCall(c) /\ call'[c].pc = "removing" /\ call'[c].req = s.req /\ call'[c].id = s.id
        /\ CallsTyped' /\ SettingsCallsStay /\ LogCallsStay /\ NoneServed
    BY <1>1, <1>5, <1>9, <2>1, ProjectGoes
  <2>3. Removes(call'[c], s.id) BY <1>9, <2>2 DEF Removes
  <2>4. Changing(call[c])'
    <3>1. (Ids(projects))' = Ids(projects) /\ (Ids(projectsFile))' = Ids(s.out) BY <1>1 DEF Ids
    <3>2. s.id \in ProjectIds' BY <1>3 DEF ProjectIds
    <3>3. s.id \notin tangled => s.id \notin Ids(projects) /\ s.id \notin Ids(s.out) BY <1>3, <1>9
    <3> QED BY <1>1, <1>9, <2>2, <3>1, <3>2, <3>3 DEF Changing, Removes
  <2>5. ProjectsInv' BY <1>1, <1>6, <1>7, <1>9, <2>2, <2>3, <2>4, ChangeStands
  <2> QED BY <2>2, <2>5, NoneIsCurrent DEF ProjectsKept
<1> QED BY <1>8, <1>9 DEF ProjectsSaved, Does

LEMMA RemoveCredentialKeeps ==
  ASSUME CallsTyped, ProjectsInv, NEW c \in Calls, RemoveCredential(c)
  PROVE  ProjectsKept /\ AllCurrent
<1> DEFINE s == call[c]
<1>1. /\ s.pc = "removing" /\ credentials' = Without(credentials, s.id) /\ Invalidates(c, s)
      /\ UNCHANGED <<projectsFile, projects, tangled>>
  BY DEF RemoveCredential, Now
<1>2. Changing(s) /\ CredentialHeld /\ ProjectsTyped BY DEF ProjectsInv
<1>3. s.id \notin tangled => s.id \notin Ids(projectsFile) \cup Ids(projects)
  BY <1>1, <1>2 DEF Changing, Removes
<1>4. s.pc \in ProjectPcs BY <1>1 DEF ProjectPcs, ChangingPcs
<1>5. /\ OnlyCall(c) /\ call'[c].pc \in {"dropping", "done"}
      /\ CallsTyped' /\ SettingsCallsStay /\ LogCallsStay /\ NoneServed
      /\ DOMAIN connections' = DOMAIN connections \ {s.id}
      /\ \A id \in DOMAIN connections' : connections'[id] = connections[id]
  BY <1>1, <1>4, InvalidatesGoes
<1>6. /\ DOMAIN credentials' \subseteq DOMAIN credentials
      /\ \A id \in DOMAIN credentials : id # s.id =>
           id \in DOMAIN credentials' /\ credentials'[id] = credentials[id]
  BY <1>1 DEF Without, Restrict
\* Its project is gone from the list and from the file.
<1>7. CredentialHeld'
  <2> SUFFICES ASSUME NEW list \in {projectsFile} \cup ({projects} \ {None}), NEW p \in Range(list),
                      p.credential, p.id \notin tangled
               PROVE  p.id \in DOMAIN credentials' /\ credentials'[p.id] = p.cred
    BY <1>1 DEF CredentialHeld
  <2>1. p.id \in DOMAIN credentials /\ credentials[p.id] = p.cred BY <1>2 DEF CredentialHeld
  <2>2. p.id # s.id BY <1>3 DEF Ids
  <2> QED BY <1>6, <2>1, <2>2
<1>8. Changing(call[c])' BY <1>5 DEF Changing, ChangingPcs, Removes
<1>9. DOMAIN credentials' \subseteq ProjectIds BY <1>2, <1>6 DEF ProjectsTyped
<1>10. s.id \in tangled' \/ (s.id \notin Ids(projectsFile') /\ s.id \notin DOMAIN connections')
  BY <1>1, <1>3, <1>5
<1>11. ProjectsInv' BY <1>1, <1>5, <1>7, <1>8, <1>9, <1>10, ChangeStands
<1> QED BY <1>5, <1>11, NoneIsCurrent DEF ProjectsKept

LEMMA ProjectsFailKeeps ==
  ASSUME CallsTyped, ProjectsInv, NEW c \in Calls, ProjectsFail(c)
  PROVE  ProjectsKept /\ AllCurrent
<1> DEFINE s == call[c]
<1>1. /\ s.pc \in {"listingProjects", "clearing", "storing", "savingProjects", "removing", "unlocking"}
      /\ Fails(c) /\ UNCHANGED <<projectsFile, projects, credentials, connections>>
      /\ tangled' = IF s.req.do = "remove" /\ s.id # None THEN tangled \cup {s.id} ELSE tangled
  BY DEF ProjectsFail, Now, Does
<1>2. tangled \subseteq tangled' BY <1>1
<1>3. s.pc \in ProjectPcs BY <1>1 DEF ProjectPcs, ListingPcs, ChangingPcs, OpeningPcs
<1>4. CASE s.pc \notin {"savingProjects", "removing"}
  BY <1>1, <1>2, <1>3, <1>4, FailsKeeps, NoneIsCurrent
<1>5. CASE s.pc \in {"savingProjects", "removing"}
  <2>1. /\ OnlyCall(c) /\ CallsTyped' /\ NoneServed /\ call'[c].pc = "failed" BY <1>1, FailsTyped
  <2>2. call[c].pc \notin {"saving"} \cup LogPcs /\ call'[c].pc \notin SettingsPcs \cup LogPcs
    BY <1>5, <2>1 DEF LogPcs, SettingsPcs
  <2>3. SettingsCallsStay /\ LogCallsStay BY <2>1, <2>2, OthersStay
  <2>4. Changing(s) BY DEF ProjectsInv
  <2>5. s.id # None BY <1>5, <2>4, StoresAssumption DEF Changing, ChangingPcs
  <2>6. Removes(s, s.id) => s.id \in tangled' BY <1>1, <2>5 DEF Removes
  <2>7. CredentialHeld' BY <1>1, <1>2, CredentialsStand
  <2>8. Changing(call[c])' BY <2>1 DEF Changing, ChangingPcs, Removes
  <2>9. DOMAIN credentials' \subseteq ProjectIds BY <1>1 DEF ProjectsInv, ProjectsTyped
  <2>10. ProjectsInv' BY <1>1, <1>2, <1>5, <2>1, <2>6, <2>7, <2>8, <2>9, ChangeStands
  <2> QED BY <2>1, <2>3, <2>10, NoneIsCurrent DEF ProjectsKept
<1> QED BY <1>4, <1>5


----------------
(* All of the process *)

LEMMA CallsAreKept ==
  ASSUME CallsTyped, UNCHANGED call
  PROVE  /\ CallsTyped' /\ NoneServed
         /\ SettingsCallsStay /\ LogCallsStay /\ ProjectCallsStay
<1>1. Calls' = Calls /\ \A d \in Calls : call'[d] = call[d] BY DEF Calls
<1>2. CallsTyped' BY <1>1 DEF CallsTyped, Shaped, Requested
<1>3. NoneServed BY DEF NoneServed
<1>4. SettingsCallsStay /\ LogCallsStay /\ ProjectCallsStay
  BY <1>1 DEF SettingsCallsStay, LogCallsStay, ProjectCallsStay
<1> QED BY <1>2, <1>3, <1>4

LEMMA DesktopInit ==
  ASSUME Init
  PROVE  DesktopInv
<1>1. PICK scenario \in Scenarios :
        /\ call = [c \in DOMAIN scenario.script |-> NewCall(scenario.script[c])]
        /\ InitSettingsAndActivity(scenario) /\ InitProjectsAndConnections(scenario)
        /\ InitSql(scenario)
  BY DEF Init
<1>2. /\ DOMAIN scenario.script \subseteq Nat
      /\ \A c \in DOMAIN scenario.script : Requested(scenario.script[c])
      /\ scenario.settings \in Snapshots \cup {None, Invalid}
      /\ scenario.log \in [entries : Seq(Entries), torn : BOOLEAN]
      /\ ProjectList(scenario.projects) /\ DOMAIN scenario.credentials \subseteq ProjectIds
      /\ \A p \in Range(scenario.projects) :
           p.credential => p.id \in DOMAIN scenario.credentials
                           /\ scenario.credentials[p.id] = p.cred
      /\ scenario.sql \in DOMAIN SqlPlans \cup {NoSql}
  BY <1>1, StoresAssumption
<1>3. /\ Calls = DOMAIN scenario.script
      /\ \A c \in Calls : call[c] = NewCall(scenario.script[c])
  BY <1>1 DEF Calls
<1>4. ASSUME NEW c \in Calls
      PROVE  /\ Shaped(call[c]) /\ call[c].pc = "new" /\ call[c].served = None
             /\ call[c].cred = None /\ Requested(call[c].req)
  <2>1. call[c] = NewCall(scenario.script[c]) BY <1>3
  <2>2. call[c].req = scenario.script[c] /\ Requested(scenario.script[c])
    BY <1>2, <1>3, <2>1 DEF NewCall
  <2>3. Requested(call[c].req) BY <2>2
  <2>4. Shaped(call[c]) BY <2>1 DEF NewCall, Shaped, CallFields
  <2>5. call[c].pc = "new" /\ call[c].served = None /\ call[c].cred = None BY <2>1 DEF NewCall
  <2> QED BY <2>3, <2>4, <2>5
<1>5. CallsTyped
  <2>1. call = [c \in Calls |-> call[c]] BY <1>1, <1>3
  <2> QED BY <1>2, <1>3, <1>4, <2>1 DEF CallsTyped, Pcs
<1>6. SettingsInv
  <2>1. /\ settingsFile = scenario.settings /\ settings = None /\ saves = 0 /\ fileNo = 0
        /\ outdated = FALSE /\ raced = FALSE /\ saved = InSettings(settingsFile)
    BY <1>1 DEF InitSettingsAndActivity
  <2>2. saved \in Snapshots BY <1>2, <2>1, StoresAssumption DEF InSettings
  <2>3. SettingsTyped /\ NotLoaded /\ PatchesKept /\ LatestInFile
    <3>1. SettingsTyped
      <4>1. saves \in Nat /\ fileNo \in -1..saves BY <2>1
      <4>2. raced \in BOOLEAN /\ outdated \in BOOLEAN BY <2>1
      <4> QED BY <1>2, <2>1, <2>2, <4>1, <4>2 DEF SettingsTyped
    <3>2. NotLoaded BY <2>1 DEF NotLoaded
    <3>3. PatchesKept /\ LatestInFile BY <2>1 DEF PatchesKept, LatestInFile
    <3> QED BY <3>1, <3>2, <3>3
  <2>4. \A c \in Calls : LoadTrue(call[c]) /\ SaveTrue(call[c]) BY <1>4 DEF LoadTrue, SaveTrue
  <2> QED BY <2>3, <2>4 DEF SettingsInv
<1>7. LogInv
  <2>1. log = scenario.log /\ queue = <<>> /\ kept = scenario.log.entries /\ peeked = FALSE
    BY <1>1 DEF InitSettingsAndActivity
  <2>2. LogTyped
    <3>1. queue \in Seq(Calls) /\ DOMAIN queue = {} BY <2>1
    <3>2. log.entries \in Seq(Entries) BY <1>2, <2>1
    <3> QED BY <1>2, <2>1, <3>1, <3>2 DEF LogTyped, IsInjective
  <2>3. LogKept BY <2>1 DEF LogKept
  <2>4. \A c \in Calls : QueueTrue(c) /\ LogCallTrue(call[c])
    BY <1>4, <2>1 DEF QueueTrue, LogCallTrue, Mutating, Range
  <2>5. ~Peeks /\ \A c \in Calls : OutTrue(call[c]) BY <1>4 DEF Peeks, Now, OutTrue
  <2> QED BY <2>2, <2>3, <2>4, <2>5 DEF LogInv
<1>8. ProjectsInv
  <2>1. /\ projectsFile = scenario.projects /\ projects = None
        /\ credentials = scenario.credentials /\ connections = <<>>
    BY <1>1 DEF InitProjectsAndConnections
  <2>2. DOMAIN connections = {} BY <2>1
  <2>3. ProjectsTyped BY <1>2, <2>1, <2>2 DEF ProjectsTyped
  <2>4. NotListed BY <1>4, <2>2 DEF NotListed, ChangingPcs, OpeningPcs
  <2>5. FileTrue BY <2>1 DEF FileTrue
  <2>6. CredentialHeld BY <1>2, <2>1 DEF CredentialHeld
  <2>7. \A c \in Calls : Listing(call[c]) /\ Changing(call[c]) /\ Opening(call[c])
    BY <1>4 DEF Listing, Changing, Opening, ListingPcs, ChangingPcs, OpeningPcs, Removes
  <2> QED BY <2>1, <2>3, <2>4, <2>5, <2>6, <2>7 DEF ProjectsInv
<1>9. SqlInv
  <2>1. sql = NewSqlRun(scenario.sql) /\ written = 0 BY <1>1 DEF InitSql
  <2> QED BY <1>2, <2>1, SqlBegins
<1> QED BY <1>5, <1>6, <1>7, <1>8, <1>9 DEF DesktopInv

\* After a crash no call is under way, and the files are what there is.
LEMMA CrashKeeps ==
  ASSUME DesktopInv, Crash
  PROVE  DesktopInv' /\ AllCurrent
<1>1. /\ Calls' = Calls /\ call' = [c \in Calls |-> call'[c]]
      /\ \A c \in Calls : call'[c] = IF UnderWay(c) THEN [NewCall(call[c].req) EXCEPT !.pc = "lost"]
                                     ELSE call[c]
  BY DEF Crash, LoseCalls, Calls
<1>2. ASSUME NEW c \in Calls
      PROVE  /\ Shaped(call'[c]) /\ Requested(call'[c].req) /\ call'[c].pc \in {"new"} \cup Over
             /\ call'[c].pc \notin Over => call'[c].served = None
             /\ call'[c].pc = "new" => call'[c] = call[c]
             /\ call'[c].served = call[c].served \/ call'[c].served = None
  <2>1. /\ Shaped(call[c]) /\ Requested(call[c].req)
        /\ call[c].pc \notin Over => call[c].served = None
    BY DEF DesktopInv, CallsTyped
  <2>2. CASE UnderWay(c)
    <3>1. call'[c] = [NewCall(call[c].req) EXCEPT !.pc = "lost"] BY <1>1, <2>2
    <3>2. Shaped(call'[c]) /\ call'[c].pc = "lost" /\ call'[c].req = call[c].req
          /\ call'[c].served = None
      BY <3>1 DEF NewCall, Shaped, CallFields
    <3> QED BY <2>1, <3>2 DEF Over
  <2>3. CASE ~UnderWay(c) BY <1>1, <2>1, <2>3 DEF UnderWay, Over
  <2> QED BY <2>2, <2>3
<1>3. CallsTyped'
  <2>1. \A c \in Calls : /\ Shaped(call[c])' /\ Requested(call[c].req)' /\ call'[c].pc \in Pcs
                         /\ call'[c].pc \notin Over => call'[c].served = None
    BY <1>2 DEF Pcs, Shaped, Requested
  <2> QED BY <1>1, <2>1 DEF DesktopInv, CallsTyped
<1>4. SettingsInv'
  <2>1. /\ settings' = None /\ saved' = InSettings(settingsFile) /\ settingsFile' = settingsFile
        /\ fileNo' = 0 /\ saves' = 0 /\ outdated' = FALSE /\ raced' = FALSE
    BY DEF Crash, LoseSettingsAndActivity
  <2>2. settingsFile \in Snapshots \cup {None, Invalid}
    BY DEF DesktopInv, SettingsInv, SettingsTyped
  <2>3. saved' \in Snapshots BY <2>1, <2>2, StoresAssumption DEF InSettings
  <2>4. SettingsTyped' /\ NotLoaded' /\ PatchesKept' /\ LatestInFile'
    <3>1. SettingsTyped'
      <4>1. saves' \in Nat /\ fileNo' \in -1..saves' BY <2>1
      <4>2. raced' \in BOOLEAN /\ outdated' \in BOOLEAN BY <2>1
      <4> QED BY <2>1, <2>2, <2>3, <4>1, <4>2 DEF SettingsTyped, Snapshots
    <3>2. InSettings(settingsFile') = saved' BY <2>1
    <3>3. InSettings(settingsFile)' = InSettings(settingsFile') BY DEF InSettings
    <3>4. NotLoaded' /\ PatchesKept' /\ LatestInFile'
      BY <2>1, <3>2, <3>3 DEF NotLoaded, PatchesKept, LatestInFile
    <3> QED BY <3>1, <3>4
  <2>5. \A c \in Calls : LoadTrue(call[c])' /\ SaveTrue(call[c])'
    BY <1>2 DEF LoadTrue, SaveTrue, Over
  <2> QED BY <1>1, <2>4, <2>5 DEF SettingsInv
<1>5. LogInv'
  <2>1. log' = log /\ queue' = <<>> /\ kept' = log.entries /\ peeked' = FALSE
    BY DEF Crash, LoseSettingsAndActivity
  <2>2. LogTyped'
    <3>1. queue' \in Seq(Calls') /\ DOMAIN queue' = {} BY <2>1
    <3>2. log \in [entries : Seq(Entries), torn : BOOLEAN] BY DEF DesktopInv, LogInv, LogTyped
    <3>3. IsInjective(queue') BY <3>1 DEF IsInjective
    <3> QED BY <2>1, <3>1, <3>2, <3>3 DEF LogTyped, Entries, IsInjective
  <2>3. LogKept' BY <2>1 DEF LogKept
  <2>4. \A c \in Calls : QueueTrue(c)' /\ LogCallTrue(call[c])'
    BY <1>2, <2>1 DEF QueueTrue, LogCallTrue, Mutating, Range, Over
  <2>5. ~Peeks' /\ \A c \in Calls : OutTrue(call[c])' BY <1>1, <1>2 DEF Peeks, Now, OutTrue, Over
  <2> QED BY <1>1, <2>2, <2>3, <2>4, <2>5 DEF LogInv
<1>6. ProjectsInv'
  <2>1. /\ projects' = None /\ connections' = <<>>
        /\ UNCHANGED <<projectsFile, credentials, tangled>>
    BY DEF Crash, LoseProjectsAndConnections
  <2>2. DOMAIN connections' = {} BY <2>1
  <2>3. ProjectsTyped'
    BY <2>1, <2>2 DEF DesktopInv, ProjectsInv, ProjectsTyped, ProjectList, ProjectIds
  <2>4. NotListed' BY <1>1, <1>2, <2>2 DEF NotListed, ChangingPcs, OpeningPcs, Over
  <2>5. FileTrue' BY <2>1 DEF FileTrue
  <2>6. CredentialHeld' BY <2>1 DEF DesktopInv, ProjectsInv, CredentialHeld
  <2>7. ASSUME NEW c \in Calls PROVE Listing(call[c])' /\ Changing(call[c])' /\ Opening(call[c])'
    <3>1. call'[c].pc = "new" => call'[c].cred = None BY <1>2 DEF DesktopInv, ProjectsInv, Listing
    <3> QED BY <1>2, <3>1 DEF Listing, Changing, Opening, ListingPcs, ChangingPcs, OpeningPcs,
                              Removes, Over
  <2> QED BY <1>1, <2>1, <2>3, <2>4, <2>5, <2>6, <2>7 DEF ProjectsInv
<1>7. SqlInv' BY LoseSqlStays DEF DesktopInv, Crash
<1>8. AllCurrent BY <1>2 DEF AllCurrent
<1> QED BY <1>3, <1>4, <1>5, <1>6, <1>7, <1>8 DEF DesktopInv

LEMMA StepsKeep ==
  ASSUME DesktopInv, [Next]_vars
  PROVE  DesktopInv' /\ AllCurrent
<1>0. CallsTyped /\ SettingsInv /\ LogInv /\ ProjectsInv /\ SqlInv BY DEF DesktopInv
<1>1. CASE Crash BY <1>1, CrashKeeps
<1>2. ASSUME NEW c \in Calls, SettingsAndActivityNext(c), UNCHANGED projectsVars, UNCHANGED sqlVars,
             peeked' = (peeked \/ Peeks')
      PROVE  DesktopInv' /\ AllCurrent
  <2>1. FilesKept /\ (UNCHANGED projectsVars /\ ProjectsInv => ProjectsInv')
    <3>1. CASE Load(c) BY <1>0, <1>2, <3>1, LoadKeeps
    <3>2. CASE ReadSettings(c) BY <1>0, <1>2, <3>2, ReadSettingsKeeps
    <3>3. CASE SettingsRead(c) BY <1>0, <1>2, <3>3, SettingsReadKeeps
    <3>4. CASE BackupSettings(c) BY <1>0, <1>2, <3>4, BackupKeeps
    <3>5. CASE SettingsSaved(c) BY <1>0, <1>2, <3>5, SettingsSavedKeeps
    <3>6. CASE SettingsFail(c) BY <1>0, <1>2, <3>6, SettingsFailKeeps
    <3>7. CASE ClearLog(c) BY <1>0, <1>2, <3>7, ClearLogKeeps
    <3>8. CASE ListLog(c) BY <1>0, <1>2, <3>8, ListLogKeeps
    <3>9. CASE Unlink(c) BY <1>0, <1>2, <3>9, UnlinkKeeps
    <3>10. CASE ReadLog(c) BY <1>0, <1>2, <3>10, ReadLogKeeps
    <3>11. CASE BeginWrite(c) BY <1>0, <1>2, <3>11, BeginWriteKeeps
    <3>12. CASE EndWrite(c) BY <1>0, <1>2, <3>12, EndWriteKeeps
    <3>13. CASE LogFails(c) BY <1>0, <1>2, <3>13, LogFailsKeeps
    <3> QED BY <1>2, <3>1, <3>2, <3>3, <3>4, <3>5, <3>6, <3>7, <3>8, <3>9, <3>10, <3>11, <3>12,
               <3>13 DEF SettingsAndActivityNext
  <2>2. SqlInv' BY <1>0, <1>2, SqlStays
  <2>3. AllCurrent BY <2>1, NoneIsCurrent DEF FilesKept
  <2> QED BY <1>0, <1>2, <2>1, <2>2, <2>3 DEF DesktopInv, FilesKept
<1>3. ASSUME NEW c \in Calls, ProjectsAndConnectionsNext(c), UNCHANGED <<settingsVars, logVars>>,
             UNCHANGED sqlVars, peeked' = (peeked \/ Peeks')
      PROVE  DesktopInv' /\ AllCurrent
  <2>1. ProjectsKept /\ AllCurrent
    <3>1. CASE List(c) BY <1>0, <3>1, ListKeeps
    <3>2. CASE ReadProjects(c) BY <1>0, <3>2, ReadProjectsKeeps
    <3>3. CASE ProjectsRead(c) BY <1>0, <3>3, ProjectsReadKeeps
    <3>4. CASE ClearCredential(c) BY <1>0, <3>4, ClearCredentialKeeps
    <3>5. CASE StoreCredential(c) BY <1>0, <3>5, StoreCredentialKeeps
    <3>6. CASE ProjectsSaved(c) BY <1>0, <3>6, ProjectsSavedKeeps
    <3>7. CASE RemoveCredential(c) BY <1>0, <3>7, RemoveCredentialKeeps
    <3>8. CASE LoadCredential(c) BY <1>0, <3>8, LoadCredentialKeeps
    <3>9. CASE CredentialLoaded(c) BY <1>0, <3>9, CredentialLoadedKeeps
    <3>10. CASE Closed(c) BY <1>0, <3>10, ClosedKeeps
    <3>11. CASE Dropped(c) BY <1>0, <3>11, DroppedKeeps
    <3>12. CASE CloseFails(c) BY <1>0, <3>12, CloseFailsKeeps
    <3>13. CASE ProjectsFail(c) BY <1>0, <3>13, ProjectsFailKeeps
    <3> QED BY <1>3, <3>1, <3>2, <3>3, <3>4, <3>5, <3>6, <3>7, <3>8, <3>9, <3>10, <3>11, <3>12,
               <3>13 DEF ProjectsAndConnectionsNext
  <2>2. SettingsInv' BY <1>0, <1>3, <2>1, SettingsStay DEF ProjectsKept
  <2>3. LogInv' BY <1>0, <1>3, <2>1, LogStays DEF ProjectsKept, logVars
  <2>4. SqlInv' BY <1>0, <1>3, SqlStays
  <2> QED BY <2>1, <2>2, <2>3, <2>4 DEF DesktopInv, ProjectsKept
<1>4. ASSUME UNCHANGED <<call, settingsVars, logVars, projectsVars>>, SqlInv',
             peeked' = (peeked \/ Peeks')
      PROVE  DesktopInv' /\ AllCurrent
  <2>1. CallsTyped' /\ NoneServed /\ SettingsCallsStay /\ LogCallsStay /\ ProjectCallsStay
    BY <1>0, <1>4, CallsAreKept
  <2>2. SettingsInv' BY <1>0, <1>4, <2>1, SettingsStay
  <2>3. LogInv' BY <1>0, <1>4, <2>1, LogStays DEF logVars
  <2>4. ProjectsInv' BY <1>0, <1>4, <2>1, ProjectsStay DEF projectsVars
  <2> QED BY <1>4, <2>1, <2>2, <2>3, <2>4, NoneIsCurrent DEF DesktopInv
<1>5. CASE UNCHANGED vars
  <2>1. UNCHANGED <<call, settingsVars, logVars, peeked, projectsVars, sqlVars>>
    BY <1>5 DEF vars, settingsVars, logVars, projectsVars, sqlVars
  <2>2. Peeks' <=> Peeks BY <2>1 DEF Peeks, Calls, Now, Does, logVars
  <2>3. peeked' = (peeked \/ Peeks') BY <1>0, <2>1, <2>2 DEF LogInv, LogTyped
  <2>4. SqlInv' BY <1>0, <2>1, SqlStays
  <2> QED BY <1>4, <2>1, <2>3, <2>4
<1>6. CASE SqlNext /\ UNCHANGED <<call, settingsVars, logVars, projectsVars>> /\ peeked' = (peeked \/ Peeks')
  <2>1. SqlInv' BY <1>0, <1>6, SqlNextKeeps
  <2> QED BY <1>4, <1>6, <2>1
<1> QED BY <1>1, <1>2, <1>3, <1>5, <1>6 DEF Next, Steps

----------------
\* The stores of the main process keep DesktopInv, whatever calls the renderer
\* makes, whatever files are found, and wherever calls fail and the process ends.
THEOREM DesktopInvariant == Spec => []DesktopInv
<1>1. Init => DesktopInv BY DesktopInit
<1>2. DesktopInv /\ [Next]_vars => DesktopInv' BY StepsKeep
<1> QED BY <1>1, <1>2, PTL DEF Spec

\* The files, the caches and the queue hold what they are for, a handler has no
\* connection before it is over, and a run of SQL is at a stage of its plan,
\* below its read budget unless it stops (SettingsStore, ActivityLogStore,
\* ProjectsStore, CredentialsStore, executeFirestoreSql).
THEOREM StoresTypesKept == Spec => []TypeOK
<1>1. DesktopInv => TypeOK
  <2> SUFFICES ASSUME DesktopInv PROVE TypeOK OBVIOUS
  <2>1. SqlTypeOK BY SqlIsTyped DEF DesktopInv, SqlInv
  <2>2. /\ settingsFile \in Snapshots \cup {None, Invalid} /\ settings \in Snapshots \cup {None}
        /\ saved \in Snapshots /\ fileNo \in -1..saves /\ outdated \in BOOLEAN
    BY DEF DesktopInv, SettingsInv, SettingsTyped
  <2>3. /\ log.entries \in Seq(Entries) /\ log.torn \in BOOLEAN /\ kept \in Seq(Entries)
        /\ IsInjective(queue)
    BY DEF DesktopInv, LogInv, LogTyped
  <2>4. \A c \in Calls : c \in Range(queue) <=>
          Now(c, {"queued", "write", "writing"}) \/ (Now(c, {"rescue", "rescuing"}) /\ ~Does(c, {"list"}))
    BY DEF DesktopInv, LogInv, QueueTrue, Mutating, Now, Does
  <2>5. /\ projectsFile \in Seq(ProjectType) /\ (projects = None \/ projects \in Seq(ProjectType))
        /\ DOMAIN connections \subseteq ProjectIds /\ DOMAIN credentials \subseteq ProjectIds
    BY DEF DesktopInv, ProjectsInv, ProjectsTyped, ProjectList
  <2>6. \A c \in Calls : call[c].pc \notin Over => call[c].served = None
    BY DEF DesktopInv, CallsTyped
  <2> QED BY <2>1, <2>2, <2>3, <2>4, <2>5, <2>6 DEF TypeOK
<1> QED BY <1>1, DesktopInvariant, PTL

\* Every patch of the settings is in the cache, unless a first load has put older
\* ones back; and it is in the file once the latest save is over, unless that has
\* failed, its file was moved away, or an overlapping save of older settings was
\* the last to be renamed (MainSettingsRepository.save, SettingsStore, writeAtomic).
THEOREM EachSettingKept == Spec => []SettingsKept
<1>1. DesktopInv => SettingsKept
  <2>1. DesktopInv => PatchesKept /\ LatestInFile BY DEF DesktopInv, SettingsInv
  <2> QED BY <2>1 DEF PatchesKept, LatestInFile, SavesLatest, SettingsKept, Now
<1> QED BY <1>1, DesktopInvariant, PTL

\* Between its writes the activity log is what its mutations leave one after the
\* other, unless a listing has repaired it meanwhile (ActivityLogStore.runMutation).
THEOREM LogIsKept == Spec => []LogKept
<1>1. DesktopInv => LogKept BY DEF DesktopInv, LogInv
<1> QED BY <1>1, DesktopInvariant, PTL

\* A project with a credential has the one it was added with, unless its calls
\* have crossed or its removal failed (MainProjectsRepository, CredentialsStore).
THEOREM CredentialsHeld == Spec => []CredentialHeld
<1>1. DesktopInv => CredentialHeld BY DEF DesktopInv, ProjectsInv
<1> QED BY <1>1, DesktopInvariant, PTL

\* A call gets a connection opened with what its project has now, though the
\* cache's key says only whether there is a credential (AdminFirestoreProvider).
THEOREM ConnectionsAreCurrent == Spec => ConnectionIsCurrent
<1> DEFINE Current ==
      \A c \in Calls :
        LET s == call'[c]
        IN call[c].served = None /\ s.served # None
             /\ ~s.disturbed /\ ~s.served.late /\ s.id \notin tangled
           => \A p \in Range(projects') :
                p.id = s.id => s.served.key.host = p.host /\ s.served.cred = p.cred
<1>1. DesktopInv /\ [Next]_vars => [Current]_vars BY StepsKeep DEF AllCurrent
<1> HIDE DEF Current
<1>2. Spec => [][Current]_vars BY <1>1, DesktopInvariant, PTL DEF Spec
<1> QED BY <1>2 DEF Current, ConnectionIsCurrent

\* A run of SQL that was not stopped gives the rows its statement means, whatever
\* limits and fields are pushed down to its reads, and whatever other clients write
\* between them (executeFirestoreSql, sourceReadOptionsFor, collectRuntimeDocs).
THEOREM RowsAreMeant == Spec => []CompletesWithItsRows
<1>1. DesktopInv => CompletesWithItsRows BY InvCompletes DEF DesktopInv
<1> QED BY <1>1, DesktopInvariant, PTL
=============================================================================

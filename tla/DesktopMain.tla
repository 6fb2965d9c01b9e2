---------------------------- MODULE DesktopMain ----------------------------
(***************************************************************************)
(* The stores and the SQL repository of the main process under the calls   *)
(* of the renderer: each step of a handler is a step of one of them, a     *)
(* crash is one of all.                                                    *)
(***************************************************************************)
EXTENDS SettingsAndActivity, ProjectsAndConnections, SqlRun

vars == <<call, mishaps, settingsVars, logVars, peeked, projectsVars, sqlVars>>

Init ==
  \E scenario \in Scenarios :
    /\ call = [c \in DOMAIN scenario.script |-> NewCall(scenario.script[c])]
    /\ mishaps = 0
    /\ InitSettingsAndActivity(scenario)
    /\ InitProjectsAndConnections(scenario)
    /\ InitSql(scenario)

Crash == /\ (\E c \in Calls : UnderWay(c)) \/ sql.pc \notin SqlOver \cup {"new"}
         /\ LoseCalls /\ LoseSettingsAndActivity /\ LoseProjectsAndConnections /\ LoseSql
         /\ peeked' = FALSE

Steps ==
  \/ \E c \in Calls :
       /\ \/ SettingsAndActivityNext(c) /\ UNCHANGED projectsVars
          \/ ProjectsAndConnectionsNext(c) /\ UNCHANGED <<settingsVars, logVars>>
       /\ UNCHANGED sqlVars
  \/ SqlNext /\ UNCHANGED <<call, settingsVars, logVars, projectsVars>>

Next == \/ Steps /\ peeked' = (peeked \/ Peeks')
        \/ Crash

Spec == Init /\ [][Next]_vars

-----------------------------------------------------------------------------
Snapshots == [theme : {"system", "dark"}, activityLog : [maxBytes : Nat, enabled : BOOLEAN]]
Entries == [id : Nat, size : Nat]
ProjectIds == STRING \X Nat
ProjectType == [id : ProjectIds, host : STRING, credential : BOOLEAN, cred : Nat \cup {None}]

\* A list of projects as add leaves it: each has an id of its own, and says whether
\* it has a credential.
ProjectList(list) ==
  /\ list \in Seq(ProjectType)
  /\ \A i, j \in DOMAIN list : list[i].id = list[j].id => i = j
  /\ \A i \in DOMAIN list : list[i].credential <=> list[i].cred # None

\* A request of the renderer, as its schema is.
Requested(r) ==
  /\ r.do = "saveSettings" => /\ DOMAIN r.patch \subseteq DOMAIN DefaultSettings
                             /\ Patched(DefaultSettings, r.patch) \in Snapshots
  /\ r.do = "append" => r.size \in Nat
  /\ r.do = "add" => r.name \in STRING /\ r.host \in STRING /\ r.credential \in BOOLEAN
  /\ r.do = "update" => r.host \in STRING
  /\ r.do \in {"update", "remove", "connect"} => r.id \in ProjectIds

\* null is none of what the stores hold, and the files found were written by them.
ASSUME StoresAssumption ==
  /\ None \notin Snapshots /\ Invalid \notin Snapshots /\ None # Invalid
  /\ None \notin Nat /\ None \notin ProjectIds /\ None \notin Seq(ProjectType)
  /\ DefaultSettings \in Snapshots
  /\ \A s \in Scenarios :
       /\ DOMAIN s.script \subseteq Nat /\ \A c \in DOMAIN s.script : Requested(s.script[c])
       /\ s.settings \in Snapshots \cup {None, Invalid}
       /\ s.log \in [entries : Seq(Entries), torn : BOOLEAN]
       /\ ProjectList(s.projects) /\ DOMAIN s.credentials \subseteq ProjectIds
       /\ \A p \in Range(s.projects) :
            p.credential => p.id \in DOMAIN s.credentials /\ s.credentials[p.id] = p.cred
       /\ s.sql \in DOMAIN SqlPlans \cup {NoSql}

TypeOK ==
  /\ settingsFile \in Snapshots \cup {None, Invalid} /\ settings \in Snapshots \cup {None}
  /\ saved \in Snapshots /\ fileNo \in -1..saves /\ outdated \in BOOLEAN
  /\ log.entries \in Seq(Entries) /\ log.torn \in BOOLEAN /\ kept \in Seq(Entries)
  /\ IsInjective(queue)
  /\ \A c \in Calls : c \in Range(queue) <=>
       Now(c, {"queued", "write", "writing"}) \/ (Now(c, {"rescue", "rescuing"}) /\ ~Does(c, {"list"}))
  /\ projectsFile \in Seq(ProjectType) /\ (projects = None \/ projects \in Seq(ProjectType))
  /\ DOMAIN connections \subseteq ProjectIds /\ DOMAIN credentials \subseteq ProjectIds
  /\ \A c \in Calls : call[c].pc \notin Over => call[c].served = None
  /\ SqlTypeOK

-----------------------------------------------------------------------------
\* Patches of the settings are applied one after the other, whatever saves
\* overlap, fail or are lost in a crash: the cache holds all of them, and the
\* file too, once the latest save is over.  Left out is what the code does not
\* prevent: a first load that ends after a save puts older settings back into
\* the cache (raced); and (outdated) the latest save fails, a backup moves its
\* file away, or an older save that overlaps it, as writes are in no queue, is
\* the last to rename its file: the cache then has the newer patch, and the
\* file, to which a restart returns, has not.
SettingsKept ==
  ~raced => /\ settings # None => settings = saved
            /\ ~outdated /\ ~(\E c \in Calls : Now(c, {"saving"}) /\ call[c].no = saves)
                 => InSettings(settingsFile) = saved

\* Between its writes the activity log holds what appends, prunings and
\* clearings, one after the other, leave of what it held after the last crash
\* or failed write: none of them is lost or undone by another.  Left out is a
\* listing that repairs the log while a mutation is at work.
LogKept ==
  ~peeked /\ ~(\E c \in Calls : Writing(c)) => log.entries = kept

\* A project that is listed, in the file or by this process, as having a
\* credential has it, and the one it was added with, through crashes and
\* failures at any step; unless calls for it crossed, or its removal failed.
CredentialHeld ==
  \A list \in {projectsFile} \cup ({projects} \ {None}) : \A p \in Range(list) :
    p.credential /\ p.id \notin tangled =>
      p.id \in DOMAIN credentials /\ credentials[p.id] = p.cred

\* A call gets a connection opened with the host and the credential its
\* project has now, though what is cached says only whether there is one; left
\* out are projects that change while a connection to them is being opened.
ConnectionIsCurrent ==
  [][\A c \in Calls :
       LET s == call'[c]
       IN call[c].served = None /\ s.served # None
            /\ ~s.disturbed /\ ~s.served.late /\ s.id \notin tangled
          => \A p \in Range(projects') :
               p.id = s.id => s.served.key.host = p.host /\ s.served.cred = p.cred]_vars
=============================================================================

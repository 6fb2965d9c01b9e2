----------------------- MODULE ProjectsAndConnections -----------------------
(***************************************************************************)
(* ProjectsStore, CredentialsStore, MainProjectsRepository and the Admin   *)
(* apps of AdminFirestoreProvider: the list of projects in one file with a *)
(* cache, a credential file per project, and for each project the          *)
(* connection that was opened with what these held.                        *)
(***************************************************************************)
EXTENDS DesktopCalls

VARIABLES
  projectsFile,  \* projects.json
  projects,      \* ProjectsStore.cache
  credentials,   \* credentials/: by project
  connections,   \* AdminFirestoreProvider.cache: by project, for the default database
  apps,          \* the Admin apps that have not been deleted, by name
  tangled        \* history: projects whose calls have crossed one another

projectsVars == <<projectsFile, projects, credentials, connections, apps, tangled>>

InitProjectsAndConnections(scenario) ==
  /\ projectsFile = scenario.projects /\ projects = None
  /\ credentials = scenario.credentials
  /\ connections = <<>> /\ apps = {} /\ tangled = {}

Ids(list) == {p.id : p \in Range(list)}
\* find and filter, as no id is there twice.
Place(list, id) == CHOOSE i \in DOMAIN list : list[i].id = id
Find(list, id) == list[Place(list, id)]
WithoutProject(list, id) == IF id \in Ids(list) THEN RemoveAt(list, Place(list, id)) ELSE list

With(f, id, value) == [x \in DOMAIN f \cup {id} |-> IF x = id THEN value ELSE f[x]]
Without(f, id) == Restrict(f, DOMAIN f \ {id})

\* uniqueProjectId: the slug of the name, with the first number that is free.
UniqueId(name, list) ==
  LET Free == {n \in 1..(Len(list) + 1) : <<name, n>> \notin Ids(list)}
  IN <<name, CHOOSE n \in Free : \A m \in Free : n <= m>>

\* Calls of add and remove that work on the same project at once.
Crossing(c, id) ==
  {i \in {id} : \E d \in Calls \ {c} : /\ UnderWay(d) /\ call[d].id = id
                                       /\ Does(d, {"add", "remove"})}

-----------------------------------------------------------------------------
(***************************************************************************)
(* Connections                                                             *)
(***************************************************************************)

\* cacheKeyFor: whether there is a credential, not which one.
Key(project, cred) == [host |-> project.host, credential |-> cred # None]
AppName(id, key) == <<id, key>>

\* The rest of getFirestoreForConfig.  A production project needs its
\* credential; initializeApp refuses the name of an app that has a credential.
Opened(c, s, alive) ==
  LET project == Find(s.list, s.id)
      key == Key(project, s.cred)
      entry == [key |-> key, cred |-> s.cred, late |-> s.disturbed]
  IN IF \/ project.credential /\ s.cred = None
        \/ project.credential /\ AppName(s.id, key) \in alive
     THEN Fails(c) /\ apps' = alive /\ UNCHANGED connections
     ELSE /\ Ends(c, [s EXCEPT !.served = entry])
          /\ apps' = alive \cup {AppName(s.id, key)}
          /\ connections' = With(connections, s.id, entry)

\* getFirestoreForConfig: a connection of the same key is reused, another one
\* is closed first.
GetFirestore(c, s) ==
  LET key == Key(Find(s.list, s.id), s.cred)
      cached == connections[s.id]
  IN IF s.id \notin DOMAIN connections THEN Opened(c, s, apps)
     ELSE IF cached.key = key
     THEN Ends(c, [s EXCEPT !.served = cached]) /\ UNCHANGED <<connections, apps>>
     ELSE To(c, [s EXCEPT !.out = cached], "closing") /\ UNCHANGED <<connections, apps>>

\* deleteCached is over; deleteApp refuses an app that has been deleted.
Closed(c) ==
  LET s == call[c]
      name == AppName(s.id, s.out.key)
  IN /\ Now(c, {"closing"})
     /\ IF name \in apps THEN Opened(c, s, apps \ {name})
        ELSE Fails(c) /\ UNCHANGED <<connections, apps>>
     /\ UNCHANGED <<mishaps, projectsFile, projects, credentials, tangled>>

\* Mutant: the handler leaves the connection of its project open.
Invalidates_Nothing(c, s) == Ends(c, s) /\ UNCHANGED <<connections, apps>>

\* invalidateConnection: forgotten at once, then closed.
Invalidates(c, s) ==
  IF s.id \in DOMAIN connections
  THEN /\ connections' = Without(connections, s.id)
       /\ To(c, [s EXCEPT !.out = connections[s.id]], "dropping")
       /\ UNCHANGED apps
  ELSE Ends(c, s) /\ UNCHANGED <<connections, apps>>

Dropped(c) ==
  LET s == call[c]
      name == AppName(s.id, s.out.key)
  IN /\ Now(c, {"dropping"})
     /\ IF name \in apps THEN Ends(c, s) ELSE Fails(c)
     /\ apps' = apps \ {name}
     /\ UNCHANGED <<mishaps, projectsFile, projects, credentials, connections, tangled>>

\* db.terminate() throws: the app is deleted all the same, and its handler fails;
\* what getFirestoreForConfig was to close stays cached, deleted as it is.
CloseFails(c) ==
  /\ Now(c, {"closing", "dropping"}) /\ Fails(c)
  /\ apps' = apps \ {AppName(call[c].id, call[c].out.key)}
  /\ Mishap /\ UNCHANGED <<projectsFile, projects, credentials, connections, tangled>>

-----------------------------------------------------------------------------
(***************************************************************************)
(* The list of projects                                                    *)
(***************************************************************************)

ProjectRequests == {"add", "update", "remove", "connect"}

\* Connections being opened for a project that changes.
Disturbed(f, id) ==
  [c \in Calls |-> IF /\ f[c].req.do = "connect" /\ f[c].req.id = id
                      /\ f[c].pc \notin Over \cup {"new"}
                   THEN [f[c] EXCEPT !.disturbed = TRUE] ELSE f[c]]

\* ProjectsStore.save: the cache, and then the file.  What was saved since
\* s.list was listed is overwritten; two writes may end in the other order.
Saves(c, s, list) ==
  /\ projects' = list
  /\ call' = Disturbed([call EXCEPT ![c] = [s EXCEPT !.out = list, !.pc = "savingProjects"]],
                       s.id)
  /\ tangled' = tangled \cup Crossing(c, s.id)
                  \cup (IF /\ projects \in {None, s.list}
                            /\ ~\E d \in Calls : Now(d, {"savingProjects"})
                         THEN {} ELSE Ids(list) \cup Ids(s.list) \cup Ids(IF projects = None THEN <<>> ELSE projects))

\* add: a credential is stored before its project is.
Project(c, s) ==
  [id |-> s.id, host |-> s.req.host, credential |-> s.cred # None, cred |-> s.cred]

\* The continuation of ProjectsStore.list in each handler.
Listed(c, s, list) ==
  LET t == [s EXCEPT !.list = list]
      Here(id) == id \in Ids(list)
  IN \/ /\ s.req.do = "add"
        /\ LET a == [t EXCEPT !.id = UniqueId(s.req.name, list)]
           IN IF s.req.credential
              THEN /\ To(c, a, "clearing")
                   /\ projects' = list
                   /\ tangled' = tangled \cup Crossing(c, a.id)
              ELSE Saves(c, a, Append(list, Project(c, a)))
        /\ UNCHANGED <<connections, apps>>
     \/ /\ s.req.do = "update"
        /\ IF Here(s.req.id)
           THEN Saves(c, [t EXCEPT !.id = s.req.id],
                      [i \in DOMAIN list |-> IF list[i].id # s.req.id THEN list[i]
                                             ELSE [list[i] EXCEPT !.host = s.req.host]])
           ELSE Fails(c) /\ projects' = list /\ UNCHANGED tangled
        /\ UNCHANGED <<connections, apps>>
     \/ /\ s.req.do = "remove"
        /\ Saves(c, [t EXCEPT !.id = s.req.id], WithoutProject(list, s.req.id))
        /\ UNCHANGED <<connections, apps>>
     \/ /\ s.req.do = "connect"
        /\ projects' = list /\ UNCHANGED tangled
        /\ LET a == [t EXCEPT !.id = s.req.id]
           IN IF ~Here(s.req.id) THEN Fails(c) /\ UNCHANGED <<connections, apps>>
              ELSE IF Find(list, s.req.id).credential
              THEN To(c, a, "unlocking") /\ UNCHANGED <<connections, apps>>
              ELSE GetFirestore(c, a)

\* list: the cache, or the file, which does not replace what was saved meanwhile.
List(c) ==
  /\ Arrives(c, ProjectRequests)
  /\ IF projects # None THEN Listed(c, call[c], projects)
     ELSE To(c, call[c], "listingProjects") /\ UNCHANGED <<projects, connections, apps, tangled>>
  /\ UNCHANGED <<mishaps, projectsFile, credentials>>

ReadProjects(c) ==
  /\ Now(c, {"listingProjects"})
  /\ To(c, [call[c] EXCEPT !.list = projectsFile], "listed")
  /\ UNCHANGED <<mishaps, projectsVars>>

ProjectsRead(c) ==
  /\ Now(c, {"listed"})
  /\ Listed(c, call[c], IF projects # None THEN projects ELSE call[c].list)
  /\ UNCHANGED <<mishaps, projectsFile, credentials>>

-----------------------------------------------------------------------------
(***************************************************************************)
(* Credentials                                                             *)
(***************************************************************************)

\* CredentialsStore.save: what there is of that name goes first.
ClearCredential(c) ==
  /\ Now(c, {"clearing"}) /\ To(c, call[c], "storing")
  /\ credentials' = Without(credentials, call[c].id)
  /\ UNCHANGED <<mishaps, projectsFile, projects, connections, apps, tangled>>

StoreCredential(c) ==
  LET s == [call[c] EXCEPT !.cred = c]
  IN /\ Now(c, {"storing"})
     /\ credentials' = With(credentials, s.id, c)
     /\ Saves(c, s, Append(s.list, Project(c, s)))
     /\ UNCHANGED <<mishaps, projectsFile, connections, apps>>

\* load, for a connection: the file is read, and then used.
LoadCredential(c) ==
  LET s == call[c]
  IN /\ Now(c, {"unlocking"})
     /\ To(c, [s EXCEPT !.cred = IF s.id \in DOMAIN credentials THEN credentials[s.id]
                                 ELSE None], "unlocked")
     /\ UNCHANGED <<mishaps, projectsVars>>

CredentialLoaded(c) ==
  /\ Now(c, {"unlocked"}) /\ GetFirestore(c, call[c])
  /\ UNCHANGED <<mishaps, projectsFile, projects, credentials, tangled>>

\* Mutant: the credential of a removed project goes before the project does.
ProjectsSaved_Late(c) ==
  LET s == call[c]
  IN /\ Now(c, {"savingProjects"})
     /\ IF Does(c, {"remove"})
        THEN /\ To(c, s, "removing") /\ credentials' = Without(credentials, s.id)
             /\ UNCHANGED <<projectsFile, connections, apps>>
        ELSE /\ projectsFile' = s.out
             /\ IF Does(c, {"add"}) THEN Ends(c, s) /\ UNCHANGED <<connections, apps>>
                ELSE Invalidates(c, s)
             /\ UNCHANGED credentials
     /\ UNCHANGED <<mishaps, projects, tangled>>

\* The list is written: an update invalidates, a removal goes on to the credential.
ProjectsSaved(c) ==
  LET s == call[c]
  IN /\ Now(c, {"savingProjects"})
     /\ projectsFile' = s.out
     /\ \/ Does(c, {"add"}) /\ Ends(c, s) /\ UNCHANGED <<connections, apps>>
        \/ Does(c, {"update"}) /\ Invalidates(c, s)
        \/ Does(c, {"remove"}) /\ To(c, s, "removing") /\ UNCHANGED <<connections, apps>>
     /\ UNCHANGED <<mishaps, projects, credentials, tangled>>

RemoveCredential(c) ==
  /\ Now(c, {"removing"})
  /\ credentials' = Without(credentials, call[c].id)
  /\ Invalidates(c, call[c])
  /\ UNCHANGED <<mishaps, projectsFile, projects, tangled>>

\* A removal that fails has changed the list of this process, and invalidates nothing.
ProjectsFail(c) ==
  /\ Now(c, {"listingProjects", "clearing", "storing", "savingProjects", "removing", "unlocking"})
  /\ Fails(c)
  /\ tangled' = IF Does(c, {"remove"}) /\ call[c].id # None THEN tangled \cup {call[c].id}
                ELSE tangled
  /\ Mishap /\ UNCHANGED <<projectsFile, projects, credentials, connections, apps>>

LoseProjectsAndConnections ==
  /\ projects' = None /\ connections' = <<>> /\ apps' = {}
  /\ UNCHANGED <<projectsFile, credentials, tangled>>

ProjectsAndConnectionsNext(c) ==
  \/ List(c) \/ ReadProjects(c) \/ ProjectsRead(c)
  \/ ClearCredential(c) \/ StoreCredential(c) \/ ProjectsSaved(c) \/ RemoveCredential(c)
  \/ LoadCredential(c) \/ CredentialLoaded(c) \/ Closed(c) \/ Dropped(c)
  \/ CloseFails(c) \/ ProjectsFail(c)
=============================================================================

------------------------------ MODULE Renderer ------------------------------
(***************************************************************************)
(* The tabs of the renderer: the workspace with its FDQL and SQL tabs, the *)
(* queries and writes of one of its Firestore tabs, the users of one       *)
(* project; and the workspace from one window to the next, as it is saved. *)
(* They keep stores of their own and the user works with one at a time;    *)
(* what a behaviour is about is its focus (a bound, the others stay as     *)
(* they are).                                                              *)
(***************************************************************************)
EXTENDS FirestoreTab, Workbench, UsersTab, SavedWorkspace

VARIABLE focus

vars == <<firestoreVars, workbenchVars, usersVars, savedVars, focus>>

Init ==
  /\ InitFirestoreTab /\ InitWorkbench /\ InitUsersTab /\ InitSavedWorkspace
  /\ focus \in {"query", "workspace", "users", "saved"}
  /\ focus # "query" => draft = CHOOSE q \in Drafts : TRUE
  /\ focus # "workspace" => workspace = CHOOSE w \in Workspaces : TRUE
  /\ focus # "users" => usersTab.filter = NoFilter
  /\ focus # "saved" => stored = CHOOSE s \in FoundWorkspaces : TRUE

Next ==
  /\ UNCHANGED focus
  /\ \/ focus = "query" /\ FirestoreTabNext /\ UNCHANGED <<workbenchVars, usersVars, savedVars>>
     \/ focus = "workspace" /\ WorkbenchNext /\ UNCHANGED <<firestoreVars, usersVars, savedVars>>
     \/ focus = "users" /\ UsersTabNext /\ UNCHANGED <<firestoreVars, workbenchVars, savedVars>>
     \/ focus = "saved" /\ SavedWorkspaceNext
          /\ UNCHANGED <<firestoreVars, workbenchVars, usersVars>>

Spec == Init /\ [][Next]_vars

TypeOK ==
  CASE focus = "query" -> FirestoreTabTypeOK
    [] focus = "workspace" -> WorkbenchTypeOK
    [] focus = "users" -> UsersTabTypeOK
    [] focus = "saved" -> SavedWorkspaceTypeOK
=============================================================================

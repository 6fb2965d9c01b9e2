------------------------------ MODULE UsersTab ------------------------------
(***************************************************************************)
(* The list of Authentication users of a project: the store of its tabs,   *)
(* the effect that loads what the filter asks for, and the calls of both   *)
(* to the repository.  A user is a number, in the order they are listed;   *)
(* a filter is the user whose UID it is; claims are versions of claims.    *)
(***************************************************************************)
EXTENDS Integers, SequencesExt, FiniteSetsExt, Functions

CONSTANTS
  LastUser,      \* users are 1..LastUser
  UsersPerPage,  \* DEFAULT_PAGE_LIMIT
  MaxVisits,     \* bound: what the user does with the tab
  MaxOthers,     \* bound: claims changed by other clients,
  OthersUsers,   \* bound: of these users
  MaxRefused     \* bound: calls that fail

ASSUME UsersAssumption ==
  /\ LastUser \in Nat \ {0} /\ UsersPerPage \in Nat \ {0}
  /\ {MaxVisits, MaxOthers, MaxRefused} \subseteq Nat /\ OthersUsers \subseteq 1..LastUser

VARIABLES
  claims,        \* what Firebase has: the version of each user's claims
  otherWrites, refusals, visits,
  onUsers,       \* a tab of this store is the active one
  usersTab,      \* AuthRuntimeState, but for updatedUsers
  updatedUsers,  \* claims that were saved here, 0 for none
  usersAsked,    \* calls that were sent
  usersAnswered, \* answers on their way
  mixed,         \* history: a page and a load crossed, and the list may show it
  takenBack,     \* history: a filter was taken back while another was loaded
  since          \* history: what the tab was told of each user's claims

usersMain == <<claims, otherWrites, refusals>>
usersVars == <<usersMain, visits, onUsers, usersTab, updatedUsers,
               usersAsked, usersAnswered, mixed, takenBack, since>>

Users == 1..LastUser
NoFilter == 0
Filters == {NoFilter} \cup Users
NotLoaded == LastUser + 1
NoUsersRequest == [filter |-> NoFilter, runId |-> 0]
NoUpdates == [u \in Users |-> 0]

InitUsersTab ==
  /\ claims = [u \in Users |-> 1] /\ otherWrites = 0 /\ refusals = 0 /\ visits = 0
  /\ onUsers = FALSE
  /\ \E f \in Filters :
       usersTab = [filter |-> f, active |-> NoUsersRequest, error |-> FALSE, cursor |-> 0,
                   runId |-> 0, searched |-> <<>>, users |-> <<>>, more |-> FALSE,
                   fetching |-> FALSE, loading |-> FALSE, loaded |-> NotLoaded]
  /\ updatedUsers = NoUpdates /\ usersAsked = {} /\ usersAnswered = <<>>
  /\ mixed = FALSE /\ takenBack = FALSE /\ since = NoUpdates

\* selectAuthUsersModel: the rows, with what was saved since.
Listed == IF usersTab.filter = NoFilter THEN usersTab.users ELSE usersTab.searched
UserRows ==
  [i \in DOMAIN Listed |->
     IF updatedUsers[Listed[i].uid] = 0 THEN Listed[i]
     ELSE [Listed[i] EXCEPT !.claims = updatedUsers[Listed[i].uid]]]

\* A call has a number of its own.
UsersCall(op) ==
  [op |-> op, id |-> visits', request |-> NoUsersRequest, cursor |-> 0, uid |-> 0,
   asOf |-> NoUpdates]
Underway == usersAsked \cup {usersAnswered[i].call : i \in DOMAIN usersAnswered}
Pending(op) == \E c \in Underway : c.op = op
BeingSaved(u) == \E c \in Underway : c.uid = u

-----------------------------------------------------------------------------
(***************************************************************************)
(* What the user does.  The dialog for claims can be closed while it is    *)
(* saving, so that it holds nothing of this back.                          *)
(***************************************************************************)

Visits == onUsers /\ visits < MaxVisits /\ visits' = visits + 1

\* loadAuthUsersCommand without force: what is loaded or on its way is not loaded again.
InHand(t) ==
  \/ t.loaded = t.filter /\ ~t.error
  \/ t.active # NoUsersRequest /\ t.active.filter = t.filter

\* authUsersLoadStarted, of what t has to load.
LoadUsers(t, asOf) ==
  LET request == [filter |-> t.filter, runId |-> t.runId + 1]
  IN /\ usersTab' = [t EXCEPT !.active = request, !.error = FALSE, !.runId = request.runId,
                              !.fetching = FALSE, !.loading = TRUE]
     /\ usersAsked' = usersAsked \cup {[UsersCall("load") EXCEPT !.request = request, !.asOf = asOf]}
     /\ mixed' = (mixed \/ Pending("more"))
     /\ UNCHANGED takenBack

\* The effect of useAuthTabState, which runs in the same turn as what it depends on.
Effect(t) ==
  IF InHand(t)
  THEN /\ usersTab' = t
       /\ takenBack' = (takenBack \/ (t.active # NoUsersRequest /\ t.active.filter # t.filter))
       /\ UNCHANGED <<usersAsked, mixed>>
  ELSE LoadUsers(t, NoUpdates)

\* The tab is shown or another property of it changes, such as a width.
ShowUsers ==
  /\ visits < MaxVisits /\ visits' = visits + 1
  /\ onUsers' = TRUE
  /\ Effect(usersTab)
  /\ UNCHANGED <<usersMain, updatedUsers, usersAnswered, since>>

\* Another tab is selected.
HideUsers ==
  /\ Visits /\ onUsers' = FALSE
  /\ UNCHANGED <<usersMain, usersTab, updatedUsers, usersAsked, usersAnswered,
                 mixed, takenBack, since>>

\* The tab goes to another account: authTab.clear of the store it leaves.
LeaveUsers ==
  /\ Visits /\ onUsers' = FALSE
  /\ usersTab' = [usersTab EXCEPT !.filter = NoFilter]
  /\ UNCHANGED <<usersMain, updatedUsers, usersAsked, usersAnswered, mixed, takenBack, since>>

SetAuthFilter(f) ==
  /\ Visits /\ f # usersTab.filter
  /\ Effect([usersTab EXCEPT !.filter = f])
  /\ UNCHANGED <<usersMain, onUsers, updatedUsers, usersAnswered, since>>

\* Mutant: what was saved is shown until it is saved again.
RemoveProjectUpdates_Kept == updatedUsers

\* removeProjectUpdates, of the one project of this store.
RemoveProjectUpdates == NoUpdates

\* refreshAuthUsersCommand; the button is disabled while the tab loads.  It does not
\* reach users whose claims are being saved: what is saved is shown in any case.
RefetchUsers ==
  /\ Visits /\ ~usersTab.loading
  /\ updatedUsers' = RemoveProjectUpdates
  /\ LoadUsers([usersTab EXCEPT !.runId = @ + 1],
               [u \in Users |-> IF BeingSaved(u) THEN 0 ELSE claims[u]])
  /\ UNCHANGED <<usersMain, onUsers, usersAnswered, since>>

\* loadMoreAuthUsersCommand, and the button that is there while the list goes on.
LoadMoreUsers ==
  /\ Visits /\ usersTab.filter = NoFilter /\ usersTab.users # <<>>
  /\ usersTab.more /\ usersTab.cursor # 0 /\ ~usersTab.fetching
  /\ usersTab' = [usersTab EXCEPT !.error = FALSE, !.fetching = TRUE]
  /\ usersAsked' = usersAsked \cup {[UsersCall("more") EXCEPT !.cursor = usersTab.cursor]}
  /\ mixed' = (mixed \/ usersTab.loading \/ Pending("more"))
  /\ UNCHANGED <<usersMain, onUsers, updatedUsers, usersAnswered, takenBack, since>>

\* saveAuthCustomClaimsCommand
SaveClaims(u) ==
  /\ Visits /\ \E i \in DOMAIN UserRows : UserRows[i].uid = u
  /\ usersAsked' = usersAsked \cup {[UsersCall("save") EXCEPT !.uid = u]}
  /\ UNCHANGED <<usersMain, onUsers, usersTab, updatedUsers, usersAnswered,
                 mixed, takenBack, since>>

-----------------------------------------------------------------------------
(***************************************************************************)
(* The main process.  An operation has Auth to itself while it runs        *)
(* (AdminAuthProvider), and is answered before the next one; which of the  *)
(* calls is next depends on how long its connection takes to be resolved.  *)
(***************************************************************************)

UserRecord(u) == [uid |-> u, claims |-> claims[u]]
UsersReply(call, ok, items, cursor) ==
  [call |-> call, ok |-> ok, items |-> items, cursor |-> cursor]
UsersReplies(answer) ==
  /\ usersAsked' = usersAsked \ {answer.call}
  /\ usersAnswered' = Append(usersAnswered, answer)
  /\ UNCHANGED <<otherWrites, visits, onUsers, usersTab, updatedUsers, mixed, takenBack, since>>

\* listUsers, a page of those after the cursor.
ListUsers(c) ==
  /\ c.op = "more" \/ (c.op = "load" /\ c.request.filter = NoFilter)
  /\ LET last == Min({c.cursor + UsersPerPage, LastUser})
         page == [i \in 1..(last - c.cursor) |-> UserRecord(c.cursor + i)]
     IN UsersReplies(UsersReply(c, TRUE, page, IF last < LastUser THEN last ELSE 0))
  /\ UNCHANGED <<claims, refusals>>

SearchUsers(c) ==
  /\ c.op = "load" /\ c.request.filter # NoFilter
  /\ UsersReplies(UsersReply(c, TRUE, <<UserRecord(c.request.filter)>>, 0))
  /\ UNCHANGED <<claims, refusals>>

\* setCustomClaims, and the user as he is then.
SetCustomClaims(c) ==
  /\ c.op = "save"
  /\ claims' = [claims EXCEPT ![c.uid] = @ + 1]
  /\ UsersReplies(UsersReply(c, TRUE, <<[uid |-> c.uid, claims |-> claims'[c.uid]]>>, 0))
  /\ UNCHANGED refusals

\* An operation fails; one that saves perhaps after it has set the claims.
Refuse(c) ==
  /\ refusals < MaxRefused /\ refusals' = refusals + 1
  /\ \/ UNCHANGED claims
     \/ c.op = "save" /\ claims' = [claims EXCEPT ![c.uid] = @ + 1]
  /\ UsersReplies(UsersReply(c, FALSE, <<>>, 0))

OthersWrite(u) ==
  /\ otherWrites < MaxOthers /\ otherWrites' = otherWrites + 1
  /\ claims' = [claims EXCEPT ![u] = @ + 1]
  /\ UNCHANGED <<refusals, visits, onUsers, usersTab, updatedUsers, usersAsked,
                 usersAnswered, mixed, takenBack, since>>

-----------------------------------------------------------------------------
(***************************************************************************)
(* Answers                                                                 *)
(***************************************************************************)

\* Mutant: whatever is answered is what was asked for.
SameUsersRequest_Any(request) == TRUE

SameUsersRequest(request) == usersTab.active = request

Receives(op, ok) ==
  /\ usersAnswered # <<>> /\ Head(usersAnswered).call.op = op /\ Head(usersAnswered).ok = ok
  /\ usersAnswered' = Tail(usersAnswered)
  /\ UNCHANGED <<usersMain, visits, onUsers, usersAsked>>

\* authUsersLoadSucceeded
UsersLoaded ==
  /\ Receives("load", TRUE)
  /\ LET answer == Head(usersAnswered)
         request == answer.call.request
         lists == request.filter = NoFilter
     IN IF SameUsersRequest(request)
        THEN /\ usersTab' = [usersTab EXCEPT
                  !.active = NoUsersRequest, !.error = FALSE, !.cursor = answer.cursor,
                  !.searched = IF lists THEN @ ELSE answer.items,
                  !.users = IF lists THEN answer.items ELSE @,
                  !.more = answer.cursor # 0,
                  !.fetching = FALSE, !.loading = FALSE, !.loaded = request.filter]
             /\ mixed' = (mixed /\ (~lists \/ Pending("more")))
             /\ takenBack' = (takenBack /\ request.filter # usersTab.filter)
             /\ since' = [u \in Users |-> Max({since[u], answer.call.asOf[u]})]
        ELSE UNCHANGED <<usersTab, mixed, takenBack, since>>
  /\ UNCHANGED updatedUsers

\* authUsersLoadFailed
UsersNotLoaded ==
  /\ Receives("load", FALSE)
  /\ usersTab' = IF SameUsersRequest(Head(usersAnswered).call.request)
                 THEN [usersTab EXCEPT !.active = NoUsersRequest, !.error = TRUE, !.more = FALSE,
                                       !.fetching = FALSE, !.loading = FALSE]
                 ELSE usersTab
  /\ UNCHANGED <<updatedUsers, mixed, takenBack, since>>

\* authUsersLoadMoreSucceeded, whatever the list is by now.
MoreUsersLoaded ==
  /\ Receives("more", TRUE)
  /\ usersTab' = [usersTab EXCEPT
       !.error = FALSE, !.cursor = Head(usersAnswered).cursor,
       !.users = @ \o Head(usersAnswered).items,
       !.more = Head(usersAnswered).cursor # 0, !.fetching = FALSE]
  /\ UNCHANGED <<updatedUsers, mixed, takenBack, since>>

\* authUsersLoadMoreFailed
MoreUsersNotLoaded ==
  /\ Receives("more", FALSE)
  /\ usersTab' = [usersTab EXCEPT !.error = TRUE, !.fetching = FALSE]
  /\ UNCHANGED <<updatedUsers, mixed, takenBack, since>>

\* authCustomClaimsSaveSucceeded
ClaimsSaved ==
  /\ Receives("save", TRUE)
  /\ LET user == Head(Head(usersAnswered).items)
     IN /\ updatedUsers' = [updatedUsers EXCEPT ![user.uid] = user.claims]
        /\ since' = [since EXCEPT ![user.uid] = Max({@, user.claims})]
  /\ UNCHANGED <<usersTab, mixed, takenBack>>

\* authCustomClaimsSaveFailed only tells the dialog.
ClaimsNotSaved ==
  /\ Receives("save", FALSE)
  /\ UNCHANGED <<usersTab, updatedUsers, mixed, takenBack, since>>

UsersTabNext ==
  \/ ShowUsers \/ HideUsers \/ LeaveUsers \/ RefetchUsers \/ LoadMoreUsers
  \/ \E f \in Filters : SetAuthFilter(f)
  \/ \E u \in Users : SaveClaims(u)
  \/ \E u \in OthersUsers : OthersWrite(u)
  \/ \E c \in usersAsked : ListUsers(c) \/ SearchUsers(c) \/ SetCustomClaims(c) \/ Refuse(c)
  \/ UsersLoaded \/ UsersNotLoaded \/ MoreUsersLoaded \/ MoreUsersNotLoaded
  \/ ClaimsSaved \/ ClaimsNotSaved

-----------------------------------------------------------------------------
UserRecords == [uid : Users, claims : Nat \ {0}]

UsersTabTypeOK ==
  /\ claims \in [Users -> Nat \ {0}] /\ updatedUsers \in [Users -> Nat] /\ since \in [Users -> Nat]
  /\ {usersTab.users, usersTab.searched} \subseteq Seq(UserRecords)
  /\ usersTab.filter \in Filters /\ usersTab.loaded \in Filters \cup {NotLoaded}
  /\ usersTab.cursor \in Users \cup {0}
  /\ usersTab.loading <=> usersTab.active # NoUsersRequest
  /\ usersTab.active.runId <= usersTab.runId

\* Once nothing is on its way and no error is shown, the tab shows the users its
\* filter asks for: the one searched for, or the list from its first user on, none
\* twice and none skipped, with more to load exactly if there is more.  The claims
\* are not older than those saved here, nor than the last refresh.  This leaves out
\* what the code does not guard: pages that cross a load, and a filter that is taken
\* back while the other one is loaded (authUsersLoadMoreSucceeded, loadAuthUsersCommand).
ShowsItsUsers ==
  LET n == Len(UserRows)
      still == onUsers /\ Underway = {} /\ ~usersTab.error
      wanted == IF usersTab.filter = NoFilter THEN 1..n ELSE {usersTab.filter}
  IN still /\ ~takenBack /\ ~mixed =>
       /\ {UserRows[i].uid : i \in 1..n} = wanted /\ Cardinality(wanted) = n
       /\ \A i, j \in 1..n : i < j => UserRows[i].uid < UserRows[j].uid
       /\ usersTab.filter = NoFilter => n > 0 /\ (usersTab.more <=> n < LastUser)
       /\ \A i \in 1..n : UserRows[i].claims >= since[UserRows[i].uid]
=============================================================================

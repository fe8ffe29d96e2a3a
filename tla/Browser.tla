------------------------------- MODULE Browser -------------------------------
(***************************************************************************)
(* The parts of the frontend, side by side: Session, ListPages, Favorites  *)
(* and Notifications.  Their stores, pages and requests are different      *)
(* ones, so a step of one part commutes with every step of the others, and *)
(* each property is about one of them: it is enough to let one part run,   *)
(* and which one is chosen at the start.                                   *)
(***************************************************************************)
EXTENDS Naturals

CONSTANTS
    None,
    Tabs, Patient, MaxTokens,                          \* of Session
    Pages, Filters, MaxCalls, MaxVersion, MaxErrors,   \* of ListPages
    Hasty,                                             \* of Favorites
    Ids, PageSize, MaxLost,                            \* of Notifications
    Users, Calls,                                      \* of Favorites, and of several
    Pair                                               \* requests of Session and Notifications

VARIABLES
    part,                                                               \* the part that runs
    owner, expired, token, user, saved, at, sessionCalls,               \* of Session
    page, filter, store, version, written, listCalls, errors, crossed,  \* of ListPages
    there, favorites, favorited, told, favoriteCalls,                    \* of Favorites
    rows, read, list, shown, noticeCalls, noticeLost, mixed              \* of Notifications

S == INSTANCE Session WITH calls <- sessionCalls, Calls <- Pair
L == INSTANCE ListPages WITH calls <- listCalls
F == INSTANCE Favorites WITH calls <- favoriteCalls
N == INSTANCE Notifications WITH calls <- noticeCalls, lost <- noticeLost, Calls <- Pair

ASSUME PatientAssumption == Patient \subseteq Tabs

\* None is no request, no user, no token or version, and no answer.
ASSUME NoRequestAssumption == None \notin F!Request /\ None \notin S!Call
ASSUME NoValueAssumption == None \notin Users /\ None \notin Nat /\ None # "401"

sessionVars == <<owner, expired, token, user, saved, at, sessionCalls>>

listVars == <<page, filter, store, version, written, listCalls, errors, crossed>>

favoriteVars == <<there, favorites, favorited, told, favoriteCalls>>

noticeVars == <<rows, read, list, shown, noticeCalls, noticeLost, mixed>>

vars == <<part, sessionVars, listVars, favoriteVars, noticeVars>>

Init ==
    /\ part \in {"session", "lists", "favorites", "notifications"}
    /\ S!Init /\ L!Init /\ F!Init /\ N!Init

Next ==
    /\ UNCHANGED part
    /\ \/ part = "session" /\ S!Next /\ UNCHANGED <<listVars, favoriteVars, noticeVars>>
       \/ part = "lists" /\ L!Next /\ UNCHANGED <<sessionVars, favoriteVars, noticeVars>>
       \/ part = "favorites" /\ F!Next /\ UNCHANGED <<sessionVars, listVars, noticeVars>>
       \/ part = "notifications" /\ N!Next /\ UNCHANGED <<sessionVars, listVars, favoriteVars>>

Spec == Init /\ [][Next]_vars

-----------------------------------------------------------------------------
\* Session: a patient tab shows the user the server takes its token for.
ShownUserIsTheTokens == S!ShownUserIsTheTokens

\* Session: a login lasts until its user logs out or its token expires.
LoginLasts == S!LoginLasts

\* ListPages: a page that waits for nothing shows the list its filter asks for.
SettledListIsTheOneAsked == L!SettledListIsTheOneAsked

\* Favorites: the activity is at most once among a user's favourites.
FavoritedAtMostOnce == F!FavoritedAtMostOnce

\* Favorites: the button of a user who waits for the answers, and got a good
\* one last, shows what the table says.
ButtonTellsTheTruth == F!ButtonTellsTheTruth

\* Notifications: what is shown as read is read in the table, too.
ShownReadIsRead == N!ShownReadIsRead
=============================================================================

------------------------------ MODULE Favorites ------------------------------
(***************************************************************************)
(* Favouriting one activity, from the button of pages/ActivityDetail.vue   *)
(* to internal/service/favorite_service.go and back.  A page keeps a flag, *)
(* asks the server to add or remove by the flag, and sets it by the answer.*)
(*                                                                         *)
(* A call is one request with its handler: a statement per step, each of   *)
(* which may fail, then the answer, which may arrive in any order with     *)
(* others; one that is lost is to the page an error like any other.        *)
(***************************************************************************)
EXTENDS Naturals

CONSTANTS
    Users,        \* users, each with the page open at most once
    Calls,        \* requests that can be under way at once
    Hasty,        \* those who click or reload before the last answer
    None

VARIABLES
    there,      \* whether the activity is in the table
    favorites,  \* rows of table favorites per user
    favorited,  \* the page's flag, None without a page
    told,       \* whether the flag is what an answer said, with no error since
    calls       \* requests under way

vars == <<there, favorites, favorited, told, calls>>

\* Success; the page's list with the activity, without it, or cut before it;
\* 404 or 409; 500 or nothing that arrives.
Answers == {"ok", "listed", "unlisted", "cut", "refused", "error"}

Places == Answers \cup {"get", "exists", "create", "delete", "list"}

\* A request: whose, for what, its next statement or its answer, and whether
\* the page that sent it is still there.
Request ==
    [user : Users, kind : {"load", "add", "remove"}, at : Places, live : BOOLEAN]

Init ==
    /\ there = TRUE
    /\ favorites \in [Users -> {0, 1}]
    /\ favorited = [u \in Users |-> None]
    /\ told = [u \in Users |-> FALSE]
    /\ calls = [k \in Calls |-> None]

UnderWay(u) == {k \in Calls : calls[k] # None /\ calls[k].user = u}

-----------------------------------------------------------------------------
(* The page.                                                               *)

Send(k, u, kind, at) ==
    /\ calls[k] = None
    /\ u \in Hasty \/ UnderWay(u) = {}
    /\ calls' = [j \in Calls |->
         CASE j = k -> [user |-> u, kind |-> kind, at |-> at, live |-> TRUE]
           [] kind = "load" /\ j \in UnderWay(u) -> [calls[j] EXCEPT !.live = FALSE]
           [] OTHER -> calls[j]]
    /\ UNCHANGED <<there, favorites>>

\* The page is opened, and shows nothing before it has the activity; what is
\* still under way for an earlier page reaches no page.
Load(k, u) ==
    /\ Send(k, u, "load", "get")
    /\ favorited' = [favorited EXCEPT ![u] = None]
    /\ told' = [told EXCEPT ![u] = FALSE]

ToggleFavorite(k, u) ==
    /\ favorited[u] # None
    /\ IF favorited[u] THEN Send(k, u, "remove", "delete") ELSE Send(k, u, "add", "get")
    /\ UNCHANGED <<favorited, told>>

\* What the answer of a call makes of the flag; an error leaves it.
Shown(u, kind, at) ==
    CASE kind = "add" /\ at = "ok" -> TRUE
      [] kind = "remove" /\ at = "ok" -> FALSE
      [] at = "listed" -> TRUE
      [] at \in {"unlisted", "cut"} -> FALSE
      [] OTHER -> favorited[u]

\* Whether the flag is then what the server said: a refusal says nothing new,
\* and a list that was cut or an error leaves it open.
Told(u, at) == at \in {"ok", "listed", "unlisted"} \/ (at = "refused" /\ told[u])

Answered(k) == calls[k] # None /\ calls[k].at \in Answers

Deliver(k) ==
    /\ Answered(k)
    /\ LET c == calls[k] IN
         /\ favorited' = IF c.live
                         THEN [favorited EXCEPT ![c.user] = Shown(c.user, c.kind, c.at)]
                         ELSE favorited
         /\ told' = IF c.live THEN [told EXCEPT ![c.user] = Told(c.user, c.at)] ELSE told
    /\ calls' = [calls EXCEPT ![k] = None]
    /\ UNCHANGED <<there, favorites>>

-----------------------------------------------------------------------------
(* The handlers.                                                           *)

Doing(k, at) == calls[k] # None /\ calls[k].at = at

Move(k, at) ==
    /\ calls' = [calls EXCEPT ![k].at = at]
    /\ UNCHANGED <<there, told>>

\* activitySvc.Get, for Add and for the detail that the page loads first: with
\* it the button is there, not lit, and the favourites are asked for.
Get(k) ==
    /\ Doing(k, "get")
    /\ Move(k, CASE ~there -> "refused"
                 [] calls[k].kind = "add" -> "exists"
                 [] OTHER -> "list")
    /\ favorited' = IF there /\ calls[k].kind = "load" /\ calls[k].live
                     THEN [favorited EXCEPT ![calls[k].user] = FALSE]
                     ELSE favorited
    /\ UNCHANGED favorites

Exists(k) ==
    /\ Doing(k, "exists")
    /\ Move(k, IF favorites[calls[k].user] > 0 THEN "refused" ELSE "create")
    /\ UNCHANGED <<favorites, favorited>>

\* Fault variant: a schema without the unique key.
CreateNoKey(k) ==
    /\ Doing(k, "create")
    /\ Move(k, "ok")
    /\ favorites' = [favorites EXCEPT ![calls[k].user] = @ + 1]
    /\ UNCHANGED favorited

\* The INSERT, or the unique key on (user_id, activity_id) makes it an error.
Create(k) ==
    /\ Doing(k, "create")
    /\ \/ /\ favorites[calls[k].user] = 0
          /\ Move(k, "ok")
          /\ favorites' = [favorites EXCEPT ![calls[k].user] = 1]
       \/ /\ favorites[calls[k].user] > 0
          /\ Move(k, "error")
          /\ UNCHANGED favorites
    /\ UNCHANGED favorited

\* Fault variant: WHERE activity_id = ? only.
DeleteOfEveryone(k) ==
    /\ Doing(k, "delete")
    /\ Move(k, "ok")
    /\ favorites' = [u \in Users |-> 0]
    /\ UNCHANGED favorited

\* DeleteByUserActivity, also of nothing.
Delete(k) ==
    /\ Doing(k, "delete")
    /\ Move(k, "ok")
    /\ favorites' = [favorites EXCEPT ![calls[k].user] = 0]
    /\ UNCHANGED favorited

\* listMyFavorites, of which the page looks for its activity.  It asks for 200:
\* of a user who has more, which the model leaves open, it may get a page
\* without it.
List(k) ==
    /\ Doing(k, "list")
    /\ \/ favorites[calls[k].user] > 0 /\ (Move(k, "listed") \/ Move(k, "cut"))
       \/ favorites[calls[k].user] = 0 /\ Move(k, "unlisted")
    /\ UNCHANGED <<favorites, favorited>>

\* A statement fails and wrapError answers 500, or the answer is lost on its way
\* back: the INSERT or the DELETE may then have been done.
Fails(k) ==
    /\ calls[k] # None /\ calls[k].at \notin Answers
    /\ LET u == calls[k].user IN
         \/ UNCHANGED favorites
         \/ Doing(k, "create") /\ favorites' = [favorites EXCEPT ![u] = 1]
         \/ Doing(k, "delete") /\ favorites' = [favorites EXCEPT ![u] = 0]
    /\ Move(k, "error")
    /\ UNCHANGED favorited

Handle(k) == Get(k) \/ Exists(k) \/ Create(k) \/ Delete(k) \/ List(k) \/ Fails(k)

\* The organizer deletes the activity; favourites of it stay.
DeleteActivity ==
    /\ there
    /\ there' = FALSE
    /\ UNCHANGED <<favorites, favorited, told, calls>>

Next ==
    \/ \E k \in Calls, u \in Users : Load(k, u) \/ ToggleFavorite(k, u)
    \/ \E k \in Calls : Handle(k) \/ Deliver(k)
    \/ DeleteActivity

Spec == Init /\ [][Next]_vars

-----------------------------------------------------------------------------
\* However often and wherever a user clicks, the activity is at most once among
\* the user's favourites.
FavoritedAtMostOnce == \A u \in Users : favorites[u] <= 1

\* The page of a user who waits for the answers shows what the table says
\* whenever it waits for none and has been told, whatever the others do: it is
\* wrong only after a click or a list that got no good answer, or a list of 200
\* in which the activity had no place.
ButtonTellsTheTruth ==
    \A u \in Users \ Hasty :
        UnderWay(u) = {} /\ told[u] => favorited[u] = (favorites[u] > 0)
=============================================================================

------------------------------ MODULE Comments ------------------------------
(***************************************************************************)
(* The comments of one activity: internal/service/comment_service.go, the  *)
(* repository and the handler.  Every statement is a transaction of its    *)
(* own; Create and Delete look first and write in a second statement.      *)
(* List only reads.                                                        *)
(***************************************************************************)
EXTENDS Integers

CONSTANTS
    Workers,     \* goroutines, each serving one request at a time
    Users,       \* accounts
    Admins,      \* those with the role admin
    CommentIds,  \* ids AUTO_INCREMENT can give
    Asked,       \* ratings that requests ask for
    None

VARIABLES
    open,   \* whether the activity is there
    rows,   \* table comments: the author and the rating of an id
    used,   \* ids given out
    job     \* what a worker is about, None when it is idle

vars == <<open, rows, used, job>>

Init ==
    /\ open = TRUE
    /\ rows = [c \in CommentIds |-> None]
    /\ used = {}
    /\ job = [p \in Workers |-> None]

Begin(p, j) == job[p] = None /\ job' = [job EXCEPT ![p] = j]

Doing(p, step) == job[p] # None /\ job[p].step = step

Done(p) == job' = [job EXCEPT ![p] = None]

\* Create: the rating is in range and the activity is there.
CreateFind(p, u, rating) ==
    /\ rating \in 1 .. 5
    /\ open
    /\ Begin(p, [step |-> "insert", user |-> u, rating |-> rating])
    /\ UNCHANGED <<open, rows, used>>

\* Fault variant: an id that was given out before.
CreateInsertReusing(p) ==
    /\ Doing(p, "insert")
    /\ \E c \in CommentIds :
         /\ rows[c] = None
         /\ rows' = [rows EXCEPT ![c] = [user |-> job[p].user, rating |-> job[p].rating]]
         /\ used' = used \cup {c}
    /\ Done(p)
    /\ UNCHANGED open

CreateInsert(p) ==
    /\ Doing(p, "insert")
    /\ \E c \in CommentIds \ used :
         /\ rows' = [rows EXCEPT ![c] = [user |-> job[p].user, rating |-> job[p].rating]]
         /\ used' = used \cup {c}
    /\ Done(p)
    /\ UNCHANGED open

\* Delete: the comment is there, and the operator is its author or an admin.
DeleteFind(p, u, c) ==
    /\ rows[c] # None
    /\ u \in Admins \/ rows[c].user = u
    /\ Begin(p, [step |-> "delete", user |-> u, id |-> c])
    /\ UNCHANGED <<open, rows, used>>

\* The DELETE is by the id only, and does not mind that the row is gone.
Delete(p) ==
    /\ Doing(p, "delete")
    /\ rows' = [rows EXCEPT ![job[p].id] = None]
    /\ Done(p)
    /\ UNCHANGED <<open, used>>

\* A statement fails, or the process stops.
StatementFails(p) == job[p] # None /\ Done(p) /\ UNCHANGED <<open, rows, used>>

\* The organizer deletes the activity; its comments stay.
DeleteActivity == open /\ open' = FALSE /\ UNCHANGED <<rows, used, job>>

Next ==
    \/ \E p \in Workers :
          \/ \E u \in Users, rating \in Asked : CreateFind(p, u, rating)
          \/ \E u \in Users, c \in CommentIds : DeleteFind(p, u, c)
          \/ CreateInsert(p) \/ Delete(p) \/ StatementFails(p)
    \/ DeleteActivity

Spec == Init /\ [][Next]_vars

-----------------------------------------------------------------------------
\* The owner is checked on the row that FindByID read, the DELETE is by id: all
\* the same, a comment disappears only by a request of its author or an admin.
OnlyTheirsAreDeleted ==
    [][\A c \in CommentIds :
         rows[c] # None /\ rows'[c] = None =>
             \E p \in Workers :
                 /\ job[p] # None /\ job'[p] = None
                 /\ job[p].user \in Admins \cup {rows[c].user}]_vars
=============================================================================

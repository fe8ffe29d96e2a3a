---------------------------- MODULE Notifications ----------------------------
(***************************************************************************)
(* The read flags of one user's notifications: table notifications behind  *)
(* internal/service/notification_service.go, and the list that             *)
(* stores/notificationStore.ts shows.  The store sets its own flags when   *)
(* the server has answered, without asking for the list again.             *)
(***************************************************************************)
EXTENDS Naturals, Sequences

CONSTANTS
    Ids,       \* notifications
    Calls,     \* requests that can be under way at once
    PageSize,  \* notifications in an answer of the list
    MaxLost,   \* bound on the requests and answers that are lost
    None

VARIABLES
    rows,   \* the notifications that are there, oldest first
    read,   \* those with is_read
    list,   \* the ids that the store lists
    shown,  \* those that it shows as read
    calls,  \* requests under way
    lost,   \* requests and answers lost so far
    mixed   \* whether a list came in between the UPDATE of a markAll and its answer

vars == <<rows, read, list, shown, calls, lost, mixed>>

Init ==
    /\ rows = <<>>
    /\ read = {}
    /\ list = {}
    /\ shown = {}
    /\ calls = [k \in Calls |-> None]
    /\ lost = 0
    /\ mixed = FALSE

Rows == {rows[i] : i \in DOMAIN rows}

\* A sign-up, a review or a check-in of the user commits.
Notify(n) ==
    /\ n \notin Rows
    /\ rows' = Append(rows, n)
    /\ UNCHANGED <<read, list, shown, calls, lost, mixed>>

Send(k, kind, ids) ==
    /\ calls[k] = None
    /\ calls' = [calls EXCEPT ![k] = [kind |-> kind, ids |-> ids, got |-> None]]
    /\ UNCHANGED <<rows, read, list, shown, lost, mixed>>

FetchMine(k) == Send(k, "list", {})

MarkReadOne(k, n) == n \in list \ shown /\ Send(k, "one", {n})

MarkAll(k) == Send(k, "all", {})

\* The newest notifications of the user.
Newest == {rows[i] : i \in {j \in DOMAIN rows : j + PageSize > Len(rows)}}

\* ListByUser: a list and its flags.
HandleList(k) ==
    /\ calls[k] # None /\ calls[k].kind = "list" /\ calls[k].got = None
    /\ calls' = [calls EXCEPT ![k].got = [list |-> Newest, read |-> read \cap Newest]]
    /\ UNCHANGED <<rows, read, list, shown, lost, mixed>>

\* Fault variant: one notification is marked by its place, not by its id.
HandleMarkFirst(k) ==
    /\ calls[k] # None /\ calls[k].kind # "list" /\ calls[k].got = None
    /\ rows # <<>>
    /\ read' = read \cup IF calls[k].kind = "all" THEN Rows ELSE {rows[1]}
    /\ calls' = [calls EXCEPT ![k].got = [list |-> {}, read |-> {}]]
    /\ UNCHANGED <<rows, list, shown, lost, mixed>>

\* MarkRead and MarkAllRead: one UPDATE each.
HandleMark(k) ==
    /\ calls[k] # None /\ calls[k].kind # "list" /\ calls[k].got = None
    /\ read' = read \cup IF calls[k].kind = "all" THEN Rows ELSE calls[k].ids
    /\ calls' = [calls EXCEPT ![k].got = [list |-> {}, read |-> {}]]
    /\ UNCHANGED <<rows, list, shown, lost, mixed>>

Answered(k) == calls[k] # None /\ calls[k].got # None

\* The continuation of the store's action: the list is replaced, or the flags
\* of what is listed now are set.
Deliver(k) ==
    LET c == calls[k] IN
    /\ Answered(k)
    /\ list' = IF c.kind = "list" THEN c.got.list ELSE list
    /\ shown' = CASE c.kind = "list" -> c.got.read
                  [] c.kind = "one"  -> shown \cup (c.ids \cap list)
                  [] OTHER           -> list
    /\ calls' = [calls EXCEPT ![k] = None]
    /\ mixed' = (mixed \/ (c.kind = "list" /\ \E j \in Calls : Answered(j) /\ calls[j].kind = "all"))
    /\ UNCHANGED <<rows, read, lost>>

\* A request fails, or its answer is lost: the store does nothing.
Lose(k) ==
    /\ calls[k] # None
    /\ lost < MaxLost
    /\ lost' = lost + 1
    /\ calls' = [calls EXCEPT ![k] = None]
    /\ UNCHANGED <<rows, read, list, shown, mixed>>

Next ==
    \/ \E n \in Ids : Notify(n)
    \/ \E k \in Calls :
          \/ FetchMine(k) \/ MarkAll(k)
          \/ \E n \in Ids : MarkReadOne(k, n)
          \/ HandleList(k) \/ HandleMark(k)
          \/ Deliver(k) \/ Lose(k)

Spec == Init /\ [][Next]_vars

-----------------------------------------------------------------------------
\* What notificationStore shows as read is read in the table, too, whatever
\* came in, was lost or overtook what meanwhile: after a reload nothing turns
\* unread again, and no notification that arrived meanwhile is passed over
\* unseen; but for a list that comes in between a markAll and its answer, all
\* of which the answer flags.
ShownReadIsRead == ~mixed => shown \subseteq read
=============================================================================

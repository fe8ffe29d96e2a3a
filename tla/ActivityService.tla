--------------------------- MODULE ActivityService ---------------------------
(***************************************************************************)
(* The activity handlers: internal/service/activity_service.go with the    *)
(* repository calls it makes.  Update, Publish, End and Delete read a row  *)
(* with a plain SELECT, decide on that struct, and write the whole struct  *)
(* back in a statement of its own, outside any transaction.                *)
(***************************************************************************)
EXTENDS Database

\* Only the owner or an admin goes past the forbidden check.
MayManage(u, a) == u \in Organizers /\ IsOrganizer(u, activities[a].organizer)

\* POST /activities: one INSERT, of any of the three statuses and with a
\* deadline that may already be over.
CreateActivity(p) ==
    /\ "createActivity" \in Operations
    /\ At(p, "idle")
    /\ \E a \in ActivityIds \ allocated, u \in Organizers, c \in Capacities,
          s \in ActivityStatus, late \in BOOLEAN :
         /\ activities' = [activities EXCEPT ![a] =
                             [status |-> s, capacity |-> c, organizer |-> u]]
         /\ allocated' = allocated \cup {a}
         /\ expired' = IF late THEN expired \cup {a} ELSE expired
    /\ UNCHANGED <<registrations, checkIns, notifications, locks, pc, job>>

\* PUT /activities/:id: FindByID, then the struct with the request's fields.
UpdateFind(p) ==
    \E a \in ActivityIds, u \in Users, c \in Capacities :
        /\ Activity(a)
        /\ MayManage(u, a)
        /\ Begin(p, "update", "activitySave",
                 [NoJob EXCEPT !.aid = a,
                               !.act = [activities[a] EXCEPT !.capacity = c]])
        /\ UNCHANGED <<tables, locks>>

\* POST /activities/:id/publish: draft -> published in the struct.
PublishFind(p) ==
    \E a \in ActivityIds, u \in Users :
        /\ Activity(a)
        /\ MayManage(u, a)
        /\ activities[a].status = "draft"
        /\ Begin(p, "publish", "activitySave",
                 [NoJob EXCEPT !.aid = a,
                               !.act = [activities[a] EXCEPT !.status = "published"]])
        /\ UNCHANGED <<tables, locks>>

\* POST /activities/:id/end: published -> ended in the struct.
EndFind(p) ==
    \E a \in ActivityIds, u \in Users :
        /\ Activity(a)
        /\ MayManage(u, a)
        /\ activities[a].status = "published"
        /\ Begin(p, "end", "activitySave",
                 [NoJob EXCEPT !.aid = a,
                               !.act = [activities[a] EXCEPT !.status = "ended"]])
        /\ UNCHANGED <<tables, locks>>

\* repo.Update is gorm's Save: an UPDATE of every column, which waits for a
\* transaction that holds the row; when the row is gone Save inserts it again.
ActivitySave(p) ==
    /\ At(p, "activitySave")
    /\ activityLock[job[p].aid] = None
    /\ activities' = [activities EXCEPT ![job[p].aid] = job[p].act]
    /\ Return(p)
    /\ UNCHANGED <<allocated, expired, registrations, checkIns, notifications, locks>>

\* DELETE /activities/:id: FindByID, then a DELETE that leaves the
\* registrations, records and notifications of the activity where they are.
DeleteFind(p) ==
    \E a \in ActivityIds, u \in Users :
        /\ Activity(a)
        /\ MayManage(u, a)
        /\ Begin(p, "delete", "activityDelete", [NoJob EXCEPT !.aid = a])
        /\ UNCHANGED <<tables, locks>>

ActivityDelete(p) ==
    /\ At(p, "activityDelete")
    /\ activityLock[job[p].aid] = None
    /\ activities' = [activities EXCEPT ![job[p].aid] = None]
    /\ Return(p)
    /\ UNCHANGED <<allocated, expired, registrations, checkIns, notifications, locks>>

\* The clock passes the signup_deadline of an activity.
DeadlinePasses ==
    \E a \in allocated \ expired :
        /\ expired' = expired \cup {a}
        /\ UNCHANGED <<activities, allocated, registrations, checkIns,
                       notifications, locks, pc, job>>

\* A worker takes a request ...
ActivityRequest(p) ==
    \/ CreateActivity(p)
    \/ UpdateFind(p)
    \/ PublishFind(p)
    \/ EndFind(p)
    \/ DeleteFind(p)

\* ... and goes on with it.
ActivityWork(p) == ActivitySave(p) \/ ActivityDelete(p)

-----------------------------------------------------------------------------
(* What the other services ask of this one.                                *)

\* Registrations of an activity that are not cancelled.
CountRegistered(a) ==
    Cardinality({r \in RegistrationIds :
        /\ Registered(r)
        /\ registrations[r].activity = a
        /\ registrations[r].status # "cancelled"})

\* The activity takes registrations: it exists, is published, and its deadline
\* has not passed (the clock is read right after the row).
OpenForSignup(a) ==
    /\ Activity(a)
    /\ activities[a].status = "published"
    /\ a \notin expired

\* Fault variant: off by one.
HasRoomForOneMore(a, act) == act.capacity = 0 \/ CountRegistered(a) <= act.capacity

\* The capacity in the struct that was read (0: no limit) is not used up.
HasRoom(a, act) == act.capacity = 0 \/ CountRegistered(a) < act.capacity
=============================================================================

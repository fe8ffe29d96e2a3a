------------------------- MODULE RegistrationService -------------------------
(***************************************************************************)
(* The registration handlers: internal/service/registration_service.go.    *)
(* Create and Review run in a transaction behind a row lock (of the        *)
(* activity, of the registration); Cancel and OfflineCreate are plain      *)
(* statements, each committed on its own.                                  *)
(***************************************************************************)
EXTENDS ActivityService

\* Fault variant: the duplicate check skips cancelled registrations.
SignedUpAndOpen(a, u) ==
    \E r \in RegistrationIds :
        /\ Registered(r)
        /\ registrations[r].activity = a
        /\ registrations[r].user = u
        /\ registrations[r].status # "cancelled"

SignedUp(a, u) ==
    \E r \in RegistrationIds :
        /\ Registered(r)
        /\ registrations[r].activity = a
        /\ registrations[r].user = u

\* Fault variant: the two status columns swapped.
NewRegistrationSwapped(a, u, v, review) ==
    [activity |-> a, user |-> u, voucher |-> v,
     status |-> review, review |-> "registered"]

NewRegistration(a, u, v, review) ==
    [activity |-> a, user |-> u, voucher |-> v,
     status |-> "registered", review |-> review]

\* The INSERT cannot be done: a committed row has the key, or no id is left.
InsertFails(row) == DuplicateKey(row) \/ FreshIds = {}

-----------------------------------------------------------------------------
(* POST /registrations: Create.                                            *)

SignupBegin(p) ==
    \E u \in Users, a \in allocated :
        /\ Begin(p, "signup", "signupLock", [NoJob EXCEPT !.user = u, !.aid = a])
        /\ UNCHANGED <<tables, locks>>

\* Fault variant: CheckRegistrationLimit's plain read inside the transaction.
SignupLockPlainRead(p) ==
    LET a == job[p].aid IN
    /\ At(p, "signupLock")
    /\ \/ /\ OpenForSignup(a)
          /\ job' = [job EXCEPT ![p].act = activities[a]]
          /\ Goto(p, "signupCheck")
          /\ UNCHANGED <<tables, locks>>
       \/ ~OpenForSignup(a) /\ Rollback(p)

\* CheckRegistrationLimitTx locks the activity row and judges it.
SignupLock(p) ==
    LET a == job[p].aid IN
    /\ At(p, "signupLock")
    /\ activityLock[a] = None
    /\ \/ /\ OpenForSignup(a)
          /\ LockActivity(p, a)
          /\ job' = [job EXCEPT ![p].act = activities[a]]
          /\ Goto(p, "signupCheck")
          /\ UNCHANGED tables
       \/ ~OpenForSignup(a) /\ Rollback(p)

\* Fault variant: an early return that does not roll the transaction back.
SignupCheckNoRollback(p) ==
    LET a == job[p].aid
        admitted == HasRoom(a, job[p].act) /\ ~SignedUp(a, job[p].user)
    IN  /\ At(p, "signupCheck")
        /\ \/ admitted /\ Goto(p, "signupInsert") /\ UNCHANGED job
           \/ ~admitted /\ Return(p)
        /\ UNCHANGED <<tables, locks>>

\* The count opens the transaction's snapshot, the duplicate check reads the
\* same one: both see the rows committed when the count runs.
SignupCheck(p) ==
    LET a == job[p].aid
        admitted == HasRoom(a, job[p].act) /\ ~SignedUp(a, job[p].user)
    IN  /\ At(p, "signupCheck")
        /\ \/ admitted /\ Goto(p, "signupInsert") /\ UNCHANGED <<tables, locks, job>>
           \/ ~admitted /\ Rollback(p)

SignupInsert(p) ==
    /\ At(p, "signupInsert")
    /\ \E v \in Vouchers :
         LET row == NewRegistration(job[p].aid, job[p].user, v, "pending") IN
         \/ /\ ~InsertFails(row)
            /\ ~BlockedInsert(p, row)
            /\ \E r \in FreshIds :
                 job' = [job EXCEPT ![p].rid = r, ![p].reg = row,
                                    ![p].dirty = {"registration"}]
            /\ Goto(p, "signupNotify")
            /\ UNCHANGED <<tables, locks>>
         \/ InsertFails(row) /\ Rollback(p)

\* Fault variant: CreateSignupNotification, outside the transaction.
SignupNotifyNoTx(p) ==
    /\ At(p, "signupNotify")
    /\ notifications' = [notifications EXCEPT ![job[p].rid]["signup_success"] = @ + 1]
    /\ Goto(p, "signupCommit")
    /\ UNCHANGED <<activities, allocated, expired, registrations, checkIns, locks, job>>

SignupNotify(p) ==
    /\ At(p, "signupNotify")
    /\ job' = [job EXCEPT ![p].dirty = @ \cup {"signup_success"}]
    /\ Goto(p, "signupCommit")
    /\ UNCHANGED <<tables, locks>>

SignupCommit(p) == At(p, "signupCommit") /\ Commit(p)

-----------------------------------------------------------------------------
(* POST /registrations/:id/cancel: Cancel.                                 *)

\* A plain SELECT; the struct that is judged is the struct that is saved.
CancelFind(p) ==
    \E r \in RegistrationIds, u \in Users :
        /\ Registered(r)
        /\ Role[u] = "admin" \/ registrations[r].user = u
        /\ registrations[r].status = "registered"
        /\ Begin(p, "cancel", "cancelSave",
                 [NoJob EXCEPT !.rid = r,
                               !.reg = [registrations[r] EXCEPT !.status = "cancelled"]])
        /\ UNCHANGED <<tables, locks>>

\* Save writes every column of the struct, once no transaction has the row.
CancelSave(p) ==
    /\ At(p, "cancelSave")
    /\ registrationLock[job[p].rid] = None
    /\ registrations' = [registrations EXCEPT ![job[p].rid] = job[p].reg]
    /\ Return(p)
    /\ UNCHANGED <<activities, allocated, expired, checkIns, notifications, locks>>

-----------------------------------------------------------------------------
(* POST /registrations/:id/review: Review.                                 *)

ReviewBegin(p) ==
    \E r \in RegistrationIds, u \in Organizers :
        /\ Registered(r)
        /\ Begin(p, "review", "reviewLock", [NoJob EXCEPT !.user = u, !.rid = r])
        /\ UNCHANGED <<tables, locks>>

\* Fault variant: FindByID instead of FindByIDForUpdate.
ReviewLockPlainRead(p) ==
    /\ At(p, "reviewLock")
    /\ job' = [job EXCEPT ![p].reg = registrations[job[p].rid]]
    /\ Goto(p, "reviewActivity")
    /\ UNCHANGED <<tables, locks>>

\* FindByIDForUpdate; registrations are never deleted, so it finds the row.
ReviewLock(p) ==
    LET r == job[p].rid IN
    /\ At(p, "reviewLock")
    /\ LockRegistration(p, r)
    /\ job' = [job EXCEPT ![p].reg = registrations[r]]
    /\ Goto(p, "reviewActivity")
    /\ UNCHANGED tables

\* Fault variant: no check that the review is still pending.
ReviewActivityAnyStatus(p) ==
    LET a == job[p].reg.activity
        allowed == Activity(a) /\ IsOrganizer(job[p].user, activities[a].organizer)
    IN  /\ At(p, "reviewActivity")
        /\ \/ allowed /\ Goto(p, "reviewSave") /\ UNCHANGED <<tables, locks, job>>
           \/ ~allowed /\ Rollback(p)

\* activitySvc.Get reads the activity on a connection of its own.
ReviewActivity(p) ==
    LET a == job[p].reg.activity
        allowed == /\ Activity(a)
                   /\ IsOrganizer(job[p].user, activities[a].organizer)
                   /\ job[p].reg.review = "pending"
    IN  /\ At(p, "reviewActivity")
        /\ \/ allowed /\ Goto(p, "reviewSave") /\ UNCHANGED <<tables, locks, job>>
           \/ ~allowed /\ Rollback(p)

\* The request binding allows the two decisions only.
ReviewSave(p) ==
    /\ At(p, "reviewSave")
    /\ \E decision \in {"approved", "rejected"} :
         job' = [job EXCEPT ![p].reg.review = decision,
                            ![p].dirty = {"registration"}]
    /\ Goto(p, "reviewNotify")
    /\ UNCHANGED <<tables, locks>>

ReviewNotify(p) ==
    /\ At(p, "reviewNotify")
    /\ job' = [job EXCEPT ![p].dirty = @ \cup {"review_result"}]
    /\ Goto(p, "reviewCommit")
    /\ UNCHANGED <<tables, locks>>

ReviewCommit(p) == At(p, "reviewCommit") /\ Commit(p)

-----------------------------------------------------------------------------
(* POST /registrations/offline: OfflineCreate, for the operator's own id.  *)

\* CheckRegistrationLimit reads the activity and judges it ...
OfflineFind(p) ==
    \E u \in Organizers, a \in ActivityIds :
        /\ OpenForSignup(a)
        /\ Begin(p, "offline", "offlineCount",
                 [NoJob EXCEPT !.user = u, !.aid = a, !.act = activities[a]])
        /\ UNCHANGED <<tables, locks>>

\* ... then counts in a statement of its own.
OfflineCount(p) ==
    LET room == HasRoom(job[p].aid, job[p].act) IN
    /\ At(p, "offlineCount")
    /\ \/ room /\ Goto(p, "offlineInsert") /\ UNCHANGED <<tables, locks, job>>
       \/ ~room /\ Rollback(p)

OfflineInsert(p) ==
    /\ At(p, "offlineInsert")
    /\ \E v \in Vouchers :
         LET row == NewRegistration(job[p].aid, job[p].user, v, "approved") IN
         \/ /\ ~InsertFails(row)
            /\ ~BlockedInsert(p, row)
            /\ \E r \in FreshIds : registrations' = [registrations EXCEPT ![r] = row]
            /\ Return(p)
            /\ UNCHANGED <<activities, allocated, expired, checkIns, notifications, locks>>
         \/ InsertFails(row) /\ Rollback(p)

-----------------------------------------------------------------------------
\* The steps a worker takes once it has a request; the others take one.
RegistrationWork(p) ==
    \/ SignupLock(p)
    \/ SignupCheck(p)
    \/ SignupInsert(p)
    \/ SignupNotify(p)
    \/ SignupCommit(p)
    \/ CancelSave(p)
    \/ ReviewLock(p)
    \/ ReviewActivity(p)
    \/ ReviewSave(p)
    \/ ReviewNotify(p)
    \/ ReviewCommit(p)
    \/ OfflineCount(p)
    \/ OfflineInsert(p)

RegistrationRequest(p) ==
    \/ SignupBegin(p)
    \/ CancelFind(p)
    \/ ReviewBegin(p)
    \/ OfflineFind(p)
=============================================================================

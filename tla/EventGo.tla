------------------------------- MODULE EventGo -------------------------------
(***************************************************************************)
(* The backend: any number of workers (gin runs one goroutine per request) *)
(* interleave the steps of the activity, registration and check-in         *)
(* handlers over one database.  A statement may fail, and the process may  *)
(* stop between any two of them.                                           *)
(***************************************************************************)
EXTENDS Integers, RegistrationService, CheckInService

\* A started system.  ActivityIds and RegistrationIds are the ids of activities
\* that organizers created and of the registrations still to come for them; the
\* preset rows of init.sql and seed.go are of other activities.
Init ==
    /\ activities \in [ActivityIds -> {None} \cup
         {row \in ActivityRow : row.organizer \in Organizers}]
    /\ allocated = {a \in ActivityIds : Activity(a)}
    /\ expired = {}
    /\ registrations = [r \in RegistrationIds |-> None]
    /\ checkIns = [r \in RegistrationIds |-> 0]
    /\ notifications = [r \in RegistrationIds |-> [t \in NotificationType |-> 0]]
    /\ activityLock = [a \in ActivityIds |-> None]
    /\ registrationLock = [r \in RegistrationIds |-> None]
    /\ pc = [p \in Workers |-> "idle"]
    /\ job = [p \in Workers |-> NoJob]

\* A statement fails (lost connection, lock wait timeout, deadlock victim).
StatementFails(p) == ~At(p, "idle") /\ Rollback(p)

\* The process dies, or Shutdown gives up on the handlers after its timeout;
\* MySQL rolls the open transactions back.
Crash ==
    /\ pc' = [p \in Workers |-> "idle"]
    /\ job' = [p \in Workers |-> NoJob]
    /\ activityLock' = [a \in ActivityIds |-> None]
    /\ registrationLock' = [r \in RegistrationIds |-> None]
    /\ UNCHANGED tables

Request(p) == ActivityRequest(p) \/ RegistrationRequest(p) \/ CheckInRequest(p)

Work(p) == ActivityWork(p) \/ RegistrationWork(p) \/ CheckInWork(p)

Next ==
    \/ \E p \in Workers : Request(p) \/ Work(p) \/ StatementFails(p)
    \/ DeadlinePasses
    \/ Crash

Spec == Init /\ [][Next]_vars

\* A goroutine with a step to take takes it.  Strong fairness, because a step
\* that waits for a row lock or for another INSERT is enabled only between
\* other holders: InnoDB queues the waiters of a row and serves them in turn.
FairSpec == Spec /\ \A p \in Workers : SF_vars(Work(p))

-----------------------------------------------------------------------------
(* Type invariant.                                                         *)

\* The tables hold rows of their types, and a worker's locals are of the types
\* of the Go structs they stand for.
TypeOK ==
    /\ activities \in [ActivityIds -> ActivityRow \cup {None}]
    /\ allocated \subseteq ActivityIds
    /\ expired \subseteq ActivityIds
    /\ registrations \in [RegistrationIds -> RegistrationRow \cup {None}]
    /\ checkIns \in [RegistrationIds -> Nat]
    /\ notifications \in [RegistrationIds -> [NotificationType -> Nat]]
    /\ activityLock \in [ActivityIds -> Workers \cup {None}]
    /\ registrationLock \in [RegistrationIds -> Workers \cup {None}]
    /\ pc \in [Workers -> Labels]
    /\ job \in [Workers -> Job]

-----------------------------------------------------------------------------
(* Locks.                                                                  *)

InSignup(p) == pc[p] \in {"signupCheck", "signupInsert", "signupNotify", "signupCommit"}

InReview(p) == pc[p] \in {"reviewActivity", "reviewSave", "reviewNotify", "reviewCommit"}

InCheckIn(p) == pc[p] \in {"checkInRecord", "checkInSave", "checkInNotify", "checkInCommit"}

\* A worker past its FOR UPDATE holds the row it locked, and a row is locked
\* only by a worker inside such a transaction: no path of a handler (early
\* return, failed statement, crash, commit) leaves a lock behind or drops one.
LocksFollowTransactions ==
    \A p \in Workers :
        /\ \A a \in ActivityIds :
             activityLock[a] = p <=> InSignup(p) /\ job[p].aid = a
        /\ \A r \in RegistrationIds :
             registrationLock[r] = p <=> (InReview(p) \/ InCheckIn(p)) /\ job[p].rid = r

\* The struct a transaction read FOR UPDATE is still the committed row when it
\* is judged and when it is saved: whatever the other handlers do meanwhile,
\* Save, which writes every column, overwrites nothing it has not seen.
LockedStructsAreFresh ==
    \A p \in Workers :
        /\ InSignup(p) => job[p].act = activities[job[p].aid]
        /\ InReview(p) =>
             job[p].reg = [registrations[job[p].rid] EXCEPT !.review = job[p].reg.review]
        /\ InCheckIn(p) =>
             job[p].reg = [registrations[job[p].rid] EXCEPT !.status = job[p].reg.status]

InOffline(p) == pc[p] \in {"offlineCount", "offlineInsert"}

\* The statements a transaction has executed when its worker is at a label.
DirtyAt(label) ==
    CASE label = "signupNotify"  -> {"registration"}
      [] label = "signupCommit"  -> {"registration", "signup_success"}
      [] label = "reviewNotify"  -> {"registration"}
      [] label = "reviewCommit"  -> {"registration", "review_result"}
      [] label = "checkInSave"   -> {"check_in"}
      [] label = "checkInNotify" -> {"check_in", "registration"}
      [] label = "checkInCommit" -> {"check_in", "registration", "checkin_success"}
      [] OTHER -> {}

\* The locals a handler goes on with are the ones its label needs, and the
\* committed rows still allow what it is about to write: an id it inserts is
\* still free, a row it updates is still there, a registration it checks in is
\* still open.
JobFollowsLabel(p) ==
    LET j == job[p] IN
    /\ j.dirty = DirtyAt(pc[p])
    /\ pc[p] \in {"activitySave", "activityDelete", "signupLock"}
          \/ InSignup(p) \/ InOffline(p) => j.aid \in ActivityIds
    /\ pc[p] = "activitySave" \/ InSignup(p) \/ InOffline(p) => j.act \in ActivityRow
    /\ pc[p] = "signupLock" \/ InSignup(p) \/ InOffline(p) => j.user \in Users
    /\ pc[p] \in {"signupNotify", "signupCommit"} =>
         /\ j.rid \in RegistrationIds
         /\ ~Registered(j.rid)
         /\ j.reg \in RegistrationRow
         /\ j.reg.status = "registered"
    /\ pc[p] \in {"cancelSave", "reviewLock", "checkInLock"}
          \/ InReview(p) \/ InCheckIn(p) =>
         /\ j.rid \in RegistrationIds
         /\ Registered(j.rid)
    /\ pc[p] = "cancelSave" \/ InReview(p) \/ InCheckIn(p) => j.reg \in RegistrationRow
    /\ pc[p] = "cancelSave" => j.reg.status = "cancelled"
    /\ InCheckIn(p) => registrations[j.rid].status = "registered"
    /\ pc[p] \in {"checkInNotify", "checkInCommit"} => j.reg.status = "checked_in"

\* Two open transactions never insert the same id.
InsertsAreDistinct ==
    \A p, q \in Workers :
        /\ p # q
        /\ pc[p] \in {"signupNotify", "signupCommit"}
        /\ pc[q] \in {"signupNotify", "signupCommit"}
        => job[p].rid # job[q].rid

JobsFollowLabels == InsertsAreDistinct /\ \A p \in Workers : JobFollowsLabel(p)

-----------------------------------------------------------------------------
(* Check-in.                                                               *)

\* However many operators scan one voucher at once, and whatever fails or is
\* retried or cancelled in between, a registration gets one check-in record.
AtMostOneCheckIn == \A r \in RegistrationIds : checkIns[r] <= 1

\* A registration shown as checked in has its record, and one with a record is
\* there and not open for another check-in: doCheckIn's insert and update of
\* two tables are one.
CheckInRecorded ==
    \A r \in RegistrationIds :
        /\ checkIns[r] > 0 => Registered(r) /\ registrations[r].status # "registered"
        /\ Registered(r) /\ registrations[r].status = "checked_in" => checkIns[r] = 1

\* Only an open registration is cancelled: a check-in is not undone.
CancelOnlyRegistered ==
    [][\A r \in RegistrationIds :
         /\ Registered(r)
         /\ registrations[r].status # "cancelled"
         /\ registrations'[r].status = "cancelled"
         => registrations[r].status = "registered"]_vars

\* A cancelled registration stays cancelled: a review or a check-in that read
\* it before never writes an older status back.
CancelIsFinal ==
    [][\A r \in RegistrationIds :
         Registered(r) /\ registrations[r].status = "cancelled"
            => registrations'[r].status = "cancelled"]_vars

-----------------------------------------------------------------------------
(* Sign-up.                                                                *)

\* What a step adds to the registrations of an activity.
Joins(a) ==
    {r \in RegistrationIds :
        ~Registered(r) /\ registrations'[r] # None /\ registrations'[r].activity = a}

\* A new registration never takes an activity above the capacity it then has,
\* whoever signs up, cancels or changes the capacity at the same time.
SignupWithinCapacity ==
    [][\A a \in ActivityIds : Joins(a) # {} /\ Activity(a) =>
         activities[a].capacity = 0 \/ CountRegistered(a)' <= activities[a].capacity]_vars

\* A new registration is for an activity that exists and is published when it
\* is committed, not only when it was checked.
SignupWhilePublished ==
    [][\A a \in ActivityIds : Joins(a) # {} =>
         Activity(a) /\ activities[a].status = "published"]_vars

\* A user has at most one online registration for an activity, also with the
\* schema of AutoMigrate, which has no unique key for it.  (An online
\* registration is one with a signup_success notification.)
OneOnlineSignup ==
    \A r1, r2 \in RegistrationIds :
        /\ r1 # r2
        /\ notifications[r1]["signup_success"] > 0
        /\ notifications[r2]["signup_success"] > 0
        => \/ registrations[r1].activity # registrations[r2].activity
           \/ registrations[r1].user # registrations[r2].user

\* With the schema of init.sql a user has one registration for an activity,
\* online or offline, whichever handlers insert at the same time; and in either
\* schema no two registrations share a voucher.
NoDuplicateRegistration ==
    \A r1, r2 \in RegistrationIds :
        r1 # r2 /\ Registered(r1) /\ Registered(r2) =>
            /\ registrations[r1].voucher # registrations[r2].voucher
            /\ UniqueSignup => \/ registrations[r1].activity # registrations[r2].activity
                              \/ registrations[r1].user # registrations[r2].user

-----------------------------------------------------------------------------
(* Review and notifications.                                               *)

Adds(r, t) == notifications'[r][t] - notifications[r][t]

\* Each sign-up and check-in notification is committed with the event it
\* reports, once, and no event without it: an online registration appears, a
\* registration becomes checked in.
NotificationsFollowEvents ==
    [][\A r \in RegistrationIds :
        LET SignedUpOnline ==
                ~Registered(r) /\ registrations'[r] # None
                    /\ registrations'[r].review = "pending"
            CheckedIn ==
                Registered(r) /\ registrations[r].status # "checked_in"
                    /\ registrations'[r].status = "checked_in"
        IN  /\ Adds(r, "signup_success") = (IF SignedUpOnline THEN 1 ELSE 0)
            /\ Adds(r, "checkin_success") = (IF CheckedIn THEN 1 ELSE 0)]_vars

\* A decision on a registration is taken once, and its user is told of it in the
\* step that commits it; only a cancellation, which saves the decision it read,
\* can take it back, and tells nobody.
ReviewIsFinal ==
    [][\A r \in RegistrationIds : Registered(r) =>
        \/ /\ registrations'[r].review = registrations[r].review
           /\ Adds(r, "review_result") = 0
        \/ /\ registrations[r].review = "pending"
           /\ Adds(r, "review_result") = 1
        \/ /\ registrations'[r].status = "cancelled"
           /\ Adds(r, "review_result") = 0]_vars

-----------------------------------------------------------------------------
(* What the handlers promise together.                                     *)

\* A registration counts as online when its sign-up notification is there.
Online(r) == Registered(r) /\ notifications[r]["signup_success"] > 0

Entry(r) ==
    IF Registered(r)
    THEN [activity |-> registrations[r].activity, user |-> registrations[r].user,
          online |-> Online(r), status |-> registrations[r].status,
          review |-> registrations[r].review, checkIns |-> checkIns[r],
          told |-> notifications[r]]
    ELSE None

OpenCapacity(a) ==
    IF Activity(a) /\ activities[a].status = "published"
    THEN activities[a].capacity
    ELSE None

\* None is no entry, either.
ASSUME NoEntryAssumption ==
    None \notin [activity : ActivityIds, user : Users, online : BOOLEAN,
                 status : RegistrationStatus, review : ReviewStatus, checkIns : Nat,
                 told : [NotificationType -> Nat]]

Ledger == INSTANCE RegistrationLedger WITH
    open <- [a \in ActivityIds |-> OpenCapacity(a)],
    ledger <- [r \in RegistrationIds |-> Entry(r)]

\* Seen through its tables alone, the backend is the ledger: workers, locks,
\* rollbacks and crashes are invisible, a sign-up takes a free place of a
\* published activity for a user who has none, a review decides what is
\* pending, a check-in what is open, each with its notification in one step.
ImplementsLedger == Ledger!Spec

\* The places of an activity that online sign-ups have taken.
Taken(a) ==
    {r \in RegistrationIds :
        Online(r) /\ registrations[r].activity = a /\ registrations[r].status # "cancelled"}

\* What a sign-up has found and is about to insert.
SignupAdmitted(p) ==
    LET a == job[p].aid
        act == job[p].act
    IN  /\ InSignup(p) => act.status = "published"
        /\ pc[p] \in {"signupInsert", "signupNotify", "signupCommit"} =>
             /\ act.capacity = 0 \/ Cardinality(Taken(a)) < act.capacity
             /\ \A r \in RegistrationIds :
                  Online(r) /\ registrations[r].activity = a
                     => registrations[r].user # job[p].user
        /\ pc[p] \in {"signupNotify", "signupCommit"} =>
             /\ job[p].reg.activity = a
             /\ job[p].reg.user = job[p].user
             /\ job[p].reg.review = "pending"

\* What checkRegistrationLimit and the duplicate check found still holds when
\* the sign-up commits: the activity is published, a place is free of online
\* sign-ups, and none of them is the user's.
SignupStaysAdmitted == \A p \in Workers : SignupAdmitted(p)

\* A registration that is not there has no notification.
NoticesFollowRows ==
    \A r \in RegistrationIds :
        ~Registered(r) => \A t \in NotificationType : notifications[r][t] = 0

-----------------------------------------------------------------------------
(* Liveness.                                                               *)

\* Every request is answered: no handler waits for ever for a row, for another
\* INSERT, or for a worker that waits for it.
EveryRequestEnds == \A p \in Workers : ~At(p, "idle") ~> At(p, "idle")
=============================================================================

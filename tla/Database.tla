------------------------------ MODULE Database ------------------------------
(***************************************************************************)
(* What the backend of EventGo keeps and how its statements reach it: the  *)
(* MySQL (InnoDB) tables, the row locks of SELECT ... FOR UPDATE, and the  *)
(* transaction that gorm's db.Transaction opens around a handler's steps.  *)
(*                                                                         *)
(* A table holds committed rows only.  What a transaction has written and  *)
(* not committed is in the job of the worker that runs it (reg, dirty);    *)
(* Commit moves it to the tables, Rollback forgets it.  This is what every *)
(* other connection can see at the isolation level the program runs with   *)
(* (MySQL's default, REPEATABLE READ).                                     *)
(***************************************************************************)
EXTENDS Naturals, FiniteSets

CONSTANTS
    Workers,          \* goroutines, each serving one HTTP request at a time
    Users,            \* rows of table users
    Role,             \* Role[u] is the role in the JWT of u
    ActivityIds,      \* ids AUTO_INCREMENT can give to an activity
    RegistrationIds,  \* ids AUTO_INCREMENT can give to a registration
    Vouchers,         \* voucher numbers GenerateVoucherNo can return
    Capacities,       \* capacities an organizer asks for (0: no limit)
    UniqueSignup,     \* TRUE: schema of init.sql, with the unique key on
                      \* (activity_id, user_id); FALSE: AutoMigrate's schema
    Operations,       \* the requests the clients of a run send
    None              \* no row, no user, no lock holder

Roles == {"user", "organizer", "admin"}

ActivityStatus == {"draft", "published", "ended"}

RegistrationStatus == {"registered", "cancelled", "checked_in"}

ReviewStatus == {"pending", "approved", "rejected"}

NotificationType == {"signup_success", "review_result", "checkin_success"}

\* The columns that guards read; capacity also stands for the other columns
\* that Update rewrites (title, description, cover, type, location).
ActivityRow ==
    [status : ActivityStatus, capacity : Capacities, organizer : Users]

RegistrationRow ==
    [activity : ActivityIds, user : Users, voucher : Vouchers,
     status : RegistrationStatus, review : ReviewStatus]

ASSUME ConstantsAssumption ==
    /\ Role \in [Users -> Roles]
    /\ Capacities \subseteq Nat
    /\ UniqueSignup \in BOOLEAN

ASSUME NoneAssumption ==
    /\ None \notin Workers
    /\ None \notin Users
    /\ None \notin ActivityIds
    /\ None \notin RegistrationIds
    /\ None \notin Vouchers
    /\ None \notin Capacities
    /\ None \notin ActivityRow
    /\ None \notin RegistrationRow

\* A table has finitely many rows: so they can be counted.
ASSUME FiniteIdsAssumption == IsFiniteSet(RegistrationIds)

VARIABLES
    activities,     \* table activities
    allocated,      \* activity ids already given out, never given out again
    expired,        \* activities whose signup_deadline has passed
    registrations,  \* table registrations
    checkIns,       \* table check_in_records: rows per registration
    notifications,  \* table notifications: rows per registration and type
    activityLock,   \* holder of the lock on an activity row
    registrationLock,  \* holder of the lock on a registration row
    pc,             \* the next step of the handler a worker runs
    job             \* the local variables of that handler

tables == <<activities, allocated, expired, registrations, checkIns, notifications>>
locks == <<activityLock, registrationLock>>
vars == <<tables, locks, pc, job>>

Labels ==
    {"idle", "activitySave", "activityDelete",
     "signupLock", "signupCheck", "signupInsert", "signupNotify", "signupCommit",
     "cancelSave", "offlineCount", "offlineInsert",
     "reviewLock", "reviewActivity", "reviewSave", "reviewNotify", "reviewCommit",
     "checkInLock", "checkInRecord", "checkInSave", "checkInNotify", "checkInCommit"}

\* Uncommitted statements: the registration row in job.reg, a row of
\* check_in_records, a notification of each type.
Statements == {"registration", "check_in"} \cup NotificationType

Job ==
    [user : Users \cup {None},                \* operator from the token
     aid  : ActivityIds \cup {None},
     rid  : RegistrationIds \cup {None},
     act  : ActivityRow \cup {None},          \* the struct read from activities
     reg  : RegistrationRow \cup {None},      \* the struct read from registrations
     dirty : SUBSET Statements]

NoJob == [user |-> None, aid |-> None, rid |-> None,
          act |-> None, reg |-> None, dirty |-> {}]

Activity(a) == activities[a] # None

Registered(r) == registrations[r] # None

-----------------------------------------------------------------------------
(* Roles and ownership.                                                    *)

Organizers == {u \in Users : Role[u] \in {"organizer", "admin"}}

IsOrganizer(u, organizer) == Role[u] = "admin" \/ u = organizer

-----------------------------------------------------------------------------
(* Steps of a handler.                                                     *)

\* A worker takes a request; a handler that returns before its first write or
\* lock leaves nothing behind, so only the ones that go on are steps.
Begin(p, op, label, j) ==
    /\ op \in Operations
    /\ pc[p] = "idle"
    /\ pc' = [pc EXCEPT ![p] = label]
    /\ job' = [job EXCEPT ![p] = j]

At(p, label) == pc[p] = label

Goto(p, label) == pc' = [pc EXCEPT ![p] = label]

\* The handler returns: its locals are gone, and the locks of its transaction.
Return(p) ==
    /\ pc' = [pc EXCEPT ![p] = "idle"]
    /\ job' = [job EXCEPT ![p] = NoJob]

ReleaseLocks(p) ==
    /\ activityLock' =
         [a \in ActivityIds |-> IF activityLock[a] = p THEN None ELSE activityLock[a]]
    /\ registrationLock' =
         [r \in RegistrationIds |-> IF registrationLock[r] = p THEN None ELSE registrationLock[r]]

\* The function given to db.Transaction returns an error, or an autocommit
\* statement fails: nothing of the transaction reaches the tables.
Rollback(p) == Return(p) /\ ReleaseLocks(p) /\ UNCHANGED tables

\* The function given to db.Transaction returns nil.
Commit(p) ==
    LET r == job[p].rid
        dirty == job[p].dirty
    IN  /\ registrations' =
             IF "registration" \in dirty
             THEN [registrations EXCEPT ![r] = job[p].reg]
             ELSE registrations
        /\ checkIns' =
             IF "check_in" \in dirty
             THEN [checkIns EXCEPT ![r] = @ + 1]
             ELSE checkIns
        /\ notifications' =
             [notifications EXCEPT ![r] =
                [t \in NotificationType |-> IF t \in dirty THEN @[t] + 1 ELSE @[t]]]
        /\ UNCHANGED <<activities, allocated, expired>>
        /\ Return(p)
        /\ ReleaseLocks(p)

\* SELECT ... FOR UPDATE: waits for the holder, then reads the committed row.
LockActivity(p, a) ==
    /\ activityLock[a] = None
    /\ activityLock' = [activityLock EXCEPT ![a] = p]
    /\ UNCHANGED registrationLock

LockRegistration(p, r) ==
    /\ registrationLock[r] = None
    /\ registrationLock' = [registrationLock EXCEPT ![r] = p]
    /\ UNCHANGED activityLock

-----------------------------------------------------------------------------
(* The unique keys of table registrations.                                 *)

\* Fault variant: a key on the voucher only, whatever the schema.
SameVoucher(row1, row2) == row1.voucher = row2.voucher

SameKey(row1, row2) ==
    \/ row1.voucher = row2.voucher
    \/ UniqueSignup /\ row1.activity = row2.activity /\ row1.user = row2.user

\* An INSERT fails on a committed row with its key ...
DuplicateKey(row) ==
    \E r \in RegistrationIds : Registered(r) /\ SameKey(row, registrations[r])

Inserting(p) ==
    "registration" \in job[p].dirty /\ ~Registered(job[p].rid)

\* ... and waits while an uncommitted one has it.
BlockedInsert(p, row) ==
    \E q \in Workers \ {p} : Inserting(q) /\ SameKey(row, job[q].reg)

FreshIds ==
    {r \in RegistrationIds :
        ~Registered(r) /\ \A q \in Workers : Inserting(q) => job[q].rid # r}
=============================================================================

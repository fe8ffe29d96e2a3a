---------------------------- MODULE EventGoProofs ----------------------------
(***************************************************************************)
(* Theorems about EventGo, for any number of workers, users, activities,   *)
(* registrations and vouchers.                                             *)
(***************************************************************************)
EXTENDS EventGo, TLAPS

IInv ==
    /\ TypeOK
    /\ LocksFollowTransactions
    /\ LockedStructsAreFresh
    /\ JobsFollowLabels
    /\ AtMostOneCheckIn
    /\ CheckInRecorded

-----------------------------------------------------------------------------
(* What the two ends of a handler do to the invariant.                     *)

LEMMA InitIInv == Init => IInv
<1> SUFFICES ASSUME Init PROVE IInv
  OBVIOUS
<1> USE NoneAssumption DEF Init
<1>1. TypeOK
  BY DEF TypeOK, Job, NoJob, Labels
<1>2. LocksFollowTransactions /\ LockedStructsAreFresh
  BY DEF LocksFollowTransactions, LockedStructsAreFresh, InSignup, InReview, InCheckIn
<1>3. JobsFollowLabels
  <2>1. \A p \in Workers : pc[p] = "idle" /\ job[p] = NoJob
    OBVIOUS
  <2>2. DirtyAt("idle") = {}
    BY DEF DirtyAt
  <2> QED
    BY <2>1, <2>2 DEF JobsFollowLabels, JobFollowsLabel, InsertsAreDistinct,
          InSignup, InReview, InCheckIn, InOffline, NoJob
<1>4. AtMostOneCheckIn /\ CheckInRecorded
  BY DEF AtMostOneCheckIn, CheckInRecorded, Registered
<1> QED
  BY <1>1, <1>2, <1>3, <1>4 DEF IInv

\* A step of one worker that touches neither tables nor locks keeps the
\* invariant if the worker's new locals suit its new label.
LEMMA LocalStep ==
  ASSUME IInv, NEW p \in Workers, NEW label \in Labels, NEW j \in Job,
         pc' = [pc EXCEPT ![p] = label],
         job' = [job EXCEPT ![p] = j],
         UNCHANGED <<tables, locks>>,
         \A a \in ActivityIds :
            InSignup(p)' /\ j.aid = a <=> InSignup(p) /\ job[p].aid = a,
         \A r \in RegistrationIds :
            (InReview(p) \/ InCheckIn(p))' /\ j.rid = r
               <=> (InReview(p) \/ InCheckIn(p)) /\ job[p].rid = r,
         InSignup(p)' => j.act = activities[j.aid],
         InReview(p)' =>
            j.reg = [registrations[j.rid] EXCEPT !.review = j.reg.review],
         InCheckIn(p)' =>
            j.reg = [registrations[j.rid] EXCEPT !.status = j.reg.status],
         JobFollowsLabel(p)',
         label \in {"signupNotify", "signupCommit"} =>
            \A q \in Workers \ {p} :
               pc[q] \in {"signupNotify", "signupCommit"} => job[q].rid # j.rid
  PROVE  IInv'
<1>1. /\ pc'[p] = label /\ job'[p] = j
      /\ \A q \in Workers \ {p} : pc'[q] = pc[q] /\ job'[q] = job[q]
  BY DEF IInv, TypeOK
<1>2. TypeOK'
  BY DEF IInv, TypeOK, tables, locks
<1>3. LocksFollowTransactions'
  BY <1>1 DEF IInv, LocksFollowTransactions, InSignup, InReview, InCheckIn, locks
<1>4. LockedStructsAreFresh'
  BY <1>1 DEF IInv, LockedStructsAreFresh, InSignup, InReview, InCheckIn, tables
<1>5. ASSUME NEW q \in Workers PROVE JobFollowsLabel(q)'
  <2>1. CASE q = p
    BY <2>1
  <2>2. CASE q # p
    BY <1>1, <2>2 DEF IInv, JobsFollowLabels, JobFollowsLabel, Registered,
          InSignup, InReview, InCheckIn, InOffline, tables
  <2> QED
    BY <2>1, <2>2
<1>6. InsertsAreDistinct'
  BY <1>1 DEF IInv, JobsFollowLabels, InsertsAreDistinct
<1>7. AtMostOneCheckIn' /\ CheckInRecorded'
  BY DEF IInv, AtMostOneCheckIn, CheckInRecorded, Registered, tables
<1> QED
  BY <1>2, <1>3, <1>4, <1>5, <1>6, <1>7 DEF IInv, JobsFollowLabels

\* A worker that returns has nothing left to follow.
LEMMA IdleJob ==
  ASSUME NEW p \in Workers, pc'[p] = "idle", job'[p] = NoJob
  PROVE  /\ JobFollowsLabel(p)'
         /\ ~InSignup(p)' /\ ~InReview(p)' /\ ~InCheckIn(p)'
  BY DEF JobFollowsLabel, NoJob, DirtyAt, InSignup, InReview, InCheckIn, InOffline

\* Whatever happens to the tables, a returning worker takes its locks along.
LEMMA ReturnReleases ==
  ASSUME IInv, NEW p \in Workers, Return(p), ReleaseLocks(p)
  PROVE  /\ LocksFollowTransactions'
         /\ activityLock' \in [ActivityIds -> Workers \cup {None}]
         /\ registrationLock' \in [RegistrationIds -> Workers \cup {None}]
  BY NoneAssumption DEF IInv, TypeOK, Return, ReleaseLocks, LocksFollowTransactions,
        InReview, InCheckIn, InSignup, NoJob

\* Other workers keep their label and locals over a return.
LEMMA ReturnOthers ==
  ASSUME IInv, NEW p \in Workers, Return(p)
  PROVE  /\ pc' \in [Workers -> Labels] /\ job' \in [Workers -> Job]
         /\ pc'[p] = "idle" /\ job'[p] = NoJob
         /\ \A q \in Workers \ {p} : pc'[q] = pc[q] /\ job'[q] = job[q]
         /\ InsertsAreDistinct'
<1>1. "idle" \in Labels /\ NoJob \in Job
  BY DEF Labels, NoJob, Job
<1>2. /\ pc' \in [Workers -> Labels] /\ job' \in [Workers -> Job]
      /\ pc'[p] = "idle" /\ job'[p] = NoJob
      /\ \A q \in Workers \ {p} : pc'[q] = pc[q] /\ job'[q] = job[q]
  BY <1>1 DEF IInv, TypeOK, Return
<1> QED
  BY <1>2 DEF IInv, JobsFollowLabels, InsertsAreDistinct

LEMMA RollbackStep ==
  ASSUME IInv, NEW p \in Workers, Rollback(p)
  PROVE  IInv'
<1>1. /\ pc' \in [Workers -> Labels] /\ job' \in [Workers -> Job]
      /\ pc'[p] = "idle" /\ job'[p] = NoJob
      /\ \A q \in Workers \ {p} : pc'[q] = pc[q] /\ job'[q] = job[q]
      /\ InsertsAreDistinct'
  BY ReturnOthers DEF Rollback
<1>2. /\ LocksFollowTransactions'
      /\ activityLock' \in [ActivityIds -> Workers \cup {None}]
      /\ registrationLock' \in [RegistrationIds -> Workers \cup {None}]
  BY ReturnReleases DEF Rollback
<1>3. UNCHANGED tables
  BY DEF Rollback
<1>4. TypeOK'
  BY <1>1, <1>2, <1>3 DEF IInv, TypeOK, tables
<1>5. LockedStructsAreFresh'
  BY <1>1, <1>3, IdleJob DEF IInv, LockedStructsAreFresh, InSignup, InReview, InCheckIn, tables
<1>6. ASSUME NEW q \in Workers PROVE JobFollowsLabel(q)'
  <2>1. CASE q = p
    BY <1>1, <2>1, IdleJob
  <2>2. CASE q # p
    BY <1>1, <1>3, <2>2 DEF IInv, JobsFollowLabels, JobFollowsLabel, Registered,
          InSignup, InReview, InCheckIn, InOffline, tables
  <2> QED
    BY <2>1, <2>2
<1>7. AtMostOneCheckIn' /\ CheckInRecorded'
  BY <1>3 DEF IInv, AtMostOneCheckIn, CheckInRecorded, Registered, tables
<1> QED
  BY <1>1, <1>2, <1>4, <1>5, <1>6, <1>7 DEF IInv, JobsFollowLabels

-----------------------------------------------------------------------------
(* Taking a request.                                                       *)

\* The labels a handler starts at are outside the transactions.
LEMMA BeginStep ==
  ASSUME IInv, NEW p \in Workers, NEW op, NEW j \in Job,
         NEW label \in {"activitySave", "activityDelete", "signupLock", "cancelSave",
                        "reviewLock", "offlineCount", "checkInLock"},
         Begin(p, op, label, j), UNCHANGED <<tables, locks>>,
         JobFollowsLabel(p)'
  PROVE  IInv'
<1>1. /\ pc[p] = "idle" /\ label \in Labels
      /\ pc' = [pc EXCEPT ![p] = label]
      /\ job' = [job EXCEPT ![p] = j]
  BY DEF Begin, Labels
<1>2. pc'[p] = label
  BY <1>1 DEF IInv, TypeOK
<1>3. /\ ~InSignup(p) /\ ~InReview(p) /\ ~InCheckIn(p)
      /\ ~InSignup(p)' /\ ~InReview(p)' /\ ~InCheckIn(p)'
      /\ label \notin {"signupNotify", "signupCommit"}
  BY <1>1, <1>2 DEF InSignup, InReview, InCheckIn
<1> QED
  BY <1>1, <1>3, LocalStep

\* A job that starts has executed no statement.
LEMMA BeginLabel ==
  ASSUME NEW p \in Workers, TypeOK, NEW j \in Job, j.dirty = {},
         NEW op,
         NEW label \in {"activitySave", "activityDelete", "signupLock", "cancelSave",
                        "reviewLock", "offlineCount", "checkInLock"},
         Begin(p, op, label, j)
  PROVE  /\ pc'[p] = label /\ job'[p] = j
         /\ job'[p].dirty = DirtyAt(pc'[p])
         /\ ~InSignup(p)' /\ ~InReview(p)' /\ ~InCheckIn(p)'
         /\ InOffline(p)' <=> label = "offlineCount"
<1>1. pc'[p] = label /\ job'[p] = j
  BY DEF TypeOK, Begin
<1>2. DirtyAt(label) = {}
  BY DEF DirtyAt
<1> QED
  BY <1>1, <1>2 DEF InSignup, InReview, InCheckIn, InOffline

\* Update, Publish and End start alike: with a changed copy of the row.
LEMMA ActivityCopyStep ==
  ASSUME IInv, NEW p \in Workers, NEW op, NEW a \in ActivityIds, NEW row \in ActivityRow,
         Begin(p, op, "activitySave", [NoJob EXCEPT !.aid = a, !.act = row]),
         UNCHANGED <<tables, locks>>
  PROVE  IInv'
<1> DEFINE j == [NoJob EXCEPT !.aid = a, !.act = row]
<1>1. j \in Job /\ j.dirty = {} /\ j.aid = a /\ j.act = row
  BY DEF Job, NoJob
<1>2. Begin(p, op, "activitySave", j)
  OBVIOUS
<1> HIDE DEF j
<1>3. /\ pc'[p] = "activitySave" /\ job'[p] = j
      /\ job'[p].dirty = DirtyAt(pc'[p])
      /\ ~InSignup(p)' /\ ~InReview(p)' /\ ~InCheckIn(p)' /\ ~InOffline(p)'
  BY <1>1, <1>2, BeginLabel DEF IInv
<1>4. JobFollowsLabel(p)'
  BY <1>1, <1>3 DEF JobFollowsLabel
<1> QED
  BY <1>1, <1>2, <1>4, BeginStep

LEMMA UpdateFindStep ==
  ASSUME IInv, NEW p \in Workers, UpdateFind(p)
  PROVE  IInv'
<1>1. PICK a \in ActivityIds, c \in Capacities :
        /\ Activity(a)
        /\ Begin(p, "update", "activitySave",
                 [NoJob EXCEPT !.aid = a,
                               !.act = [activities[a] EXCEPT !.capacity = c]])
        /\ UNCHANGED <<tables, locks>>
  BY Zenon DEF UpdateFind
<1>2. [activities[a] EXCEPT !.capacity = c] \in ActivityRow
  BY <1>1 DEF IInv, TypeOK, Activity, ActivityRow
<1> QED
  BY <1>1, <1>2, ActivityCopyStep

LEMMA PublishFindStep ==
  ASSUME IInv, NEW p \in Workers, PublishFind(p)
  PROVE  IInv'
<1>1. PICK a \in ActivityIds :
        /\ Activity(a)
        /\ Begin(p, "publish", "activitySave",
                 [NoJob EXCEPT !.aid = a,
                               !.act = [activities[a] EXCEPT !.status = "published"]])
        /\ UNCHANGED <<tables, locks>>
  BY Zenon DEF PublishFind
<1>2. [activities[a] EXCEPT !.status = "published"] \in ActivityRow
  BY <1>1 DEF IInv, TypeOK, Activity, ActivityRow, ActivityStatus
<1> QED
  BY <1>1, <1>2, ActivityCopyStep

LEMMA EndFindStep ==
  ASSUME IInv, NEW p \in Workers, EndFind(p)
  PROVE  IInv'
<1>1. PICK a \in ActivityIds :
        /\ Activity(a)
        /\ Begin(p, "end", "activitySave",
                 [NoJob EXCEPT !.aid = a,
                               !.act = [activities[a] EXCEPT !.status = "ended"]])
        /\ UNCHANGED <<tables, locks>>
  BY Zenon DEF EndFind
<1>2. [activities[a] EXCEPT !.status = "ended"] \in ActivityRow
  BY <1>1 DEF IInv, TypeOK, Activity, ActivityRow, ActivityStatus
<1> QED
  BY <1>1, <1>2, ActivityCopyStep

LEMMA DeleteFindStep ==
  ASSUME IInv, NEW p \in Workers, DeleteFind(p)
  PROVE  IInv'
<1>1. PICK a \in ActivityIds :
        /\ Begin(p, "delete", "activityDelete", [NoJob EXCEPT !.aid = a])
        /\ UNCHANGED <<tables, locks>>
  BY DEF DeleteFind
<1> DEFINE j == [NoJob EXCEPT !.aid = a]
<1>2. j \in Job /\ j.dirty = {} /\ j.aid = a
  BY DEF Job, NoJob
<1>3. JobFollowsLabel(p)'
  BY <1>1, <1>2, BeginLabel DEF IInv, JobFollowsLabel
<1> QED
  BY <1>1, <1>2, <1>3, BeginStep

LEMMA SignupBeginStep ==
  ASSUME IInv, NEW p \in Workers, SignupBegin(p)
  PROVE  IInv'
<1>1. PICK u \in Users, a \in allocated :
        /\ Begin(p, "signup", "signupLock", [NoJob EXCEPT !.user = u, !.aid = a])
        /\ UNCHANGED <<tables, locks>>
  BY DEF SignupBegin
<1> DEFINE j == [NoJob EXCEPT !.user = u, !.aid = a]
<1>2. a \in ActivityIds
  BY DEF IInv, TypeOK
<1>3. j \in Job /\ j.dirty = {} /\ j.aid = a /\ j.user = u
  BY <1>2 DEF Job, NoJob
<1>4. Begin(p, "signup", "signupLock", j)
  BY <1>1
<1> HIDE DEF j
<1>5. /\ pc'[p] = "signupLock" /\ job'[p] = j
      /\ job'[p].dirty = DirtyAt(pc'[p])
      /\ ~InSignup(p)' /\ ~InReview(p)' /\ ~InCheckIn(p)' /\ ~InOffline(p)'
  BY <1>3, <1>4, BeginLabel DEF IInv
<1>6. JobFollowsLabel(p)'
  BY <1>2, <1>3, <1>5 DEF JobFollowsLabel
<1> QED
  BY <1>1, <1>3, <1>4, <1>6, BeginStep

LEMMA CancelFindStep ==
  ASSUME IInv, NEW p \in Workers, CancelFind(p)
  PROVE  IInv'
<1>1. PICK r \in RegistrationIds :
        /\ Registered(r)
        /\ Begin(p, "cancel", "cancelSave",
                 [NoJob EXCEPT !.rid = r,
                               !.reg = [registrations[r] EXCEPT !.status = "cancelled"]])
        /\ UNCHANGED <<tables, locks>>
  BY DEF CancelFind
<1> DEFINE row == [registrations[r] EXCEPT !.status = "cancelled"]
           j == [NoJob EXCEPT !.rid = r, !.reg = row]
<1>2. row \in RegistrationRow /\ row.status = "cancelled"
  BY <1>1 DEF IInv, TypeOK, Registered, RegistrationRow, RegistrationStatus
<1>3. j \in Job /\ j.dirty = {} /\ j.rid = r /\ j.reg = row
  BY <1>2 DEF Job, NoJob
<1>4. Registered(r)'
  BY <1>1 DEF Registered, tables
<1>5. JobFollowsLabel(p)'
  BY <1>1, <1>2, <1>3, <1>4, BeginLabel DEF IInv, JobFollowsLabel, Registered
<1> QED
  BY <1>1, <1>3, <1>5, BeginStep

LEMMA ReviewBeginStep ==
  ASSUME IInv, NEW p \in Workers, ReviewBegin(p)
  PROVE  IInv'
<1>1. PICK r \in RegistrationIds, u \in Organizers :
        /\ Registered(r)
        /\ Begin(p, "review", "reviewLock", [NoJob EXCEPT !.user = u, !.rid = r])
        /\ UNCHANGED <<tables, locks>>
  BY DEF ReviewBegin
<1> DEFINE j == [NoJob EXCEPT !.user = u, !.rid = r]
<1>2. j \in Job /\ j.dirty = {} /\ j.rid = r
  BY DEF Job, NoJob, Organizers
<1>3. Registered(r)'
  BY <1>1 DEF Registered, tables
<1>4. JobFollowsLabel(p)'
  BY <1>1, <1>2, <1>3, BeginLabel DEF IInv, JobFollowsLabel, Registered
<1> QED
  BY <1>1, <1>2, <1>4, BeginStep

LEMMA OfflineFindStep ==
  ASSUME IInv, NEW p \in Workers, OfflineFind(p)
  PROVE  IInv'
<1>1. PICK u \in Organizers, a \in ActivityIds :
        /\ OpenForSignup(a)
        /\ Begin(p, "offline", "offlineCount",
                 [NoJob EXCEPT !.user = u, !.aid = a, !.act = activities[a]])
        /\ UNCHANGED <<tables, locks>>
  BY DEF OfflineFind
<1> DEFINE row == activities[a]
           j == [NoJob EXCEPT !.user = u, !.aid = a, !.act = row]
<1>2. row \in ActivityRow /\ u \in Users
  BY <1>1 DEF IInv, TypeOK, OpenForSignup, Activity, Organizers
<1>3. j \in Job /\ j.dirty = {} /\ j.aid = a /\ j.act = row /\ j.user = u
  BY <1>2 DEF Job, NoJob
<1> HIDE DEF row, j
<1>4. /\ pc'[p] = "offlineCount" /\ job'[p] = j
      /\ job'[p].dirty = DirtyAt(pc'[p])
      /\ ~InSignup(p)' /\ ~InReview(p)' /\ ~InCheckIn(p)'
  <2>1. Begin(p, "offline", "offlineCount", j)
    BY <1>1 DEF row, j
  <2> QED
    BY <1>3, <2>1, BeginLabel DEF IInv
<1>5. JobFollowsLabel(p)'
  BY <1>2, <1>3, <1>4 DEF JobFollowsLabel
<1> QED
  BY <1>1, <1>3, <1>5, BeginStep DEF row, j

LEMMA CheckInRequestStep ==
  ASSUME IInv, NEW p \in Workers, CheckInRequest(p)
  PROVE  IInv'
<1>1. PICK r \in RegistrationIds :
        /\ Registered(r)
        /\ Begin(p, "checkIn", "checkInLock", [NoJob EXCEPT !.rid = r])
        /\ UNCHANGED <<tables, locks>>
  BY DEF CheckInRequest, CheckInByVoucher, CheckInByScan, CheckInFound
<1> DEFINE j == [NoJob EXCEPT !.rid = r]
<1>2. j \in Job /\ j.dirty = {} /\ j.rid = r
  BY DEF Job, NoJob
<1>3. Registered(r)'
  BY <1>1 DEF Registered, tables
<1>4. JobFollowsLabel(p)'
  BY <1>1, <1>2, <1>3, BeginLabel DEF IInv, JobFollowsLabel, Registered
<1> QED
  BY <1>1, <1>2, <1>4, BeginStep

-----------------------------------------------------------------------------
(* Steps inside a handler that only it can see.                            *)

\* A step inside a sign-up transaction that keeps its activity and the struct
\* it read.
LEMMA SignupLocalStep ==
  ASSUME IInv, NEW p \in Workers, InSignup(p),
         NEW label \in {"signupInsert", "signupNotify", "signupCommit"},
         NEW j \in Job, j.aid = job[p].aid, j.act = job[p].act,
         pc' = [pc EXCEPT ![p] = label],
         job' = [job EXCEPT ![p] = j],
         UNCHANGED <<tables, locks>>,
         JobFollowsLabel(p)',
         label \in {"signupNotify", "signupCommit"} =>
            \A q \in Workers \ {p} :
               pc[q] \in {"signupNotify", "signupCommit"} => job[q].rid # j.rid
  PROVE  IInv'
<1>1. pc'[p] = label /\ label \in Labels
  BY DEF IInv, TypeOK, Labels
<1>2. /\ ~InReview(p) /\ ~InCheckIn(p)
      /\ InSignup(p)' /\ ~InReview(p)' /\ ~InCheckIn(p)'
  BY <1>1 DEF InSignup, InReview, InCheckIn
<1>3. j.act = activities[j.aid]
  BY DEF IInv, LockedStructsAreFresh
<1> QED
  BY <1>1, <1>2, <1>3, LocalStep

\* A step inside a review that keeps its registration and, but for the review
\* column, the struct it read.
LEMMA ReviewLocalStep ==
  ASSUME IInv, NEW p \in Workers, InReview(p),
         NEW label \in {"reviewSave", "reviewNotify", "reviewCommit"},
         NEW j \in Job, j.rid = job[p].rid,
         j.reg = [job[p].reg EXCEPT !.review = j.reg.review],
         pc' = [pc EXCEPT ![p] = label],
         job' = [job EXCEPT ![p] = j],
         UNCHANGED <<tables, locks>>,
         JobFollowsLabel(p)'
  PROVE  IInv'
<1>1. pc'[p] = label /\ label \in Labels
  BY DEF IInv, TypeOK, Labels
<1>2. /\ ~InSignup(p) /\ ~InCheckIn(p)
      /\ InReview(p)' /\ ~InSignup(p)' /\ ~InCheckIn(p)'
      /\ label \notin {"signupNotify", "signupCommit"}
  BY <1>1 DEF InSignup, InReview, InCheckIn
<1>3. j.reg = [registrations[j.rid] EXCEPT !.review = j.reg.review]
  <2>1. job[p].reg = [registrations[job[p].rid] EXCEPT !.review = job[p].reg.review]
    BY DEF IInv, LockedStructsAreFresh
  <2>2. registrations[job[p].rid] \in RegistrationRow
    BY DEF IInv, TypeOK, JobsFollowLabels, JobFollowsLabel, Registered
  <2> QED
    BY <2>1, <2>2 DEF RegistrationRow
<1>4. /\ \A a \in ActivityIds :
            InSignup(p)' /\ j.aid = a <=> InSignup(p) /\ job[p].aid = a
      /\ \A r \in RegistrationIds :
            (InReview(p) \/ InCheckIn(p))' /\ j.rid = r
               <=> (InReview(p) \/ InCheckIn(p)) /\ job[p].rid = r
  BY <1>2
<1> QED
  BY <1>1, <1>2, <1>3, <1>4, LocalStep

\* A step inside a check-in that keeps its registration and, but for the
\* status column, the struct it read.
LEMMA CheckInLocalStep ==
  ASSUME IInv, NEW p \in Workers, InCheckIn(p),
         NEW label \in {"checkInSave", "checkInNotify", "checkInCommit"},
         NEW j \in Job, j.rid = job[p].rid,
         j.reg = [job[p].reg EXCEPT !.status = j.reg.status],
         pc' = [pc EXCEPT ![p] = label],
         job' = [job EXCEPT ![p] = j],
         UNCHANGED <<tables, locks>>,
         JobFollowsLabel(p)'
  PROVE  IInv'
<1>1. pc'[p] = label /\ label \in Labels
  BY DEF IInv, TypeOK, Labels
<1>2. /\ ~InSignup(p) /\ ~InReview(p)
      /\ InCheckIn(p)' /\ ~InSignup(p)' /\ ~InReview(p)'
      /\ label \notin {"signupNotify", "signupCommit"}
  BY <1>1 DEF InSignup, InReview, InCheckIn
<1>3. j.reg = [registrations[j.rid] EXCEPT !.status = j.reg.status]
  <2>1. job[p].reg = [registrations[job[p].rid] EXCEPT !.status = job[p].reg.status]
    BY DEF IInv, LockedStructsAreFresh
  <2>2. registrations[job[p].rid] \in RegistrationRow
    BY DEF IInv, TypeOK, JobsFollowLabels, JobFollowsLabel, Registered
  <2> QED
    BY <2>1, <2>2 DEF RegistrationRow
<1>4. /\ \A a \in ActivityIds :
            InSignup(p)' /\ j.aid = a <=> InSignup(p) /\ job[p].aid = a
      /\ \A r \in RegistrationIds :
            (InReview(p) \/ InCheckIn(p))' /\ j.rid = r
               <=> (InReview(p) \/ InCheckIn(p)) /\ job[p].rid = r
  BY <1>2
<1> QED
  BY <1>1, <1>2, <1>3, <1>4, LocalStep

LEMMA SignupCheckStep ==
  ASSUME IInv, NEW p \in Workers, SignupCheck(p)
  PROVE  IInv'
<1>1. CASE Rollback(p)
  BY <1>1, RollbackStep
<1>2. CASE Goto(p, "signupInsert") /\ UNCHANGED <<tables, locks, job>>
  <2>1. /\ pc' = [pc EXCEPT ![p] = "signupInsert"] /\ pc'[p] = "signupInsert"
        /\ job' = [job EXCEPT ![p] = job[p]] /\ job'[p] = job[p] /\ job[p] \in Job
        /\ pc[p] = "signupCheck"
    BY <1>2 DEF SignupCheck, At, Goto, IInv, TypeOK
  <2>2. /\ InSignup(p) /\ InSignup(p)' /\ ~InReview(p)' /\ ~InCheckIn(p)' /\ ~InOffline(p)'
        /\ DirtyAt("signupCheck") = {} /\ DirtyAt("signupInsert") = {}
    BY <2>1 DEF InSignup, InReview, InCheckIn, InOffline, DirtyAt
  <2>3. JobFollowsLabel(p)'
    BY <2>1, <2>2 DEF IInv, JobsFollowLabels, JobFollowsLabel
  <2> QED
    BY <1>2, <2>1, <2>2, <2>3, SignupLocalStep
<1> QED
  BY <1>1, <1>2 DEF SignupCheck

LEMMA SignupInsertStep ==
  ASSUME IInv, NEW p \in Workers, SignupInsert(p)
  PROVE  IInv'
<1>1. CASE Rollback(p)
  BY <1>1, RollbackStep
<1>2. ASSUME NEW v \in Vouchers, NEW r \in FreshIds, NEW row,
             row = NewRegistration(job[p].aid, job[p].user, v, "pending"),
             job' = [job EXCEPT ![p].rid = r, ![p].reg = row, ![p].dirty = {"registration"}],
             Goto(p, "signupNotify"),
             UNCHANGED <<tables, locks>>
      PROVE  IInv'
  <2> DEFINE j == [job[p] EXCEPT !.rid = r, !.reg = row, !.dirty = {"registration"}]
  <2>1. pc[p] = "signupInsert" /\ job[p] \in Job
    BY DEF SignupInsert, At, IInv, TypeOK
  <2>2. /\ InSignup(p)
        /\ job[p].aid \in ActivityIds /\ job[p].user \in Users /\ job[p].act \in ActivityRow
    BY <2>1 DEF IInv, JobsFollowLabels, JobFollowsLabel, InSignup
  <2>3. row \in RegistrationRow /\ row.status = "registered"
    BY <1>2, <2>2 DEF NewRegistration, RegistrationRow, RegistrationStatus, ReviewStatus
  <2>4. r \in RegistrationIds /\ ~Registered(r)
    BY DEF FreshIds
  <2>5. /\ j \in Job /\ j.rid = r /\ j.reg = row /\ j.dirty = {"registration"}
        /\ j.aid = job[p].aid /\ j.user = job[p].user /\ j.act = job[p].act
    BY <2>1, <2>3, <2>4 DEF Job, Statements
  <2>6. /\ pc' = [pc EXCEPT ![p] = "signupNotify"] /\ pc'[p] = "signupNotify"
        /\ job' = [job EXCEPT ![p] = j] /\ job'[p] = j
    BY <1>2, <2>1 DEF Goto, IInv, TypeOK
  <2> HIDE DEF j
  <2>7. /\ InSignup(p)' /\ ~InReview(p)' /\ ~InCheckIn(p)' /\ ~InOffline(p)'
        /\ DirtyAt("signupNotify") = {"registration"}
        /\ ~Registered(r)'
    BY <1>2, <2>4, <2>6 DEF InSignup, InReview, InCheckIn, InOffline, DirtyAt, Registered, tables
  <2>8. JobFollowsLabel(p)'
    BY <2>2, <2>3, <2>4, <2>5, <2>6, <2>7 DEF JobFollowsLabel, Registered
  <2>9. \A q \in Workers \ {p} :
           pc[q] \in {"signupNotify", "signupCommit"} => job[q].rid # j.rid
    <3> SUFFICES ASSUME NEW q \in Workers \ {p}, pc[q] \in {"signupNotify", "signupCommit"}
                 PROVE  job[q].rid # r
      BY <2>5
    <3>1. "registration" \in job[q].dirty /\ ~Registered(job[q].rid)
      BY DEF IInv, JobsFollowLabels, JobFollowsLabel, DirtyAt
    <3> QED
      BY <3>1 DEF FreshIds, Inserting
  <2> QED
    BY <1>2, <2>2, <2>5, <2>6, <2>8, <2>9, SignupLocalStep
<1> QED
  BY <1>1, <1>2 DEF SignupInsert

LEMMA SignupNotifyStep ==
  ASSUME IInv, NEW p \in Workers, SignupNotify(p)
  PROVE  IInv'
<1> DEFINE j == [job[p] EXCEPT !.dirty = job[p].dirty \cup {"signup_success"}]
<1>1. pc[p] = "signupNotify" /\ job[p] \in Job
  BY DEF SignupNotify, At, IInv, TypeOK
<1>2. /\ j \in Job /\ j.rid = job[p].rid /\ j.reg = job[p].reg
      /\ j.aid = job[p].aid /\ j.user = job[p].user /\ j.act = job[p].act
      /\ j.dirty = job[p].dirty \cup {"signup_success"}
  BY <1>1 DEF Job, Statements, NotificationType
<1>3. /\ pc' = [pc EXCEPT ![p] = "signupCommit"] /\ pc'[p] = "signupCommit"
      /\ job' = [job EXCEPT ![p] = j] /\ job'[p] = j
      /\ UNCHANGED <<tables, locks>>
  BY <1>1 DEF SignupNotify, Goto, IInv, TypeOK
<1> HIDE DEF j
<1>4. /\ InSignup(p) /\ InSignup(p)' /\ ~InReview(p)' /\ ~InCheckIn(p)' /\ ~InOffline(p)'
      /\ DirtyAt("signupNotify") = {"registration"}
      /\ DirtyAt("signupCommit") = {"registration", "signup_success"}
  BY <1>1, <1>3 DEF InSignup, InReview, InCheckIn, InOffline, DirtyAt
<1>5. /\ job[p].dirty = {"registration"} /\ job[p].aid \in ActivityIds
      /\ job[p].act \in ActivityRow /\ job[p].user \in Users
      /\ job[p].rid \in RegistrationIds /\ ~Registered(job[p].rid)
      /\ job[p].reg \in RegistrationRow /\ job[p].reg.status = "registered"
  BY <1>1, <1>4 DEF IInv, JobsFollowLabels, JobFollowsLabel
<1>6. JobFollowsLabel(p)'
  <2>1. registrations'[j.rid] = None
    BY <1>2, <1>3, <1>5 DEF Registered, tables
  <2>2. j.dirty = DirtyAt("signupCommit")
    BY <1>2, <1>4, <1>5
  <2>3. /\ j.aid \in ActivityIds /\ j.act \in ActivityRow /\ j.user \in Users
        /\ j.rid \in RegistrationIds
        /\ j.reg \in RegistrationRow /\ j.reg.status = "registered"
    BY <1>2, <1>5
  <2> QED
    BY <1>3, <1>4, <2>1, <2>2, <2>3 DEF JobFollowsLabel, Registered
<1>7. \A q \in Workers \ {p} :
         pc[q] \in {"signupNotify", "signupCommit"} => job[q].rid # j.rid
  BY <1>1, <1>2 DEF IInv, JobsFollowLabels, InsertsAreDistinct
<1> DEFINE label == "signupCommit"
<1>8. /\ label \in {"signupInsert", "signupNotify", "signupCommit"}
      /\ pc' = [pc EXCEPT ![p] = label]
      /\ label \in {"signupNotify", "signupCommit"} =>
            \A q \in Workers \ {p} :
               pc[q] \in {"signupNotify", "signupCommit"} => job[q].rid # j.rid
  BY <1>3, <1>7
<1> HIDE DEF label
<1> QED
  BY <1>2, <1>3, <1>4, <1>6, <1>8, SignupLocalStep

LEMMA OfflineCountStep ==
  ASSUME IInv, NEW p \in Workers, OfflineCount(p)
  PROVE  IInv'
<1>1. CASE Rollback(p)
  BY <1>1, RollbackStep
<1>2. CASE Goto(p, "offlineInsert") /\ UNCHANGED <<tables, locks, job>>
  <2>1. /\ pc' = [pc EXCEPT ![p] = "offlineInsert"] /\ pc'[p] = "offlineInsert"
        /\ job' = [job EXCEPT ![p] = job[p]] /\ job'[p] = job[p] /\ job[p] \in Job
        /\ "offlineInsert" \in Labels /\ pc[p] = "offlineCount"
    BY <1>2 DEF OfflineCount, At, Goto, IInv, TypeOK, Labels
  <2>2. /\ ~InSignup(p) /\ ~InReview(p) /\ ~InCheckIn(p) /\ InOffline(p)
        /\ ~InSignup(p)' /\ ~InReview(p)' /\ ~InCheckIn(p)' /\ InOffline(p)'
        /\ DirtyAt("offlineCount") = {} /\ DirtyAt("offlineInsert") = {}
    BY <2>1 DEF InSignup, InReview, InCheckIn, InOffline, DirtyAt
  <2>3. JobFollowsLabel(p)'
    BY <2>1, <2>2 DEF IInv, JobsFollowLabels, JobFollowsLabel
  <2> QED
    BY <1>2, <2>1, <2>2, <2>3, LocalStep
<1> QED
  BY <1>1, <1>2 DEF OfflineCount

LEMMA ReviewActivityStep ==
  ASSUME IInv, NEW p \in Workers, ReviewActivity(p)
  PROVE  IInv'
<1>1. CASE Rollback(p)
  BY <1>1, RollbackStep
<1>2. CASE Goto(p, "reviewSave") /\ UNCHANGED <<tables, locks, job>>
  <2>1. /\ pc' = [pc EXCEPT ![p] = "reviewSave"] /\ pc'[p] = "reviewSave"
        /\ job' = [job EXCEPT ![p] = job[p]] /\ job'[p] = job[p] /\ job[p] \in Job
        /\ pc[p] = "reviewActivity"
    BY <1>2 DEF ReviewActivity, At, Goto, IInv, TypeOK
  <2>2. /\ InReview(p) /\ InReview(p)' /\ ~InSignup(p)' /\ ~InCheckIn(p)' /\ ~InOffline(p)'
        /\ DirtyAt("reviewActivity") = {} /\ DirtyAt("reviewSave") = {}
    BY <2>1 DEF InSignup, InReview, InCheckIn, InOffline, DirtyAt
  <2>3. /\ job[p].dirty = {} /\ job[p].rid \in RegistrationIds
        /\ Registered(job[p].rid) /\ job[p].reg \in RegistrationRow
    BY <2>1, <2>2 DEF IInv, JobsFollowLabels, JobFollowsLabel
  <2>4. JobFollowsLabel(p)'
    BY <1>2, <2>1, <2>2, <2>3 DEF JobFollowsLabel, Registered, tables
  <2>5. job[p].reg = [job[p].reg EXCEPT !.review = job[p].reg.review]
    BY <2>3 DEF RegistrationRow
  <2> QED
    BY <1>2, <2>1, <2>2, <2>4, <2>5, ReviewLocalStep
<1> QED
  BY <1>1, <1>2 DEF ReviewActivity

LEMMA ReviewSaveStep ==
  ASSUME IInv, NEW p \in Workers, ReviewSave(p)
  PROVE  IInv'
<1>1. PICK decision \in {"approved", "rejected"} :
        job' = [job EXCEPT ![p].reg.review = decision, ![p].dirty = {"registration"}]
  BY DEF ReviewSave
<1> DEFINE row == [job[p].reg EXCEPT !.review = decision]
           j == [job[p] EXCEPT !.reg = row, !.dirty = {"registration"}]
<1>2. pc[p] = "reviewSave" /\ job[p] \in Job /\ InReview(p)
  BY DEF ReviewSave, At, IInv, TypeOK, InReview
<1>3. /\ job[p].rid \in RegistrationIds /\ Registered(job[p].rid)
      /\ job[p].reg \in RegistrationRow
  BY <1>2 DEF IInv, JobsFollowLabels, JobFollowsLabel
<1>4. row \in RegistrationRow /\ row.review = decision
  BY <1>3 DEF RegistrationRow, ReviewStatus
<1>5. /\ j \in Job /\ j.rid = job[p].rid /\ j.reg = row /\ j.dirty = {"registration"}
  BY <1>2, <1>4 DEF Job, Statements
<1>6. /\ pc' = [pc EXCEPT ![p] = "reviewNotify"] /\ pc'[p] = "reviewNotify"
      /\ job' = [job EXCEPT ![p] = j] /\ job'[p] = j
      /\ UNCHANGED <<tables, locks>>
  BY <1>1, <1>2 DEF ReviewSave, Goto, IInv, TypeOK, Job
<1>7. j.reg = [job[p].reg EXCEPT !.review = j.reg.review]
  BY <1>4, <1>5
<1> HIDE DEF j, row
<1>8. /\ InReview(p)' /\ ~InSignup(p)' /\ ~InCheckIn(p)' /\ ~InOffline(p)'
      /\ DirtyAt("reviewNotify") = {"registration"}
      /\ registrations'[j.rid] # None
  BY <1>3, <1>5, <1>6 DEF InSignup, InReview, InCheckIn, InOffline, DirtyAt, Registered, tables
<1>9. JobFollowsLabel(p)'
  BY <1>3, <1>4, <1>5, <1>6, <1>8 DEF JobFollowsLabel, Registered
<1> QED
  BY <1>2, <1>5, <1>6, <1>7, <1>9, ReviewLocalStep

LEMMA ReviewNotifyStep ==
  ASSUME IInv, NEW p \in Workers, ReviewNotify(p)
  PROVE  IInv'
<1> DEFINE j == [job[p] EXCEPT !.dirty = job[p].dirty \cup {"review_result"}]
<1>1. pc[p] = "reviewNotify" /\ job[p] \in Job /\ InReview(p)
  BY DEF ReviewNotify, At, IInv, TypeOK, InReview
<1>2. /\ job[p].rid \in RegistrationIds /\ Registered(job[p].rid)
      /\ job[p].reg \in RegistrationRow /\ job[p].dirty = {"registration"}
  BY <1>1 DEF IInv, JobsFollowLabels, JobFollowsLabel, DirtyAt
<1>3. /\ j \in Job /\ j.rid = job[p].rid /\ j.reg = job[p].reg
      /\ j.dirty = {"registration", "review_result"}
  BY <1>1, <1>2 DEF Job, Statements, NotificationType
<1>4. /\ pc' = [pc EXCEPT ![p] = "reviewCommit"] /\ pc'[p] = "reviewCommit"
      /\ job' = [job EXCEPT ![p] = j] /\ job'[p] = j
      /\ UNCHANGED <<tables, locks>>
  BY <1>1 DEF ReviewNotify, Goto, IInv, TypeOK
<1> HIDE DEF j
<1>5. /\ InReview(p)' /\ ~InSignup(p)' /\ ~InCheckIn(p)' /\ ~InOffline(p)'
      /\ DirtyAt("reviewCommit") = {"registration", "review_result"}
      /\ registrations'[j.rid] # None
  BY <1>2, <1>3, <1>4 DEF InSignup, InReview, InCheckIn, InOffline, DirtyAt, Registered, tables
<1>6. JobFollowsLabel(p)'
  BY <1>2, <1>3, <1>4, <1>5 DEF JobFollowsLabel, Registered
<1>7. j.reg = [job[p].reg EXCEPT !.review = j.reg.review]
  BY <1>2, <1>3 DEF RegistrationRow
<1> QED
  BY <1>1, <1>3, <1>4, <1>6, <1>7, ReviewLocalStep

LEMMA CheckInRecordStep ==
  ASSUME IInv, NEW p \in Workers, CheckInRecord(p)
  PROVE  IInv'
<1> DEFINE j == [job[p] EXCEPT !.dirty = {"check_in"}]
<1>1. pc[p] = "checkInRecord" /\ job[p] \in Job /\ InCheckIn(p)
  BY DEF CheckInRecord, At, IInv, TypeOK, InCheckIn
<1>2. /\ job[p].rid \in RegistrationIds /\ Registered(job[p].rid)
      /\ job[p].reg \in RegistrationRow
      /\ registrations[job[p].rid].status = "registered"
  BY <1>1 DEF IInv, JobsFollowLabels, JobFollowsLabel
<1>3. /\ j \in Job /\ j.rid = job[p].rid /\ j.reg = job[p].reg /\ j.dirty = {"check_in"}
  BY <1>1 DEF Job, Statements
<1>4. /\ pc' = [pc EXCEPT ![p] = "checkInSave"] /\ pc'[p] = "checkInSave"
      /\ job' = [job EXCEPT ![p] = j] /\ job'[p] = j
      /\ UNCHANGED <<tables, locks>>
  BY <1>1 DEF CheckInRecord, Goto, IInv, TypeOK
<1> HIDE DEF j
<1>5. /\ InCheckIn(p)' /\ ~InSignup(p)' /\ ~InReview(p)' /\ ~InOffline(p)'
      /\ DirtyAt("checkInSave") = {"check_in"}
      /\ registrations' = registrations
  BY <1>4 DEF InSignup, InReview, InCheckIn, InOffline, DirtyAt, tables
<1>6. JobFollowsLabel(p)'
  BY <1>2, <1>3, <1>4, <1>5 DEF JobFollowsLabel, Registered
<1>7. j.reg = [job[p].reg EXCEPT !.status = j.reg.status]
  BY <1>2, <1>3 DEF RegistrationRow
<1> QED
  BY <1>1, <1>3, <1>4, <1>6, <1>7, CheckInLocalStep

LEMMA CheckInSaveStep ==
  ASSUME IInv, NEW p \in Workers, CheckInSave(p)
  PROVE  IInv'
<1> DEFINE row == [job[p].reg EXCEPT !.status = "checked_in"]
           j == [job[p] EXCEPT !.reg = row, !.dirty = job[p].dirty \cup {"registration"}]
<1>1. pc[p] = "checkInSave" /\ job[p] \in Job /\ InCheckIn(p)
  BY DEF CheckInSave, At, IInv, TypeOK, InCheckIn
<1>2. /\ job[p].rid \in RegistrationIds /\ Registered(job[p].rid)
      /\ job[p].reg \in RegistrationRow /\ job[p].dirty = {"check_in"}
      /\ registrations[job[p].rid].status = "registered"
  BY <1>1 DEF IInv, JobsFollowLabels, JobFollowsLabel, DirtyAt
<1>3. row \in RegistrationRow /\ row.status = "checked_in"
  BY <1>2 DEF RegistrationRow, RegistrationStatus
<1>4. /\ j \in Job /\ j.rid = job[p].rid /\ j.reg = row
      /\ j.dirty = {"check_in", "registration"}
  BY <1>1, <1>2, <1>3 DEF Job, Statements
<1>5. /\ pc' = [pc EXCEPT ![p] = "checkInNotify"] /\ pc'[p] = "checkInNotify"
      /\ job' = [job EXCEPT ![p] = j] /\ job'[p] = j
      /\ UNCHANGED <<tables, locks>>
  BY <1>1 DEF CheckInSave, Goto, IInv, TypeOK, Job
<1>6. j.reg = [job[p].reg EXCEPT !.status = j.reg.status]
  BY <1>3, <1>4
<1> HIDE DEF j, row
<1>7. /\ InCheckIn(p)' /\ ~InSignup(p)' /\ ~InReview(p)' /\ ~InOffline(p)'
      /\ DirtyAt("checkInNotify") = {"check_in", "registration"}
      /\ registrations' = registrations
  BY <1>5 DEF InSignup, InReview, InCheckIn, InOffline, DirtyAt, tables
<1>8. JobFollowsLabel(p)'
  BY <1>2, <1>3, <1>4, <1>5, <1>7 DEF JobFollowsLabel, Registered
<1> QED
  BY <1>1, <1>4, <1>5, <1>6, <1>8, CheckInLocalStep

LEMMA CheckInNotifyStep ==
  ASSUME IInv, NEW p \in Workers, CheckInNotify(p)
  PROVE  IInv'
<1> DEFINE j == [job[p] EXCEPT !.dirty = job[p].dirty \cup {"checkin_success"}]
<1>1. pc[p] = "checkInNotify" /\ job[p] \in Job /\ InCheckIn(p)
  BY DEF CheckInNotify, At, IInv, TypeOK, InCheckIn
<1>2. /\ job[p].rid \in RegistrationIds /\ Registered(job[p].rid)
      /\ job[p].reg \in RegistrationRow /\ job[p].dirty = {"check_in", "registration"}
      /\ registrations[job[p].rid].status = "registered"
      /\ job[p].reg.status = "checked_in"
  BY <1>1 DEF IInv, JobsFollowLabels, JobFollowsLabel, DirtyAt
<1>3. /\ j \in Job /\ j.rid = job[p].rid /\ j.reg = job[p].reg
      /\ j.dirty = {"check_in", "registration", "checkin_success"}
  BY <1>1, <1>2 DEF Job, Statements, NotificationType
<1>4. /\ pc' = [pc EXCEPT ![p] = "checkInCommit"] /\ pc'[p] = "checkInCommit"
      /\ job' = [job EXCEPT ![p] = j] /\ job'[p] = j
      /\ UNCHANGED <<tables, locks>>
  BY <1>1 DEF CheckInNotify, Goto, IInv, TypeOK
<1> HIDE DEF j
<1>5. /\ InCheckIn(p)' /\ ~InSignup(p)' /\ ~InReview(p)' /\ ~InOffline(p)'
      /\ DirtyAt("checkInCommit") = {"check_in", "registration", "checkin_success"}
      /\ registrations' = registrations
  BY <1>4 DEF InSignup, InReview, InCheckIn, InOffline, DirtyAt, tables
<1>6. JobFollowsLabel(p)'
  BY <1>2, <1>3, <1>4, <1>5 DEF JobFollowsLabel, Registered
<1>7. j.reg = [job[p].reg EXCEPT !.status = j.reg.status]
  BY <1>2, <1>3 DEF RegistrationRow
<1> QED
  BY <1>1, <1>3, <1>4, <1>6, <1>7, CheckInLocalStep

-----------------------------------------------------------------------------
(* Taking a row lock.                                                      *)

LEMMA SignupLockStep ==
  ASSUME IInv, NEW p \in Workers, SignupLock(p)
  PROVE  IInv'
<1> DEFINE a == job[p].aid
           j == [job[p] EXCEPT !.act = activities[a]]
<1>1. CASE Rollback(p)
  BY <1>1, RollbackStep
<1>2. CASE /\ OpenForSignup(a) /\ LockActivity(p, a)
           /\ job' = [job EXCEPT ![p].act = activities[a]]
           /\ Goto(p, "signupCheck") /\ UNCHANGED tables
  <2>1. /\ pc[p] = "signupLock" /\ job[p] \in Job
        /\ ~InSignup(p) /\ ~InReview(p) /\ ~InCheckIn(p)
    BY DEF SignupLock, At, IInv, TypeOK, InSignup, InReview, InCheckIn
  <2>2. a \in ActivityIds /\ job[p].user \in Users /\ job[p].dirty = {}
    BY <2>1 DEF IInv, JobsFollowLabels, JobFollowsLabel, DirtyAt
  <2>3. activities[a] \in ActivityRow
    BY <1>2, <2>2 DEF OpenForSignup, Activity, IInv, TypeOK
  <2>4. /\ j \in Job /\ j.aid = a /\ j.act = activities[a]
        /\ j.user = job[p].user /\ j.dirty = {}
    BY <2>1, <2>2, <2>3 DEF Job
  <2>5. /\ pc' = [pc EXCEPT ![p] = "signupCheck"] /\ pc'[p] = "signupCheck"
        /\ job' = [job EXCEPT ![p] = j] /\ job'[p] = j
        /\ \A q \in Workers \ {p} : pc'[q] = pc[q] /\ job'[q] = job[q]
    BY <1>2, <2>1 DEF Goto, IInv, TypeOK
  <2>6. /\ activityLock[a] = None /\ activityLock' = [activityLock EXCEPT ![a] = p]
        /\ registrationLock' = registrationLock
    BY <1>2 DEF LockActivity
  <2>7. InSignup(p)' /\ ~InReview(p)' /\ ~InCheckIn(p)' /\ ~InOffline(p)'
    BY <2>5 DEF InSignup, InReview, InCheckIn, InOffline
  <2> HIDE DEF j
  <2>8. TypeOK'
    <3>1. "signupCheck" \in Labels
      BY DEF Labels
    <3> QED
      BY <1>2, <2>2, <2>4, <2>5, <2>6, <3>1 DEF IInv, TypeOK, tables
  <2>9. LocksFollowTransactions'
    <3>1. ASSUME NEW q \in Workers, NEW b \in ActivityIds
          PROVE  activityLock'[b] = q <=> InSignup(q)' /\ job'[q].aid = b
      <4>1. CASE q = p
        <5>1. activityLock[b] # p
          BY <2>1 DEF IInv, LocksFollowTransactions
        <5> QED
          BY <2>2, <2>4, <2>5, <2>6, <2>7, <4>1, <5>1 DEF IInv, TypeOK
      <4>2. CASE q # p
        <5>1. InSignup(q)' <=> InSignup(q)
          BY <2>5, <4>2 DEF InSignup
        <5>2. activityLock[b] = q <=> InSignup(q) /\ job[q].aid = b
          BY DEF IInv, LocksFollowTransactions
        <5> QED
          BY <2>2, <2>5, <2>6, <4>2, <5>1, <5>2, NoneAssumption DEF IInv, TypeOK
      <4> QED
        BY <4>1, <4>2
    <3>2. ASSUME NEW q \in Workers, NEW r \in RegistrationIds
          PROVE  registrationLock'[r] = q
                   <=> (InReview(q) \/ InCheckIn(q))' /\ job'[q].rid = r
      BY <2>1, <2>5, <2>6, <2>7 DEF IInv, LocksFollowTransactions, InReview, InCheckIn
    <3> QED
      BY <3>1, <3>2 DEF LocksFollowTransactions
  <2>10. LockedStructsAreFresh'
    BY <1>2, <2>4, <2>5, <2>7 DEF IInv, LockedStructsAreFresh, InSignup, InReview, InCheckIn, tables
  <2>11. ASSUME NEW q \in Workers PROVE JobFollowsLabel(q)'
    <3>1. CASE q = p
      <4>1. DirtyAt("signupCheck") = {}
        BY DEF DirtyAt
      <4> QED
        BY <2>2, <2>3, <2>4, <2>5, <2>7, <3>1, <4>1 DEF JobFollowsLabel
    <3>2. CASE q # p
      BY <1>2, <2>5, <3>2 DEF IInv, JobsFollowLabels, JobFollowsLabel, Registered,
            InSignup, InReview, InCheckIn, InOffline, tables
    <3> QED
      BY <3>1, <3>2
  <2>12. InsertsAreDistinct'
    BY <2>5 DEF IInv, JobsFollowLabels, InsertsAreDistinct
  <2>13. AtMostOneCheckIn' /\ CheckInRecorded'
    BY <1>2 DEF IInv, AtMostOneCheckIn, CheckInRecorded, Registered, tables
  <2> QED
    BY <2>8, <2>9, <2>10, <2>11, <2>12, <2>13 DEF IInv, JobsFollowLabels
<1> QED
  BY <1>1, <1>2 DEF SignupLock

\* A worker that waits for a registration row and gets it, at the first label
\* of a review or of a check-in.
LEMMA RegistrationLockStep ==
  ASSUME IInv, NEW p \in Workers,
         NEW label \in {"reviewActivity", "checkInRecord"},
         pc[p] = IF label = "reviewActivity" THEN "reviewLock" ELSE "checkInLock",
         label = "checkInRecord" => registrations[job[p].rid].status = "registered",
         LockRegistration(p, job[p].rid),
         job' = [job EXCEPT ![p].reg = registrations[job[p].rid]],
         Goto(p, label),
         UNCHANGED tables
  PROVE  IInv'
<1> DEFINE r == job[p].rid
           j == [job[p] EXCEPT !.reg = registrations[r]]
<1>1. /\ pc[p] \in {"reviewLock", "checkInLock"} /\ job[p] \in Job
      /\ ~InSignup(p) /\ ~InReview(p) /\ ~InCheckIn(p)
  BY DEF IInv, TypeOK, InSignup, InReview, InCheckIn
<1>2. r \in RegistrationIds /\ Registered(r) /\ job[p].dirty = {}
  BY <1>1 DEF IInv, JobsFollowLabels, JobFollowsLabel, DirtyAt
<1>3. registrations[r] \in RegistrationRow
  BY <1>2 DEF Registered, IInv, TypeOK
<1>4. j \in Job /\ j.rid = r /\ j.reg = registrations[r] /\ j.dirty = {}
  BY <1>1, <1>2, <1>3 DEF Job
<1>5. /\ pc' = [pc EXCEPT ![p] = label] /\ pc'[p] = label
      /\ job' = [job EXCEPT ![p] = j] /\ job'[p] = j
      /\ \A q \in Workers \ {p} : pc'[q] = pc[q] /\ job'[q] = job[q]
  BY <1>1 DEF Goto, IInv, TypeOK
<1>6. /\ registrationLock[r] = None /\ registrationLock' = [registrationLock EXCEPT ![r] = p]
      /\ activityLock' = activityLock
  BY DEF LockRegistration
<1>7. /\ ~InSignup(p)' /\ (InReview(p) \/ InCheckIn(p))' /\ ~InOffline(p)'
      /\ InCheckIn(p)' => registrations[r].status = "registered"
  BY <1>5 DEF InSignup, InReview, InCheckIn, InOffline
<1> HIDE DEF j
<1>8. TypeOK'
  <2>1. label \in Labels
    BY DEF Labels
  <2> QED
    BY <1>2, <1>4, <1>5, <1>6, <2>1 DEF IInv, TypeOK, tables
<1>9. LocksFollowTransactions'
  <2>1. ASSUME NEW q \in Workers, NEW s \in RegistrationIds
        PROVE  registrationLock'[s] = q
                 <=> (InReview(q) \/ InCheckIn(q))' /\ job'[q].rid = s
    <3>1. CASE q = p
      <4>1. registrationLock[s] # p
        BY <1>1 DEF IInv, LocksFollowTransactions
      <4> QED
        BY <1>2, <1>4, <1>5, <1>6, <1>7, <3>1, <4>1 DEF IInv, TypeOK
    <3>2. CASE q # p
      <4>1. (InReview(q) \/ InCheckIn(q))' <=> InReview(q) \/ InCheckIn(q)
        BY <1>5, <3>2 DEF InReview, InCheckIn
      <4>2. registrationLock[s] = q <=> (InReview(q) \/ InCheckIn(q)) /\ job[q].rid = s
        BY DEF IInv, LocksFollowTransactions
      <4> QED
        BY <1>2, <1>5, <1>6, <3>2, <4>1, <4>2, NoneAssumption DEF IInv, TypeOK
    <3> QED
      BY <3>1, <3>2
  <2>2. ASSUME NEW q \in Workers, NEW a \in ActivityIds
        PROVE  activityLock'[a] = q <=> InSignup(q)' /\ job'[q].aid = a
    BY <1>1, <1>5, <1>6, <1>7 DEF IInv, LocksFollowTransactions, InSignup
  <2> QED
    BY <2>1, <2>2 DEF LocksFollowTransactions
<1>10. LockedStructsAreFresh'
  <2>1. ASSUME NEW q \in Workers \ {p}
        PROVE  /\ InSignup(q)' => job'[q].act = activities'[job'[q].aid]
               /\ InReview(q)' => job'[q].reg = [registrations'[job'[q].rid] EXCEPT !.review = job'[q].reg.review]
               /\ InCheckIn(q)' => job'[q].reg = [registrations'[job'[q].rid] EXCEPT !.status = job'[q].reg.status]
    BY <1>5 DEF IInv, LockedStructsAreFresh, InSignup, InReview, InCheckIn, tables
  <2>2. /\ j.reg = [registrations[r] EXCEPT !.review = j.reg.review]
        /\ j.reg = [registrations[r] EXCEPT !.status = j.reg.status]
    BY <1>3, <1>4 DEF RegistrationRow
  <2> QED
    BY <1>4, <1>5, <1>7, <2>1, <2>2 DEF LockedStructsAreFresh, tables
<1>11. ASSUME NEW q \in Workers PROVE JobFollowsLabel(q)'
  <2>1. CASE q = p
    <3>1. DirtyAt(label) = {} /\ registrations' = registrations
      BY DEF DirtyAt, tables
    <3> QED
      BY <1>2, <1>3, <1>4, <1>5, <1>7, <2>1, <3>1 DEF JobFollowsLabel, Registered
  <2>2. CASE q # p
    BY <1>5, <2>2 DEF IInv, JobsFollowLabels, JobFollowsLabel, Registered,
          InSignup, InReview, InCheckIn, InOffline, tables
  <2> QED
    BY <2>1, <2>2
<1>12. InsertsAreDistinct'
  BY <1>5 DEF IInv, JobsFollowLabels, InsertsAreDistinct
<1>13. AtMostOneCheckIn' /\ CheckInRecorded'
  BY DEF IInv, AtMostOneCheckIn, CheckInRecorded, Registered, tables
<1> QED
  BY <1>8, <1>9, <1>10, <1>11, <1>12, <1>13 DEF IInv, JobsFollowLabels

LEMMA ReviewLockStep ==
  ASSUME IInv, NEW p \in Workers, ReviewLock(p)
  PROVE  IInv'
  BY RegistrationLockStep DEF ReviewLock, At

LEMMA CheckInLockStep ==
  ASSUME IInv, NEW p \in Workers, CheckInLock(p)
  PROVE  IInv'
<1>1. CASE Rollback(p)
  BY <1>1, RollbackStep
<1>2. CASE ~Rollback(p)
  BY <1>2, RegistrationLockStep DEF CheckInLock, At
<1> QED
  BY <1>1, <1>2

-----------------------------------------------------------------------------
(* Statements that reach the tables.                                       *)

\* What every write to table registrations does to the other workers: the row
\* it writes is not the one a transaction has locked or is about to insert,
\* and it does not make a row vanish.
LEMMA OthersKeepJobs ==
  ASSUME IInv, NEW p \in Workers, NEW r \in RegistrationIds, NEW row \in RegistrationRow,
         registrations' = [registrations EXCEPT ![r] = row],
         NEW q \in Workers \ {p}, pc'[q] = pc[q], job'[q] = job[q],
         InReview(q) \/ InCheckIn(q) => job[q].rid # r,
         pc[q] \in {"signupNotify", "signupCommit"} => job[q].rid # r
  PROVE  /\ JobFollowsLabel(q)'
         /\ InReview(q) \/ InCheckIn(q) => registrations'[job[q].rid] = registrations[job[q].rid]
<1>1. /\ \A s \in RegistrationIds : s # r => registrations'[s] = registrations[s]
      /\ registrations'[r] = row /\ row # None
  BY NoneAssumption DEF IInv, TypeOK
<1>2. JobFollowsLabel(q)
  BY DEF IInv, JobsFollowLabels
<1>3. /\ InSignup(q)' <=> InSignup(q)
      /\ InOffline(q)' <=> InOffline(q)
      /\ InReview(q)' <=> InReview(q)
      /\ InCheckIn(q)' <=> InCheckIn(q)
  BY DEF InSignup, InReview, InCheckIn, InOffline
<1>4. \A s \in RegistrationIds : registrations[s] # None => registrations'[s] # None
  BY <1>1
<1>5. InReview(q) \/ InCheckIn(q) => registrations'[job[q].rid] = registrations[job[q].rid]
  BY <1>1, <1>2 DEF JobFollowsLabel
<1>6. JobFollowsLabel(q)'
  BY <1>1, <1>2, <1>3, <1>4, <1>5 DEF JobFollowsLabel, Registered
<1> QED
  BY <1>5, <1>6

LEMMA CommitStep ==
  ASSUME IInv, NEW p \in Workers, Commit(p),
         pc[p] \in {"signupCommit", "reviewCommit", "checkInCommit"}
  PROVE  IInv'
<1> DEFINE r == job[p].rid
           row == job[p].reg
<1>1. /\ r \in RegistrationIds /\ row \in RegistrationRow
      /\ job[p].dirty = DirtyAt(pc[p]) /\ "registration" \in job[p].dirty
      /\ "check_in" \in job[p].dirty <=> pc[p] = "checkInCommit"
      /\ pc[p] = "signupCommit" => ~Registered(r) /\ row.status = "registered"
      /\ pc[p] # "signupCommit" => Registered(r)
      /\ pc[p] = "checkInCommit" =>
            row.status = "checked_in" /\ registrations[r].status = "registered"
  BY DEF IInv, JobsFollowLabels, JobFollowsLabel, DirtyAt, InReview, InCheckIn
<1>2. /\ registrations' = [registrations EXCEPT ![r] = row]
      /\ checkIns' = IF pc[p] = "checkInCommit"
                     THEN [checkIns EXCEPT ![r] = checkIns[r] + 1] ELSE checkIns
      /\ notifications' =
            [notifications EXCEPT ![r] =
               [t \in NotificationType |->
                  IF t \in job[p].dirty THEN notifications[r][t] + 1 ELSE notifications[r][t]]]
      /\ UNCHANGED <<activities, allocated, expired>>
      /\ Return(p) /\ ReleaseLocks(p)
  BY <1>1 DEF Commit
<1>3. /\ pc' \in [Workers -> Labels] /\ job' \in [Workers -> Job]
      /\ pc'[p] = "idle" /\ job'[p] = NoJob
      /\ \A q \in Workers \ {p} : pc'[q] = pc[q] /\ job'[q] = job[q]
      /\ InsertsAreDistinct'
  BY <1>2, ReturnOthers
<1>4. /\ LocksFollowTransactions'
      /\ activityLock' \in [ActivityIds -> Workers \cup {None}]
      /\ registrationLock' \in [RegistrationIds -> Workers \cup {None}]
  BY <1>2, ReturnReleases
<1>5. /\ JobFollowsLabel(p)'
      /\ ~InSignup(p)' /\ ~InReview(p)' /\ ~InCheckIn(p)'
  BY <1>3, IdleJob
<1>6. ASSUME NEW q \in Workers \ {p}
      PROVE  /\ JobFollowsLabel(q)'
             /\ InReview(q) \/ InCheckIn(q) =>
                   registrations'[job[q].rid] = registrations[job[q].rid]
  <2>1. InReview(q) \/ InCheckIn(q) => job[q].rid # r
    <3>1. CASE pc[p] = "signupCommit"
      <4>1. InReview(q) \/ InCheckIn(q) => Registered(job[q].rid)
        BY DEF IInv, JobsFollowLabels, JobFollowsLabel
      <4> QED
        BY <1>1, <3>1, <4>1
    <3>2. CASE pc[p] # "signupCommit"
      <4>1. InReview(p) \/ InCheckIn(p)
        BY <3>2 DEF InReview, InCheckIn
      <4>2. registrationLock[r] = p
        BY <1>1, <4>1 DEF IInv, LocksFollowTransactions
      <4>3. InReview(q) \/ InCheckIn(q) =>
               job[q].rid \in RegistrationIds /\ registrationLock[job[q].rid] = q
        BY DEF IInv, LocksFollowTransactions, JobsFollowLabels, JobFollowsLabel
      <4> QED
        BY <4>2, <4>3
    <3> QED
      BY <3>1, <3>2
  <2>2. pc[q] \in {"signupNotify", "signupCommit"} => job[q].rid # r
    <3>1. pc[q] \in {"signupNotify", "signupCommit"} => ~Registered(job[q].rid)
      BY DEF IInv, JobsFollowLabels, JobFollowsLabel
    <3>2. pc[p] = "signupCommit" /\ pc[q] \in {"signupNotify", "signupCommit"}
             => job[q].rid # r
      BY DEF IInv, JobsFollowLabels, InsertsAreDistinct
    <3> QED
      BY <1>1, <3>1, <3>2
  <2> QED
    BY <1>1, <1>2, <1>3, <2>1, <2>2, OthersKeepJobs
<1> HIDE DEF r, row
<1>7. TypeOK'
  <2>1. registrations' \in [RegistrationIds -> RegistrationRow \cup {None}]
    BY <1>1, <1>2 DEF IInv, TypeOK
  <2>2. checkIns' \in [RegistrationIds -> Nat]
    BY <1>1, <1>2 DEF IInv, TypeOK
  <2>3. notifications' \in [RegistrationIds -> [NotificationType -> Nat]]
    BY <1>1, <1>2 DEF IInv, TypeOK
  <2> QED
    BY <1>2, <1>3, <1>4, <2>1, <2>2, <2>3 DEF IInv, TypeOK
<1>8. LockedStructsAreFresh'
  <2>1. ASSUME NEW q \in Workers \ {p}
        PROVE  /\ InSignup(q)' => job'[q].act = activities'[job'[q].aid]
               /\ InReview(q)' => job'[q].reg = [registrations'[job'[q].rid] EXCEPT !.review = job'[q].reg.review]
               /\ InCheckIn(q)' => job'[q].reg = [registrations'[job'[q].rid] EXCEPT !.status = job'[q].reg.status]
    <3>1. /\ InSignup(q)' <=> InSignup(q)
          /\ InReview(q)' <=> InReview(q)
          /\ InCheckIn(q)' <=> InCheckIn(q)
      BY <1>3 DEF InSignup, InReview, InCheckIn
    <3>2. /\ InSignup(q) => job[q].act = activities[job[q].aid]
          /\ InReview(q) => job[q].reg = [registrations[job[q].rid] EXCEPT !.review = job[q].reg.review]
          /\ InCheckIn(q) => job[q].reg = [registrations[job[q].rid] EXCEPT !.status = job[q].reg.status]
      BY DEF IInv, LockedStructsAreFresh
    <3> QED
      BY <1>2, <1>3, <1>6, <3>1, <3>2
  <2> QED
    BY <1>5, <2>1 DEF LockedStructsAreFresh
<1>9. AtMostOneCheckIn' /\ CheckInRecorded'
  <2>1. CASE pc[p] = "signupCommit"
    BY <1>1, <1>2, <2>1, NoneAssumption
    DEF IInv, TypeOK, AtMostOneCheckIn, CheckInRecorded, Registered
  <2>2. CASE pc[p] = "reviewCommit"
    <3>1. row.status = registrations[r].status
      <4>1. row = [registrations[r] EXCEPT !.review = row.review]
        BY <2>2 DEF IInv, LockedStructsAreFresh, InReview, r, row
      <4>2. registrations[r] \in RegistrationRow
        BY <1>1, <2>2 DEF IInv, TypeOK, Registered
      <4> QED
        BY <4>1, <4>2 DEF RegistrationRow
    <3> QED
      BY <1>1, <1>2, <2>2, <3>1, NoneAssumption
      DEF IInv, TypeOK, AtMostOneCheckIn, CheckInRecorded, Registered
  <2>3. CASE pc[p] = "checkInCommit"
    <3>1. checkIns[r] = 0
      BY <1>1, <2>3 DEF IInv, TypeOK, CheckInRecorded
    <3> QED
      BY <1>1, <1>2, <2>3, <3>1, NoneAssumption
      DEF IInv, TypeOK, AtMostOneCheckIn, CheckInRecorded, Registered
  <2> QED
    BY <2>1, <2>2, <2>3
<1> QED
  BY <1>3, <1>4, <1>5, <1>6, <1>7, <1>8, <1>9 DEF IInv, JobsFollowLabels

\* An autocommit statement on one registration row: the others keep their
\* locks and what they read, if the row is not locked and not being inserted.
LEMMA AutocommitStep ==
  ASSUME IInv, NEW p \in Workers, NEW r \in RegistrationIds, NEW row \in RegistrationRow,
         ~InSignup(p), ~InReview(p), ~InCheckIn(p),
         registrations' = [registrations EXCEPT ![r] = row],
         Return(p),
         UNCHANGED <<activities, allocated, expired, checkIns, notifications, locks>>,
         registrationLock[r] = None \/ ~Registered(r),
         Registered(r) \/ r \in FreshIds,
         Registered(r) => row.status = "cancelled",
         ~Registered(r) => row.status = "registered"
  PROVE  IInv'
<1>1. /\ pc' \in [Workers -> Labels] /\ job' \in [Workers -> Job]
      /\ pc'[p] = "idle" /\ job'[p] = NoJob
      /\ \A q \in Workers \ {p} : pc'[q] = pc[q] /\ job'[q] = job[q]
      /\ InsertsAreDistinct'
  BY ReturnOthers
<1>2. /\ JobFollowsLabel(p)'
      /\ ~InSignup(p)' /\ ~InReview(p)' /\ ~InCheckIn(p)'
  BY <1>1, IdleJob
<1>3. ASSUME NEW q \in Workers \ {p}
      PROVE  /\ JobFollowsLabel(q)'
             /\ InReview(q) \/ InCheckIn(q) =>
                   registrations'[job[q].rid] = registrations[job[q].rid]
  <2>1. InReview(q) \/ InCheckIn(q) =>
           /\ job[q].rid \in RegistrationIds /\ Registered(job[q].rid)
           /\ registrationLock[job[q].rid] = q
    BY DEF IInv, LocksFollowTransactions, JobsFollowLabels, JobFollowsLabel
  <2>2. InReview(q) \/ InCheckIn(q) => job[q].rid # r
    BY <2>1, NoneAssumption
  <2>3. pc[q] \in {"signupNotify", "signupCommit"} =>
           ~Registered(job[q].rid) /\ "registration" \in job[q].dirty
    BY DEF IInv, JobsFollowLabels, JobFollowsLabel, DirtyAt
  <2>4. pc[q] \in {"signupNotify", "signupCommit"} => job[q].rid # r
    BY <2>3 DEF FreshIds, Inserting
  <2> QED
    BY <1>1, <2>2, <2>4, OthersKeepJobs
<1>4. TypeOK'
  BY <1>1 DEF IInv, TypeOK, locks
<1>5. LocksFollowTransactions'
  BY <1>1, <1>2 DEF IInv, LocksFollowTransactions, InSignup, InReview, InCheckIn, locks
<1>6. LockedStructsAreFresh'
  <2>1. ASSUME NEW q \in Workers \ {p}
        PROVE  /\ InSignup(q)' => job'[q].act = activities'[job'[q].aid]
               /\ InReview(q)' => job'[q].reg = [registrations'[job'[q].rid] EXCEPT !.review = job'[q].reg.review]
               /\ InCheckIn(q)' => job'[q].reg = [registrations'[job'[q].rid] EXCEPT !.status = job'[q].reg.status]
    <3>1. /\ InSignup(q)' <=> InSignup(q)
          /\ InReview(q)' <=> InReview(q)
          /\ InCheckIn(q)' <=> InCheckIn(q)
      BY <1>1 DEF InSignup, InReview, InCheckIn
    <3>2. /\ InSignup(q) => job[q].act = activities[job[q].aid]
          /\ InReview(q) => job[q].reg = [registrations[job[q].rid] EXCEPT !.review = job[q].reg.review]
          /\ InCheckIn(q) => job[q].reg = [registrations[job[q].rid] EXCEPT !.status = job[q].reg.status]
      BY DEF IInv, LockedStructsAreFresh
    <3> QED
      BY <1>1, <1>3, <3>1, <3>2
  <2> QED
    BY <1>2, <2>1 DEF LockedStructsAreFresh
<1>7. AtMostOneCheckIn' /\ CheckInRecorded'
  BY NoneAssumption DEF IInv, TypeOK, AtMostOneCheckIn, CheckInRecorded, Registered
<1> QED
  BY <1>1, <1>2, <1>3, <1>4, <1>5, <1>6, <1>7 DEF IInv, JobsFollowLabels

LEMMA CancelSaveStep ==
  ASSUME IInv, NEW p \in Workers, CancelSave(p)
  PROVE  IInv'
<1>1. /\ pc[p] = "cancelSave" /\ ~InSignup(p) /\ ~InReview(p) /\ ~InCheckIn(p)
      /\ registrationLock[job[p].rid] = None
  BY DEF CancelSave, At, InSignup, InReview, InCheckIn
<1>2. /\ job[p].rid \in RegistrationIds /\ Registered(job[p].rid)
      /\ job[p].reg \in RegistrationRow /\ job[p].reg.status = "cancelled"
  BY <1>1 DEF IInv, JobsFollowLabels, JobFollowsLabel
<1> QED
  BY <1>1, <1>2, AutocommitStep DEF CancelSave

LEMMA OfflineInsertStep ==
  ASSUME IInv, NEW p \in Workers, OfflineInsert(p)
  PROVE  IInv'
<1>1. CASE Rollback(p)
  BY <1>1, RollbackStep
<1>2. ASSUME NEW v \in Vouchers, NEW r \in FreshIds, NEW row,
             row = NewRegistration(job[p].aid, job[p].user, v, "approved"),
             registrations' = [registrations EXCEPT ![r] = row],
             Return(p),
             UNCHANGED <<activities, allocated, expired, checkIns, notifications, locks>>
      PROVE  IInv'
  <2>1. /\ pc[p] = "offlineInsert" /\ InOffline(p)
        /\ ~InSignup(p) /\ ~InReview(p) /\ ~InCheckIn(p)
    BY DEF OfflineInsert, At, InOffline, InSignup, InReview, InCheckIn
  <2>2. job[p].aid \in ActivityIds /\ job[p].user \in Users
    BY <2>1 DEF IInv, JobsFollowLabels, JobFollowsLabel
  <2>3. row \in RegistrationRow /\ row.status = "registered"
    BY <1>2, <2>2 DEF NewRegistration, RegistrationRow, RegistrationStatus, ReviewStatus
  <2>4. r \in RegistrationIds /\ ~Registered(r)
    BY DEF FreshIds
  <2> QED
    BY <1>2, <2>1, <2>3, <2>4, AutocommitStep
<1> QED
  BY <1>1, <1>2 DEF OfflineInsert

\* A commit that ends a transaction which inserts, reviews or checks in.
LEMMA CommitsStep ==
  ASSUME IInv, NEW p \in Workers,
         SignupCommit(p) \/ ReviewCommit(p) \/ CheckInCommit(p)
  PROVE  IInv'
  BY CommitStep DEF SignupCommit, ReviewCommit, CheckInCommit, At

-----------------------------------------------------------------------------
(* Activities.  An id that is not given out has no row and no handler that *)
(* is about to write one: so an INSERT meets neither.                      *)

IdsAreAllocated ==
    /\ \A a \in ActivityIds : Activity(a) => a \in allocated
    /\ \A p \in Workers : pc[p] = "activitySave" => job[p].aid \in allocated

\* A write to the row of an activity that no sign-up has locked or judged.
LEMMA ActivityRowStep ==
  ASSUME IInv, NEW a \in ActivityIds, NEW row \in ActivityRow \cup {None},
         activities' = [activities EXCEPT ![a] = row],
         allocated' \subseteq ActivityIds, expired' \subseteq ActivityIds,
         UNCHANGED <<registrations, checkIns, notifications, locks, pc, job>>,
         \A q \in Workers : InSignup(q) => job[q].aid # a
  PROVE  IInv'
<1>1. TypeOK'
  BY DEF IInv, TypeOK, locks
<1>2. LocksFollowTransactions'
  BY DEF IInv, LocksFollowTransactions, InSignup, InReview, InCheckIn, locks
<1>3. LockedStructsAreFresh'
  <2>1. ASSUME NEW q \in Workers, InSignup(q)
        PROVE  job[q].act = activities'[job[q].aid]
    <3>1. job[q].aid \in ActivityIds /\ job[q].act = activities[job[q].aid]
      BY <2>1 DEF IInv, JobsFollowLabels, JobFollowsLabel, LockedStructsAreFresh
    <3> QED
      BY <2>1, <3>1 DEF IInv, TypeOK
  <2> QED
    BY <2>1 DEF IInv, LockedStructsAreFresh, InSignup, InReview, InCheckIn
<1>4. JobsFollowLabels'
  BY DEF IInv, JobsFollowLabels, InsertsAreDistinct, JobFollowsLabel, Registered,
         InSignup, InReview, InCheckIn, InOffline
<1>5. AtMostOneCheckIn' /\ CheckInRecorded'
  BY DEF IInv, AtMostOneCheckIn, CheckInRecorded, Registered
<1> QED
  BY <1>1, <1>2, <1>3, <1>4, <1>5 DEF IInv

LEMMA CreateActivityStep ==
  ASSUME IInv, IdsAreAllocated, NEW p \in Workers, CreateActivity(p)
  PROVE  IInv'
<1>1. PICK a \in ActivityIds \ allocated, row \in ActivityRow :
        /\ activities' = [activities EXCEPT ![a] = row]
        /\ allocated' = allocated \cup {a}
        /\ expired' = expired \cup {a} \/ expired' = expired
  BY DEF CreateActivity, ActivityRow, Organizers
<1>2. ASSUME NEW q \in Workers, InSignup(q) PROVE job[q].aid # a
  <2>1. /\ job[q].aid \in ActivityIds /\ job[q].act = activities[job[q].aid]
        /\ job[q].act \in ActivityRow
    BY <1>2 DEF IInv, JobsFollowLabels, JobFollowsLabel, LockedStructsAreFresh
  <2> QED
    BY <1>1, <2>1, NoneAssumption DEF IdsAreAllocated, Activity
<1>3. allocated' \subseteq ActivityIds /\ expired' \subseteq ActivityIds
  BY <1>1 DEF IInv, TypeOK
<1>4. UNCHANGED <<registrations, checkIns, notifications, locks, pc, job>>
  BY DEF CreateActivity
<1> QED
  BY <1>1, <1>2, <1>3, <1>4, ActivityRowStep

\* The UPDATE and the DELETE wait for the row lock, so no sign-up has the row.
LEMMA ActivityWorkStep ==
  ASSUME IInv, NEW p \in Workers, ActivityWork(p)
  PROVE  IInv'
<1> DEFINE a == job[p].aid
<1>1. /\ pc[p] \in {"activitySave", "activityDelete"}
      /\ activityLock[a] = None
      /\ Return(p)
      /\ UNCHANGED <<allocated, expired, registrations, checkIns, notifications, locks>>
  BY DEF ActivityWork, ActivitySave, ActivityDelete, At
<1>2. a \in ActivityIds /\ (pc[p] = "activitySave" => job[p].act \in ActivityRow)
  BY <1>1 DEF IInv, JobsFollowLabels, JobFollowsLabel
<1>3. PICK row \in ActivityRow \cup {None} : activities' = [activities EXCEPT ![a] = row]
  BY <1>1, <1>2 DEF ActivityWork, ActivitySave, ActivityDelete, At
<1>4. /\ pc' \in [Workers -> Labels] /\ job' \in [Workers -> Job]
      /\ pc'[p] = "idle" /\ job'[p] = NoJob
      /\ \A q \in Workers \ {p} : pc'[q] = pc[q] /\ job'[q] = job[q]
      /\ InsertsAreDistinct'
  BY <1>1, ReturnOthers
<1>5. /\ JobFollowsLabel(p)'
      /\ ~InSignup(p)' /\ ~InReview(p)' /\ ~InCheckIn(p)'
      /\ ~InSignup(p) /\ ~InReview(p) /\ ~InCheckIn(p)
  BY <1>1, <1>4, IdleJob DEF InSignup, InReview, InCheckIn
<1>6. \A q \in Workers : InSignup(q) => job[q].aid # a
  BY <1>1, <1>2, NoneAssumption DEF IInv, LocksFollowTransactions
<1>7. TypeOK'
  BY <1>1, <1>2, <1>3, <1>4 DEF IInv, TypeOK, locks
<1>8. LocksFollowTransactions'
  BY <1>1, <1>4, <1>5 DEF IInv, LocksFollowTransactions, InSignup, InReview, InCheckIn, locks
<1>9. LockedStructsAreFresh'
  <2>1. ASSUME NEW q \in Workers \ {p}, InSignup(q)
        PROVE  job[q].act = activities'[job[q].aid]
    <3>1. job[q].aid \in ActivityIds /\ job[q].act = activities[job[q].aid]
      BY <2>1 DEF IInv, JobsFollowLabels, JobFollowsLabel, LockedStructsAreFresh
    <3> QED
      BY <1>3, <1>6, <2>1, <3>1 DEF IInv, TypeOK
  <2> QED
    BY <1>1, <1>4, <1>5, <2>1 DEF IInv, LockedStructsAreFresh, InSignup, InReview, InCheckIn
<1>10. ASSUME NEW q \in Workers PROVE JobFollowsLabel(q)'
  <2>1. CASE q = p
    BY <1>5, <2>1
  <2>2. CASE q # p
    BY <1>1, <1>4, <2>2 DEF IInv, JobsFollowLabels, JobFollowsLabel, Registered,
          InSignup, InReview, InCheckIn, InOffline
  <2> QED
    BY <2>1, <2>2
<1>11. AtMostOneCheckIn' /\ CheckInRecorded'
  BY <1>1 DEF IInv, AtMostOneCheckIn, CheckInRecorded, Registered
<1> QED
  BY <1>4, <1>7, <1>8, <1>9, <1>10, <1>11 DEF IInv, JobsFollowLabels

-----------------------------------------------------------------------------
(* Steps of no handler.                                                    *)

\* The clock touches a column no invariant is about.
LEMMA DeadlinePassesStep ==
  ASSUME IInv, DeadlinePasses
  PROVE  IInv'
<1>1. PICK a \in allocated : expired' = expired \cup {a}
  BY DEF DeadlinePasses
<1>2. UNCHANGED <<activities, allocated, registrations, checkIns, notifications, locks, pc, job>>
  BY DEF DeadlinePasses
<1>3. TypeOK'
  BY <1>1, <1>2 DEF IInv, TypeOK, locks
<1>4. /\ LocksFollowTransactions' /\ LockedStructsAreFresh' /\ JobsFollowLabels'
      /\ AtMostOneCheckIn' /\ CheckInRecorded'
  BY <1>2 DEF IInv, LocksFollowTransactions, LockedStructsAreFresh, JobsFollowLabels,
        InsertsAreDistinct, JobFollowsLabel, AtMostOneCheckIn, CheckInRecorded,
        Registered, InSignup, InReview, InCheckIn, InOffline, locks
<1> QED
  BY <1>3, <1>4 DEF IInv

\* After a crash every worker is idle and every row is free.
LEMMA CrashStep ==
  ASSUME IInv, Crash
  PROVE  IInv'
<1>1. /\ \A p \in Workers : pc'[p] = "idle" /\ job'[p] = NoJob
      /\ \A a \in ActivityIds : activityLock'[a] = None
      /\ \A r \in RegistrationIds : registrationLock'[r] = None
  BY DEF Crash
<1>2. TypeOK'
  BY DEF Crash, IInv, TypeOK, Job, NoJob, Labels, tables
<1>3. /\ \A p \in Workers :
            JobFollowsLabel(p)' /\ ~InSignup(p)' /\ ~InReview(p)' /\ ~InCheckIn(p)'
      /\ InsertsAreDistinct'
  BY <1>1, IdleJob DEF InsertsAreDistinct
<1>4. LocksFollowTransactions' /\ LockedStructsAreFresh'
  BY <1>1, <1>3, NoneAssumption DEF LocksFollowTransactions, LockedStructsAreFresh
<1>5. AtMostOneCheckIn' /\ CheckInRecorded'
  BY DEF Crash, tables, IInv, AtMostOneCheckIn, CheckInRecorded, Registered
<1> QED
  BY <1>2, <1>3, <1>4, <1>5 DEF IInv, JobsFollowLabels

LEMMA StutterStep ==
  ASSUME IInv, UNCHANGED vars
  PROVE  IInv'
<1>1. UNCHANGED <<activities, allocated, expired, registrations, checkIns, notifications,
                  activityLock, registrationLock, pc, job>>
  BY DEF vars, tables, locks
<1> QED
  BY <1>1 DEF IInv, TypeOK, LocksFollowTransactions, LockedStructsAreFresh, JobsFollowLabels,
        InsertsAreDistinct, JobFollowsLabel, AtMostOneCheckIn, CheckInRecorded,
        Registered, InSignup, InReview, InCheckIn, InOffline

-----------------------------------------------------------------------------
(* The induction.                                                          *)

LEMMA RequestStep ==
  ASSUME IInv, IdsAreAllocated, NEW p \in Workers, Request(p)
  PROVE  IInv'
<1>1. CASE ActivityRequest(p)
  BY <1>1, CreateActivityStep, UpdateFindStep, PublishFindStep, EndFindStep, DeleteFindStep
  DEF ActivityRequest
<1>2. CASE RegistrationRequest(p)
  BY <1>2, SignupBeginStep, CancelFindStep, ReviewBeginStep, OfflineFindStep
  DEF RegistrationRequest
<1>3. CASE CheckInRequest(p)
  BY <1>3, CheckInRequestStep
<1> QED
  BY <1>1, <1>2, <1>3 DEF Request

LEMMA WorkStep ==
  ASSUME IInv, NEW p \in Workers, Work(p)
  PROVE  IInv'
<1>1. CASE ActivityWork(p)
  BY <1>1, ActivityWorkStep
<1>2. CASE RegistrationWork(p)
  BY <1>2, SignupLockStep, SignupCheckStep, SignupInsertStep, SignupNotifyStep, CommitsStep,
     CancelSaveStep, ReviewLockStep, ReviewActivityStep, ReviewSaveStep, ReviewNotifyStep,
     OfflineCountStep, OfflineInsertStep
  DEF RegistrationWork
<1>3. CASE CheckInWork(p)
  BY <1>3, CheckInLockStep, CheckInRecordStep, CheckInSaveStep, CheckInNotifyStep, CommitsStep
  DEF CheckInWork
<1> QED
  BY <1>1, <1>2, <1>3 DEF Work

LEMMA NextIInv ==
  ASSUME IInv, IdsAreAllocated, [Next]_vars
  PROVE  IInv'
<1>1. ASSUME NEW p \in Workers, StatementFails(p) PROVE IInv'
  BY <1>1, RollbackStep DEF StatementFails
<1> QED
  BY <1>1, RequestStep, WorkStep, DeadlinePassesStep, CrashStep, StutterStep DEF Next

\* A step of a worker that writes no activity row.
LEMMA IdsKept ==
  ASSUME IdsAreAllocated, NEW p \in Workers,
         UNCHANGED <<activities, allocated>>,
         \A q \in Workers \ {p} : pc'[q] = pc[q] /\ job'[q] = job[q],
         pc'[p] = "activitySave" => job'[p].aid \in allocated
  PROVE  IdsAreAllocated'
  BY DEF IdsAreAllocated, Activity

LEMMA RequestIds ==
  ASSUME TypeOK, IdsAreAllocated, NEW p \in Workers, Request(p)
  PROVE  IdsAreAllocated'
<1>1. CASE CreateActivity(p)
  BY <1>1 DEF CreateActivity, TypeOK, IdsAreAllocated, Activity
<1>2. CASE UpdateFind(p) \/ PublishFind(p) \/ EndFind(p)
  <2>1. PICK a \in ActivityIds :
          /\ Activity(a)
          /\ pc' = [pc EXCEPT ![p] = "activitySave"]
          /\ \E row : job' = [job EXCEPT ![p] = [NoJob EXCEPT !.aid = a, !.act = row]]
          /\ UNCHANGED <<tables, locks>>
    BY <1>2 DEF UpdateFind, PublishFind, EndFind, Begin
  <2>2. job'[p].aid = a /\ a \in allocated
    BY <2>1 DEF TypeOK, NoJob, IdsAreAllocated
  <2> QED
    BY <2>1, <2>2, IdsKept DEF TypeOK, tables
<1>3. CASE DeleteFind(p) \/ RegistrationRequest(p) \/ CheckInRequest(p)
  <2>1. PICK label \in {"activityDelete", "signupLock", "cancelSave", "reviewLock",
                        "offlineCount", "checkInLock"} :
          /\ pc' = [pc EXCEPT ![p] = label]
          /\ \E j : job' = [job EXCEPT ![p] = j]
          /\ UNCHANGED <<tables, locks>>
    BY <1>3 DEF DeleteFind, RegistrationRequest, SignupBegin, CancelFind, ReviewBegin,
          OfflineFind, CheckInRequest, CheckInByVoucher, CheckInByScan, CheckInFound, Begin
  <2>2. pc'[p] # "activitySave"
    BY <2>1 DEF TypeOK
  <2> QED
    BY <2>1, <2>2, IdsKept DEF TypeOK, tables
<1> QED
  BY <1>1, <1>2, <1>3 DEF Request, ActivityRequest

LEMMA WorkIds ==
  ASSUME TypeOK, IdsAreAllocated, NEW p \in Workers, Work(p) \/ Rollback(p)
  PROVE  IdsAreAllocated'
<1>1. CASE Rollback(p)
  BY <1>1, IdsKept DEF Rollback, Return, tables, TypeOK
<1>2. CASE ActivityWork(p)
  BY <1>2, NoneAssumption
  DEF ActivityWork, ActivitySave, ActivityDelete, At, Return, TypeOK, IdsAreAllocated, Activity
<1>3. CASE SignupLock(p) \/ SignupCheck(p) \/ SignupInsert(p) \/ SignupNotify(p)
  BY <1>1, <1>3, IdsKept
  DEF SignupLock, SignupCheck, SignupInsert, SignupNotify, Goto, tables, TypeOK
<1>4. CASE ReviewLock(p) \/ ReviewActivity(p) \/ ReviewSave(p) \/ ReviewNotify(p)
  BY <1>1, <1>4, IdsKept
  DEF ReviewLock, ReviewActivity, ReviewSave, ReviewNotify, Goto, tables, TypeOK
<1>5. CASE CheckInLock(p) \/ CheckInRecord(p) \/ CheckInSave(p) \/ CheckInNotify(p)
  BY <1>1, <1>5, IdsKept
  DEF CheckInLock, CheckInRecord, CheckInSave, CheckInNotify, Goto, tables, TypeOK
<1>6. CASE CancelSave(p) \/ OfflineCount(p) \/ OfflineInsert(p)
  BY <1>1, <1>6, IdsKept
  DEF CancelSave, OfflineCount, OfflineInsert, Goto, Return, tables, TypeOK
<1>7. CASE Commit(p)
  BY <1>7, IdsKept DEF Commit, Return, TypeOK
<1> QED
  BY <1>1, <1>2, <1>3, <1>4, <1>5, <1>6, <1>7
  DEF Work, RegistrationWork, CheckInWork, SignupCommit, ReviewCommit, CheckInCommit

LEMMA NextIds ==
  ASSUME TypeOK, IdsAreAllocated, [Next]_vars
  PROVE  IdsAreAllocated'
<1>1. CASE DeadlinePasses \/ Crash \/ UNCHANGED vars
  BY <1>1 DEF DeadlinePasses, Crash, vars, tables, IdsAreAllocated, Activity
<1> QED
  BY <1>1, RequestIds, WorkIds DEF Next, StatementFails

\* The invariant the other theorems rest on: types, locks, copies of rows and
\* the two check-in facts hold together in every state, because each is what
\* keeps one of the others over a step.
THEOREM Inductive == Spec => [](IInv /\ IdsAreAllocated)
<1>1. Init => IInv /\ IdsAreAllocated
  BY InitIInv DEF Init, IdsAreAllocated
<1>2. IInv /\ IdsAreAllocated /\ [Next]_vars => (IInv /\ IdsAreAllocated)'
  <2> SUFFICES ASSUME IInv, IdsAreAllocated, [Next]_vars
               PROVE  IInv' /\ IdsAreAllocated'
    OBVIOUS
  <2>1. TypeOK
    BY DEF IInv
  <2> QED
    BY <2>1, NextIInv, NextIds
<1> QED
  BY <1>1, <1>2, PTL DEF Spec

\* Type correctness: the tables and the locals of the handlers always hold
\* values of the Go types they stand for.
THEOREM TypeCorrect == Spec => []TypeOK
  BY Inductive, PTL DEF IInv

\* Row locks are held exactly by the transactions that took them: no early
\* return, failed statement or crash of a handler leaks or loses one.
THEOREM LocksCorrect == Spec => []LocksFollowTransactions
  BY Inductive, PTL DEF IInv

\* A struct read with SELECT ... FOR UPDATE is the committed row until the
\* transaction ends, so the Save of Review and of doCheckIn, which writes every
\* column, loses no update of another handler.
THEOREM StructsFresh == Spec => []LockedStructsAreFresh
  BY Inductive, PTL DEF IInv

\* What a handler is about to write is still allowed when it writes it: its
\* new id is free, its row is there, its registration is open for check-in.
THEOREM JobsCorrect == Spec => []JobsFollowLabels
  BY Inductive, PTL DEF IInv

\* However many scanners check in a registration, doCheckIn records it once.
THEOREM CheckInOnce == Spec => []AtMostOneCheckIn
  BY Inductive, PTL DEF IInv

\* The record and the status that doCheckIn writes to two tables never
\* disagree, whatever fails between the two statements.
THEOREM CheckInConsistent == Spec => []CheckInRecorded
  BY Inductive, PTL DEF IInv

-----------------------------------------------------------------------------
(* Cancelled registrations.                                                *)

\* The only steps that write registrations, their records or notifications.
LEMMA RegistrationWriters ==
  ASSUME [Next]_vars,
         ~(UNCHANGED <<registrations, checkIns, notifications>>)
  PROVE  \E p \in Workers :
            \/ SignupCommit(p) \/ ReviewCommit(p) \/ CheckInCommit(p)
            \/ CancelSave(p) \/ OfflineInsert(p)
<1>1. CASE DeadlinePasses \/ Crash \/ UNCHANGED vars
  BY <1>1 DEF DeadlinePasses, Crash, vars, tables
<1>2. ASSUME NEW p \in Workers, StatementFails(p) PROVE FALSE
  BY <1>2 DEF StatementFails, Rollback, tables
<1>3. ASSUME NEW p \in Workers, Request(p) PROVE FALSE
  BY <1>3 DEF Request, ActivityRequest, RegistrationRequest, CheckInRequest,
        CreateActivity, UpdateFind, PublishFind, EndFind, DeleteFind, SignupBegin, CancelFind,
        ReviewBegin, OfflineFind, CheckInByVoucher, CheckInByScan, CheckInFound, tables
<1>4. ASSUME NEW p \in Workers, Work(p)
      PROVE  \/ SignupCommit(p) \/ ReviewCommit(p) \/ CheckInCommit(p)
             \/ CancelSave(p) \/ OfflineInsert(p)
  <2>1. ~Rollback(p)
    BY DEF Rollback, tables
  <2>2. ~ActivityWork(p)
    BY DEF ActivityWork, ActivitySave, ActivityDelete
  <2>3. /\ ~SignupLock(p) /\ ~SignupCheck(p) /\ ~SignupInsert(p) /\ ~SignupNotify(p)
        /\ ~OfflineCount(p)
    BY <2>1 DEF SignupLock, SignupCheck, SignupInsert, SignupNotify, OfflineCount, tables
  <2>4. ~ReviewLock(p) /\ ~ReviewActivity(p) /\ ~ReviewSave(p) /\ ~ReviewNotify(p)
    BY <2>1 DEF ReviewLock, ReviewActivity, ReviewSave, ReviewNotify, tables
  <2>5. ~CheckInLock(p) /\ ~CheckInRecord(p) /\ ~CheckInSave(p) /\ ~CheckInNotify(p)
    BY <2>1 DEF CheckInLock, CheckInRecord, CheckInSave, CheckInNotify, tables
  <2> QED
    BY <1>4, <2>2, <2>3, <2>4, <2>5 DEF Work, RegistrationWork, CheckInWork
<1> QED
  BY <1>1, <1>2, <1>3, <1>4 DEF Next

LEMMA CancelledStays ==
  ASSUME IInv, [Next]_vars, NEW r \in RegistrationIds,
         Registered(r), registrations[r].status = "cancelled"
  PROVE  registrations'[r].status = "cancelled"
<1>1. CASE registrations' = registrations
  BY <1>1
<1>2. CASE registrations' # registrations
  <2>1. PICK p \in Workers :
          \/ SignupCommit(p) \/ ReviewCommit(p) \/ CheckInCommit(p)
          \/ CancelSave(p) \/ OfflineInsert(p)
    BY <1>2, RegistrationWriters
  <2>2. CASE SignupCommit(p)
    <3>1. job[p].rid # r
      BY <2>2 DEF SignupCommit, At, IInv, JobsFollowLabels, JobFollowsLabel
    <3> QED
      BY <2>2, <3>1 DEF SignupCommit, Commit, IInv, TypeOK
  <2>3. CASE ReviewCommit(p)
    <3>1. /\ job[p].reg = [registrations[job[p].rid] EXCEPT !.review = job[p].reg.review]
          /\ job[p].rid \in RegistrationIds /\ Registered(job[p].rid)
      BY <2>3 DEF ReviewCommit, At, IInv, LockedStructsAreFresh, JobsFollowLabels,
            JobFollowsLabel, InReview
    <3>2. registrations[job[p].rid] \in RegistrationRow
      BY <3>1 DEF IInv, TypeOK, Registered
    <3>3. job[p].reg.status = registrations[job[p].rid].status
      BY <3>1, <3>2 DEF RegistrationRow
    <3> QED
      BY <2>3, <3>1, <3>3 DEF ReviewCommit, Commit, IInv, TypeOK
  <2>4. CASE CheckInCommit(p)
    <3>1. registrations[job[p].rid].status = "registered"
      BY <2>4 DEF CheckInCommit, At, IInv, JobsFollowLabels, JobFollowsLabel, InCheckIn
    <3> QED
      BY <2>4, <3>1 DEF CheckInCommit, Commit, IInv, TypeOK
  <2>5. CASE CancelSave(p)
    <3>1. job[p].reg.status = "cancelled"
      BY <2>5 DEF CancelSave, At, IInv, JobsFollowLabels, JobFollowsLabel
    <3> QED
      BY <2>5, <3>1 DEF CancelSave, IInv, TypeOK
  <2>6. CASE OfflineInsert(p)
    BY <1>2, <2>6 DEF OfflineInsert, FreshIds, Rollback, tables, IInv, TypeOK
  <2> QED
    BY <2>1, <2>2, <2>3, <2>4, <2>5, <2>6
<1> QED
  BY <1>1, <1>2

\* A cancelled registration is never revived: neither a review nor a check-in
\* that runs across the cancellation writes an older status over it.
THEOREM CancelledForever == Spec => CancelIsFinal
<1>1. IInv /\ [Next]_vars =>
        [\A r \in RegistrationIds :
           Registered(r) /\ registrations[r].status = "cancelled"
              => registrations'[r].status = "cancelled"]_vars
  BY CancelledStays
<1>2. Spec => []IInv
  BY Inductive, PTL
<1> QED
  BY <1>1, <1>2, PTL DEF Spec, CancelIsFinal

=============================================================================

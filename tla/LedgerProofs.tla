----------------------------- MODULE LedgerProofs -----------------------------
(***************************************************************************)
(* What the handlers promise together, proved: sign-ups, decisions and     *)
(* notifications, and that EventGo implements RegistrationLedger.          *)
(***************************************************************************)
EXTENDS EventGoProofs, FiniteSetTheorems

\* What a review has found and decided, and whose registration is cancelled.
DecisionFacts(p) ==
    LET r == job[p].rid
        row == job[p].reg
    IN  /\ pc[p] = "reviewActivity" => row.review = registrations[r].review
        /\ pc[p] \in {"reviewSave", "reviewNotify", "reviewCommit"}
              => registrations[r].review = "pending"
        /\ pc[p] \in {"reviewNotify", "reviewCommit"} => row.review \in {"approved", "rejected"}
        /\ pc[p] = "cancelSave" =>
              row.activity = registrations[r].activity /\ row.user = registrations[r].user

LInv ==
    /\ IInv
    /\ IdsAreAllocated
    /\ NoticesFollowRows
    /\ SignupStaysAdmitted
    /\ \A p \in Workers : DecisionFacts(p)
    /\ OneOnlineSignup

-----------------------------------------------------------------------------
(* The steps that write registrations.                                     *)

\* The one registration that a step writes is r.
OnlyRow(r) ==
    /\ UNCHANGED activities
    /\ \A s \in RegistrationIds \ {r} :
         /\ registrations'[s] = registrations[s]
         /\ checkIns'[s] = checkIns[s]
         /\ notifications'[s] = notifications[s]

SignsUp(p, r) ==
    /\ pc[p] = "signupCommit"
    /\ r = job[p].rid
    /\ ~Registered(r)
    /\ registrations'[r] = job[p].reg
    /\ checkIns'[r] = checkIns[r]
    /\ notifications'[r] = [notifications[r] EXCEPT !["signup_success"] = @ + 1]

Decides(p, r) ==
    /\ pc[p] = "reviewCommit"
    /\ r = job[p].rid
    /\ Registered(r)
    /\ registrations'[r] = [registrations[r] EXCEPT !.review = job[p].reg.review]
    /\ checkIns'[r] = checkIns[r]
    /\ notifications'[r] = [notifications[r] EXCEPT !["review_result"] = @ + 1]

ChecksIn(p, r) ==
    /\ pc[p] = "checkInCommit"
    /\ r = job[p].rid
    /\ Registered(r)
    /\ registrations[r].status = "registered"
    /\ registrations'[r] = [registrations[r] EXCEPT !.status = "checked_in"]
    /\ checkIns[r] = 0
    /\ checkIns'[r] = 1
    /\ notifications'[r] = [notifications[r] EXCEPT !["checkin_success"] = @ + 1]

Cancels(p, r) ==
    /\ pc[p] = "cancelSave"
    /\ r = job[p].rid
    /\ Registered(r)
    /\ registrationLock[r] = None
    /\ registrations'[r] = job[p].reg
    /\ job[p].reg.status = "cancelled"
    /\ checkIns'[r] = checkIns[r]
    /\ notifications'[r] = notifications[r]

SignsUpOffline(p, r) ==
    /\ pc[p] = "offlineInsert"
    /\ ~Registered(r)
    /\ \E a \in ActivityIds, u \in Users, v \in Vouchers :
         registrations'[r] = NewRegistration(a, u, v, "approved")
    /\ checkIns'[r] = checkIns[r]
    /\ notifications'[r] = notifications[r]

Writes(p, r) ==
    /\ OnlyRow(r)
    /\ pc'[p] = "idle"
    /\ \/ SignsUp(p, r)
       \/ Decides(p, r)
       \/ ChecksIn(p, r)
       \/ Cancels(p, r)
       \/ SignsUpOffline(p, r)

\* A commit writes the row of its transaction, counts its check-in and adds its
\* notification.
LEMMA CommitWrites ==
  ASSUME IInv, NEW p \in Workers, Commit(p),
         pc[p] \in {"signupCommit", "reviewCommit", "checkInCommit"}
  PROVE  /\ job[p].rid \in RegistrationIds
         /\ OnlyRow(job[p].rid)
         /\ pc'[p] = "idle"
         /\ registrations'[job[p].rid] = job[p].reg
         /\ checkIns'[job[p].rid] =
              IF pc[p] = "checkInCommit" THEN checkIns[job[p].rid] + 1 ELSE checkIns[job[p].rid]
         /\ notifications'[job[p].rid] =
              [u \in NotificationType |->
                 IF u \in job[p].dirty THEN notifications[job[p].rid][u] + 1
                 ELSE notifications[job[p].rid][u]]
<1> DEFINE r == job[p].rid
<1>1. /\ r \in RegistrationIds
      /\ job[p].dirty = DirtyAt(pc[p]) /\ "registration" \in job[p].dirty
      /\ "check_in" \in job[p].dirty <=> pc[p] = "checkInCommit"
  BY DEF IInv, JobsFollowLabels, JobFollowsLabel, DirtyAt, InReview, InCheckIn
<1>2. /\ registrations' = [registrations EXCEPT ![r] = job[p].reg]
      /\ checkIns' = IF pc[p] = "checkInCommit"
                     THEN [checkIns EXCEPT ![r] = checkIns[r] + 1] ELSE checkIns
      /\ notifications' =
            [notifications EXCEPT ![r] =
               [u \in NotificationType |->
                  IF u \in job[p].dirty THEN notifications[r][u] + 1 ELSE notifications[r][u]]]
      /\ UNCHANGED activities
      /\ pc' = [pc EXCEPT ![p] = "idle"]
  BY <1>1 DEF Commit, Return
<1> HIDE DEF r
<1> QED
  BY <1>1, <1>2 DEF IInv, TypeOK, OnlyRow, r

\* The notification of a transaction is the one its label says.
LEMMA CommitNotice ==
  ASSUME IInv, NEW p \in Workers, NEW t \in NotificationType, NEW r \in RegistrationIds,
         job[p].dirty \cap NotificationType = {t},
         notifications'[r] =
            [u \in NotificationType |->
               IF u \in job[p].dirty THEN notifications[r][u] + 1 ELSE notifications[r][u]]
  PROVE  notifications'[r] = [notifications[r] EXCEPT ![t] = @ + 1]
<1>1. notifications[r] \in [NotificationType -> Nat]
  BY DEF IInv, TypeOK
<1>2. \A u \in NotificationType : u \in job[p].dirty <=> u = t
  OBVIOUS
<1> QED
  BY <1>1, <1>2

LEMMA CommitsWrite ==
  ASSUME IInv, NEW p \in Workers,
         SignupCommit(p) \/ ReviewCommit(p) \/ CheckInCommit(p)
  PROVE  \E r \in RegistrationIds : Writes(p, r)
<1> DEFINE r == job[p].rid
<1>1. /\ pc[p] \in {"signupCommit", "reviewCommit", "checkInCommit"} /\ Commit(p)
  BY DEF SignupCommit, ReviewCommit, CheckInCommit, At
<1>2. /\ r \in RegistrationIds
      /\ OnlyRow(r)
      /\ pc'[p] = "idle"
      /\ registrations'[r] = job[p].reg
      /\ checkIns'[r] = IF pc[p] = "checkInCommit" THEN checkIns[r] + 1 ELSE checkIns[r]
      /\ notifications'[r] =
           [u \in NotificationType |->
              IF u \in job[p].dirty THEN notifications[r][u] + 1 ELSE notifications[r][u]]
  BY <1>1, CommitWrites
<1>3. JobFollowsLabel(p)
  BY DEF IInv, JobsFollowLabels
<1> HIDE DEF r
<1>4. CASE pc[p] = "signupCommit"
  <2>1. ~Registered(r) /\ job[p].dirty = {"registration", "signup_success"}
    BY <1>3, <1>4 DEF JobFollowsLabel, DirtyAt, r
  <2>2. job[p].dirty \cap NotificationType = {"signup_success"} /\ "signup_success" \in NotificationType
    BY <2>1 DEF NotificationType
  <2>3. notifications'[r] = [notifications[r] EXCEPT !["signup_success"] = @ + 1]
    BY <1>2, <2>2, CommitNotice
  <2>4. SignsUp(p, r)
    BY <1>2, <1>4, <2>1, <2>3 DEF SignsUp, r
  <2> QED
    BY <1>2, <2>4 DEF Writes
<1>5. CASE pc[p] = "reviewCommit"
  <2>1. /\ Registered(r) /\ job[p].dirty = {"registration", "review_result"}
        /\ job[p].reg = [registrations[r] EXCEPT !.review = job[p].reg.review]
    BY <1>3, <1>5
    DEF IInv, LockedStructsAreFresh, JobFollowsLabel, DirtyAt, InReview, InCheckIn, r
  <2>2. job[p].dirty \cap NotificationType = {"review_result"} /\ "review_result" \in NotificationType
    BY <2>1 DEF NotificationType
  <2>3. notifications'[r] = [notifications[r] EXCEPT !["review_result"] = @ + 1]
    BY <1>2, <2>2, CommitNotice
  <2>4. Decides(p, r)
    BY <1>2, <1>5, <2>1, <2>3 DEF Decides, r
  <2> QED
    BY <1>2, <2>4 DEF Writes
<1>6. CASE pc[p] = "checkInCommit"
  <2>1. /\ Registered(r) /\ job[p].dirty = {"check_in", "registration", "checkin_success"}
        /\ job[p].reg = [registrations[r] EXCEPT !.status = job[p].reg.status]
        /\ registrations[r].status = "registered" /\ job[p].reg.status = "checked_in"
    BY <1>3, <1>6
    DEF IInv, LockedStructsAreFresh, JobFollowsLabel, DirtyAt, InReview, InCheckIn, r
  <2>2. job[p].dirty \cap NotificationType = {"checkin_success"} /\ "checkin_success" \in NotificationType
    BY <2>1 DEF NotificationType
  <2>3. notifications'[r] = [notifications[r] EXCEPT !["checkin_success"] = @ + 1]
    BY <1>2, <2>2, CommitNotice
  <2>4. checkIns[r] = 0
    BY <1>2, <2>1 DEF IInv, TypeOK, CheckInRecorded
  <2>5. ChecksIn(p, r)
    BY <1>2, <1>6, <2>1, <2>3, <2>4 DEF ChecksIn, r
  <2> QED
    BY <1>2, <2>5 DEF Writes
<1> QED
  BY <1>1, <1>4, <1>5, <1>6

LEMMA CancelWrites ==
  ASSUME IInv, NEW p \in Workers, CancelSave(p)
  PROVE  \E r \in RegistrationIds : Writes(p, r)
<1>1. /\ pc[p] = "cancelSave"
      /\ registrationLock[job[p].rid] = None
      /\ registrations' = [registrations EXCEPT ![job[p].rid] = job[p].reg]
      /\ pc' = [pc EXCEPT ![p] = "idle"]
      /\ UNCHANGED <<activities, checkIns, notifications>>
  BY DEF CancelSave, At, Return
<1>2. /\ job[p].rid \in RegistrationIds /\ Registered(job[p].rid)
      /\ job[p].reg.status = "cancelled"
  BY <1>1 DEF IInv, JobsFollowLabels, JobFollowsLabel
<1>3. OnlyRow(job[p].rid)
  BY <1>1, <1>2 DEF OnlyRow, IInv, TypeOK
<1>4. Cancels(p, job[p].rid)
  BY <1>1, <1>2 DEF Cancels, IInv, TypeOK
<1>5. pc'[p] = "idle"
  BY <1>1 DEF IInv, TypeOK
<1> QED
  BY <1>2, <1>3, <1>4, <1>5 DEF Writes

LEMMA OfflineWrites ==
  ASSUME IInv, NEW p \in Workers, OfflineInsert(p),
         ~(UNCHANGED <<registrations, checkIns, notifications>>)
  PROVE  \E r \in RegistrationIds : Writes(p, r)
<1>1. ~Rollback(p)
  BY DEF Rollback, tables
<1>2. PICK v \in Vouchers, r \in FreshIds :
        /\ registrations' =
             [registrations EXCEPT ![r] = NewRegistration(job[p].aid, job[p].user, v, "approved")]
        /\ pc' = [pc EXCEPT ![p] = "idle"]
        /\ UNCHANGED <<activities, checkIns, notifications>>
  BY <1>1 DEF OfflineInsert, Return
<1>3. job[p].aid \in ActivityIds /\ job[p].user \in Users
  <2>1. InOffline(p)
    BY DEF OfflineInsert, At, InOffline
  <2> QED
    BY <2>1 DEF IInv, JobsFollowLabels, JobFollowsLabel
<1>4. r \in RegistrationIds /\ ~Registered(r)
  BY DEF FreshIds
<1>5. OnlyRow(r)
  BY <1>2, <1>4 DEF OnlyRow, IInv, TypeOK
<1>6. SignsUpOffline(p, r)
  BY <1>2, <1>3, <1>4 DEF SignsUpOffline, OfflineInsert, At, IInv, TypeOK
<1>7. pc'[p] = "idle"
  BY <1>2 DEF IInv, TypeOK
<1> QED
  BY <1>4, <1>5, <1>6, <1>7 DEF Writes

\* A step leaves registrations, records and notifications alone, or a worker
\* writes one registration and is done.
LEMMA WritesOrNot ==
  ASSUME IInv, [Next]_vars
  PROVE  \/ UNCHANGED <<registrations, checkIns, notifications>>
         \/ \E p \in Workers, r \in RegistrationIds : Writes(p, r)
  BY RegistrationWriters, CommitsWrite, CancelWrites, OfflineWrites

-----------------------------------------------------------------------------
(* What a step keeps of the registrations that are there.                  *)

\* A registration keeps its activity, its user and its sign-up notification.
LEMMA RegistrationKeeps ==
  ASSUME LInv, [Next]_vars, NEW r \in RegistrationIds, Registered(r)
  PROVE  /\ registrations'[r] # None
         /\ registrations'[r].activity = registrations[r].activity
         /\ registrations'[r].user = registrations[r].user
         /\ notifications'[r]["signup_success"] = notifications[r]["signup_success"]
<1>1. IInv /\ registrations[r] \in RegistrationRow /\ notifications[r] \in [NotificationType -> Nat]
  BY DEF LInv, IInv, TypeOK, Registered
<1>2. CASE UNCHANGED <<registrations, checkIns, notifications>>
  BY <1>2 DEF Registered
<1>3. ASSUME NEW p \in Workers, NEW s \in RegistrationIds, Writes(p, s)
      PROVE  /\ registrations'[r] # None
             /\ registrations'[r].activity = registrations[r].activity
             /\ registrations'[r].user = registrations[r].user
             /\ notifications'[r]["signup_success"] = notifications[r]["signup_success"]
  <2>1. CASE r # s
    BY <1>3, <2>1 DEF Writes, OnlyRow, Registered
  <2>2. CASE r = s /\ (Decides(p, r) \/ ChecksIn(p, r))
    <3>1. job[p].reg.review \in ReviewStatus \/ ~Decides(p, r)
      BY <1>1 DEF IInv, JobsFollowLabels, JobFollowsLabel, InReview, Decides, RegistrationRow
    <3>2. registrations'[r] \in RegistrationRow
      BY <1>1, <2>2, <3>1 DEF Decides, ChecksIn, RegistrationRow, RegistrationStatus
    <3> QED
      BY <1>1, <2>2, <3>2, NoneAssumption
      DEF Decides, ChecksIn, RegistrationRow, NotificationType
  <2>3. CASE r = s /\ Cancels(p, r)
    <3>1. /\ job[p].reg.activity = registrations[r].activity
          /\ job[p].reg.user = registrations[r].user
      BY <2>3 DEF LInv, DecisionFacts, Cancels
    <3>2. job[p].reg \in RegistrationRow
      BY <1>1, <2>3 DEF Cancels, IInv, JobsFollowLabels, JobFollowsLabel
    <3> QED
      BY <2>3, <3>1, <3>2, NoneAssumption DEF Cancels
  <2> QED
    BY <1>3, <2>1, <2>2, <2>3 DEF Writes, SignsUp, SignsUpOffline
<1> QED
  BY <1>1, <1>2, <1>3, WritesOrNot

\* A registration that appears online is the one of a committing sign-up.
LEMMA OnlineBySignup ==
  ASSUME LInv, [Next]_vars, NEW r \in RegistrationIds,
         ~Registered(r), notifications'[r]["signup_success"] > 0
  PROVE  \E p \in Workers : SignsUp(p, r) /\ pc'[p] = "idle" /\ OnlyRow(r)
<1>1. notifications[r]["signup_success"] = 0 /\ IInv
  BY DEF LInv, NoticesFollowRows, NotificationType
<1>2. ~UNCHANGED <<registrations, checkIns, notifications>>
  BY <1>1
<1>3. PICK p \in Workers, s \in RegistrationIds : Writes(p, s)
  BY <1>1, <1>2, WritesOrNot
<1>4. s = r
  BY <1>1, <1>3 DEF Writes, OnlyRow
<1> QED
  BY <1>1, <1>3, <1>4 DEF Writes, Decides, ChecksIn, Cancels, SignsUpOffline

\* Only one sign-up at a time is past the lock of an activity.
LEMMA OneSignup ==
  ASSUME IInv, NEW p \in Workers, NEW q \in Workers,
         InSignup(p), InSignup(q), job[p].aid = job[q].aid
  PROVE  p = q
<1>1. job[p].aid \in ActivityIds
  BY DEF IInv, JobsFollowLabels, JobFollowsLabel
<1> QED
  BY <1>1 DEF IInv, LocksFollowTransactions

\* While a sign-up is past its lock and goes on, no other one of its activity
\* appears, and nothing cancelled comes back.
LEMMA OthersWait ==
  ASSUME LInv, [Next]_vars, NEW q \in Workers, InSignup(q), pc'[q] # "idle",
         NEW r \in RegistrationIds, Online(r)', registrations'[r].activity = job[q].aid
  PROVE  /\ Online(r)
         /\ registrations[r].activity = job[q].aid
         /\ registrations[r].user = registrations'[r].user
         /\ registrations[r].status = "cancelled" => registrations'[r].status = "cancelled"
<1>1. Registered(r)
  <2> SUFFICES ASSUME ~Registered(r) PROVE FALSE
    OBVIOUS
  <2>1. PICK p \in Workers : SignsUp(p, r) /\ pc'[p] = "idle"
    BY OnlineBySignup DEF Online
  <2>2. job[p].reg.activity = job[p].aid /\ InSignup(p)
    BY <2>1 DEF LInv, SignupStaysAdmitted, SignupAdmitted, SignsUp, InSignup
  <2>3. p = q
    BY <2>1, <2>2, OneSignup DEF LInv, SignsUp
  <2> QED
    BY <2>1, <2>3
<1>2. registrations[r].status = "cancelled" => registrations'[r].status = "cancelled"
  BY <1>1, CancelledStays DEF LInv
<1> QED
  BY <1>1, <1>2, RegistrationKeeps DEF Online

LEMMA FewerTaken ==
  ASSUME NEW S, NEW T, T \in SUBSET S, S \in SUBSET RegistrationIds
  PROVE  Cardinality(T) <= Cardinality(S) /\ Cardinality(S) \in Nat /\ Cardinality(T) \in Nat
<1>1. IsFiniteSet(S) /\ IsFiniteSet(T)
  BY FiniteIdsAssumption, FS_Subset
<1> QED
  BY <1>1, FS_Subset, FS_CardinalityType

\* A step of others, or of the tables, while a sign-up keeps its place.
LEMMA AdmissionKept ==
  ASSUME LInv, [Next]_vars, NEW q \in Workers,
         pc'[q] = pc[q], job'[q] = job[q]
  PROVE  SignupAdmitted(q)'
<1> DEFINE a == job[q].aid
           act == job[q].act
<1>1. SignupAdmitted(q)
  BY DEF LInv, SignupStaysAdmitted
<1>2. CASE ~InSignup(q)
  BY <1>2 DEF SignupAdmitted, InSignup
<1>3. CASE InSignup(q)
  <2>1. pc'[q] # "idle" /\ a \in ActivityIds /\ act \in ActivityRow
    BY <1>3 DEF LInv, IInv, JobsFollowLabels, JobFollowsLabel, InSignup
  <2>2. Taken(a)' \in SUBSET Taken(a)
    BY <1>3, <2>1, OthersWait DEF Taken
  <2>3. Taken(a) \in SUBSET RegistrationIds
    BY DEF Taken
  <2>4. act.capacity \in Nat
    BY <2>1, ConstantsAssumption DEF ActivityRow
  <2>5. Cardinality(Taken(a)) < act.capacity => Cardinality(Taken(a)') < act.capacity
    BY <2>2, <2>3, <2>4, FewerTaken
  <2>6. ASSUME NEW r \in RegistrationIds, Online(r)', registrations'[r].activity = a
        PROVE  Online(r) /\ registrations[r].activity = a
                 /\ registrations[r].user = registrations'[r].user
    BY <1>3, <2>1, <2>6, OthersWait
  <2> QED
    BY <1>1, <2>5, <2>6 DEF SignupAdmitted, InSignup
<1> QED
  BY <1>2, <1>3

-----------------------------------------------------------------------------
(* What a worker has found.                                                *)

FoundLabels ==
    {"signupCheck", "signupInsert", "signupNotify", "signupCommit", "cancelSave",
     "reviewActivity", "reviewSave", "reviewNotify", "reviewCommit"}

\* A worker comes to such a label by the step before it, and stays there until
\* its own next step.
LEMMA RequestMoves ==
  ASSUME IInv, NEW p \in Workers, Request(p), NEW q \in Workers, pc'[q] \in FoundLabels
  PROVE  \/ pc'[q] = pc[q] /\ job'[q] = job[q]
         \/ CancelFind(q)
<1>1. CASE CreateActivity(p)
  BY <1>1 DEF CreateActivity
<1>2. CASE CancelFind(p)
  BY <1>2 DEF CancelFind, Begin, IInv, TypeOK
<1>3. CASE ~CreateActivity(p) /\ ~CancelFind(p)
  <2>1. PICK label \in {"activitySave", "activityDelete", "signupLock", "reviewLock",
                        "offlineCount", "checkInLock"} :
          /\ pc' = [pc EXCEPT ![p] = label]
          /\ \E j : job' = [job EXCEPT ![p] = j]
    BY <1>3 DEF Request, ActivityRequest, RegistrationRequest, CheckInRequest, UpdateFind,
          PublishFind, EndFind, DeleteFind, SignupBegin, ReviewBegin, OfflineFind,
          CheckInByVoucher, CheckInByScan, CheckInFound, Begin
  <2> QED
    BY <2>1 DEF IInv, TypeOK, FoundLabels
<1> QED
  BY <1>1, <1>2, <1>3

LEMMA ReturnMoves ==
  ASSUME IInv, NEW p \in Workers, Return(p), NEW q \in Workers, pc'[q] \in FoundLabels
  PROVE  pc'[q] = pc[q] /\ job'[q] = job[q]
  BY DEF Return, IInv, TypeOK, FoundLabels

LEMMA WorkMoves ==
  ASSUME IInv, NEW p \in Workers, Work(p), NEW q \in Workers, pc'[q] \in FoundLabels
  PROVE  \/ pc'[q] = pc[q] /\ job'[q] = job[q]
         \/ SignupLock(q) \/ SignupCheck(q) \/ SignupInsert(q) \/ SignupNotify(q)
         \/ ReviewLock(q) \/ ReviewActivity(q) \/ ReviewSave(q) \/ ReviewNotify(q)
<1>1. CASE Return(p)
  BY <1>1, ReturnMoves
<1>2. CASE p = q /\ ~Return(p)
  <2>1. CASE CheckInLock(p) \/ CheckInRecord(p) \/ CheckInSave(p) \/ CheckInNotify(p)
                \/ OfflineCount(p)
    BY <1>2, <2>1 DEF CheckInLock, CheckInRecord, CheckInSave, CheckInNotify, OfflineCount,
          Goto, Rollback, IInv, TypeOK, FoundLabels
  <2>2. ~Commit(p) /\ ~ActivityWork(p) /\ ~CancelSave(p) /\ ~OfflineInsert(p)
    BY <1>2 DEF Commit, ActivityWork, ActivitySave, ActivityDelete, CancelSave, OfflineInsert,
          Rollback
  <2> QED
    BY <1>2, <2>1, <2>2
    DEF Work, RegistrationWork, CheckInWork, SignupCommit, ReviewCommit, CheckInCommit
<1>3. CASE p # q /\ ~Return(p)
  <2>1. ~Commit(p) /\ ~ActivityWork(p) /\ ~CancelSave(p) /\ ~OfflineInsert(p) /\ ~Rollback(p)
    BY <1>3 DEF Commit, ActivityWork, ActivitySave, ActivityDelete, CancelSave, OfflineInsert,
          Rollback
  <2>2. \E label : pc' = [pc EXCEPT ![p] = label]
    BY <2>1 DEF Work, RegistrationWork, CheckInWork, SignupCommit, ReviewCommit, CheckInCommit,
          SignupLock, SignupCheck, SignupInsert, SignupNotify, ReviewLock, ReviewActivity,
          ReviewSave, ReviewNotify, OfflineCount, CheckInLock, CheckInRecord, CheckInSave,
          CheckInNotify, Goto
  <2>3. job'[q] = job[q]
    BY <1>3, <2>1 DEF Work, RegistrationWork, CheckInWork, SignupCommit, ReviewCommit,
          CheckInCommit, SignupLock, SignupCheck, SignupInsert, SignupNotify, ReviewLock,
          ReviewActivity, ReviewSave, ReviewNotify, OfflineCount, CheckInLock, CheckInRecord,
          CheckInSave, CheckInNotify, IInv, TypeOK
  <2> QED
    BY <1>3, <2>2, <2>3 DEF IInv, TypeOK
<1> QED
  BY <1>1, <1>2, <1>3

Finds(q) ==
    \/ SignupLock(q) \/ SignupCheck(q) \/ SignupInsert(q) \/ SignupNotify(q)
    \/ ReviewLock(q) \/ ReviewActivity(q) \/ ReviewSave(q) \/ ReviewNotify(q)
    \/ CancelFind(q)

LEMMA Moves ==
  ASSUME IInv, [Next]_vars, NEW q \in Workers, pc'[q] \in FoundLabels
  PROVE  (pc'[q] = pc[q] /\ job'[q] = job[q]) \/ Finds(q)
<1>1. CASE UNCHANGED vars \/ DeadlinePasses
  BY <1>1 DEF vars, DeadlinePasses
<1>2. CASE Crash
  BY <1>2 DEF Crash, FoundLabels
<1>3. ASSUME NEW p \in Workers, StatementFails(p)
      PROVE  pc'[q] = pc[q] /\ job'[q] = job[q]
  BY <1>3, ReturnMoves DEF StatementFails, Rollback
<1> QED
  BY <1>1, <1>2, <1>3, RequestMoves, WorkMoves DEF Next, Finds

\* The steps that find something write no table.
LEMMA FindsOnly ==
  ASSUME NEW q \in Workers, Finds(q)
  PROVE  UNCHANGED <<activities, registrations, checkIns, notifications>>
  BY DEF Finds, SignupLock, SignupCheck, SignupInsert, SignupNotify, ReviewLock,
     ReviewActivity, ReviewSave, ReviewNotify, CancelFind, Rollback, tables

\* The locals of a step that goes on.
LEMMA AdmissionFound ==
  ASSUME LInv, NEW q \in Workers, Finds(q)
  PROVE  SignupAdmitted(q)'
<1>1. /\ SignupAdmitted(q) /\ IInv /\ TypeOK
      /\ \A r \in RegistrationIds :
           /\ Online(r)' <=> Online(r)
           /\ registrations'[r] = registrations[r]
      /\ \A a \in ActivityIds : Taken(a)' = Taken(a)
  BY FindsOnly DEF LInv, IInv, SignupStaysAdmitted, Online, Registered, Taken
<1>2. CASE pc'[q] \notin {"signupCheck", "signupInsert", "signupNotify", "signupCommit"}
  BY <1>2 DEF SignupAdmitted, InSignup
<1>3. CASE SignupLock(q) /\ pc'[q] \in {"signupCheck", "signupInsert", "signupNotify", "signupCommit"}
  <2>1. ~Rollback(q)
    BY <1>1, <1>3 DEF Rollback, Return, TypeOK
  <2>2. /\ OpenForSignup(job[q].aid)
        /\ job' = [job EXCEPT ![q].act = activities[job[q].aid]]
        /\ pc' = [pc EXCEPT ![q] = "signupCheck"]
    BY <1>3, <2>1 DEF SignupLock, Goto
  <2>3. job[q] \in Job
    BY <1>1 DEF TypeOK
  <2>4. pc'[q] = "signupCheck" /\ job'[q].act = activities[job[q].aid]
    BY <1>1, <2>2, <2>3 DEF TypeOK, Job
  <2>5. job'[q].act.status = "published"
    BY <2>2, <2>4 DEF OpenForSignup
  <2> QED
    BY <2>4, <2>5 DEF SignupAdmitted, InSignup
<1>4. CASE SignupCheck(q) /\ pc'[q] \in {"signupCheck", "signupInsert", "signupNotify", "signupCommit"}
  <2> DEFINE a == job[q].aid
             act == job[q].act
  <2>1. ~Rollback(q)
    BY <1>1, <1>4 DEF Rollback, Return, TypeOK
  <2>2. /\ HasRoom(a, act) /\ ~SignedUp(a, job[q].user)
        /\ pc' = [pc EXCEPT ![q] = "signupInsert"] /\ job' = job
    BY <1>4, <2>1 DEF SignupCheck, Goto
  <2>3. InSignup(q) /\ pc'[q] = "signupInsert"
    BY <1>1, <1>4, <2>2 DEF SignupCheck, At, InSignup, TypeOK
  <2>4. a \in ActivityIds /\ act \in ActivityRow
    BY <1>1, <2>3 DEF IInv, JobsFollowLabels, JobFollowsLabel
  <2>5. act.status = "published"
    BY <1>1, <2>3 DEF SignupAdmitted
  <2>6. act.capacity = 0 \/ Cardinality(Taken(a)) < act.capacity
    <3> DEFINE counted == {r \in RegistrationIds : /\ Registered(r)
                                                   /\ registrations[r].activity = a
                                                   /\ registrations[r].status # "cancelled"}
    <3>1. Taken(a) \in SUBSET counted /\ counted \in SUBSET RegistrationIds
      BY DEF Taken, Online
    <3>2. act.capacity \in Nat
      BY <2>4, ConstantsAssumption DEF ActivityRow
    <3>3. act.capacity = 0 \/ Cardinality(counted) < act.capacity
      BY <2>2 DEF HasRoom, CountRegistered
    <3> HIDE DEF counted
    <3> QED
      BY <3>1, <3>2, <3>3, FewerTaken
  <2>7. \A r \in RegistrationIds :
          Online(r) /\ registrations[r].activity = a => registrations[r].user # job[q].user
    BY <2>2 DEF SignedUp, Online
  <2> QED
    BY <1>1, <2>2, <2>3, <2>4, <2>5, <2>6, <2>7 DEF SignupAdmitted, InSignup
<1>5. CASE SignupInsert(q) /\ pc'[q] \in {"signupCheck", "signupInsert", "signupNotify", "signupCommit"}
  <2> DEFINE a == job[q].aid
             act == job[q].act
  <2>1. ~Rollback(q)
    BY <1>1, <1>5 DEF Rollback, Return, TypeOK
  <2>2. pc[q] = "signupInsert" /\ InSignup(q) /\ pc' = [pc EXCEPT ![q] = "signupNotify"]
    BY <1>5, <2>1 DEF SignupInsert, At, Goto, InSignup
  <2>3. PICK v \in Vouchers, r \in FreshIds :
          job' = [job EXCEPT ![q].rid = r,
                             ![q].reg = NewRegistration(a, job[q].user, v, "pending"),
                             ![q].dirty = {"registration"}]
    BY <1>5, <2>1 DEF SignupInsert
  <2>4. job[q] \in Job /\ pc'[q] = "signupNotify"
    BY <1>1, <2>2 DEF TypeOK
  <2>5. /\ job'[q].aid = a /\ job'[q].act = act /\ job'[q].user = job[q].user
        /\ job'[q].reg = NewRegistration(a, job[q].user, v, "pending")
    BY <1>1, <2>3, <2>4 DEF TypeOK, Job
  <2>6. a \in ActivityIds
    BY <1>1, <2>2 DEF IInv, JobsFollowLabels, JobFollowsLabel
  <2> QED
    BY <1>1, <2>2, <2>4, <2>5, <2>6 DEF SignupAdmitted, InSignup, NewRegistration
<1>6. CASE SignupNotify(q) /\ pc'[q] \in {"signupCheck", "signupInsert", "signupNotify", "signupCommit"}
  <2>1. /\ pc[q] = "signupNotify" /\ pc' = [pc EXCEPT ![q] = "signupCommit"] /\ InSignup(q)
        /\ job' = [job EXCEPT ![q].dirty = @ \cup {"signup_success"}]
    BY <1>6 DEF SignupNotify, At, Goto, InSignup
  <2>2. job[q] \in Job /\ pc'[q] = "signupCommit"
    BY <1>1, <2>1 DEF TypeOK
  <2>3. /\ job'[q].aid = job[q].aid /\ job'[q].act = job[q].act
        /\ job'[q].user = job[q].user /\ job'[q].reg = job[q].reg
    BY <1>1, <2>1, <2>2 DEF TypeOK, Job
  <2>4. job[q].aid \in ActivityIds
    BY <1>1, <2>1 DEF IInv, JobsFollowLabels, JobFollowsLabel
  <2> QED
    BY <1>1, <2>1, <2>2, <2>3, <2>4 DEF SignupAdmitted, InSignup
<1>7. CASE ~SignupLock(q) /\ ~SignupCheck(q) /\ ~SignupInsert(q) /\ ~SignupNotify(q)
  BY <1>1, <1>2, <1>7 DEF Finds, ReviewLock, ReviewActivity, ReviewSave, ReviewNotify,
        CancelFind, Goto, Begin, Rollback, Return, TypeOK
<1> QED
  BY <1>2, <1>3, <1>4, <1>5, <1>6, <1>7

LEMMA AdmissionStep ==
  ASSUME LInv, [Next]_vars
  PROVE  SignupStaysAdmitted'
<1> SUFFICES ASSUME NEW q \in Workers PROVE SignupAdmitted(q)'
  BY DEF SignupStaysAdmitted
<1>1. CASE pc'[q] \in FoundLabels
  BY <1>1, Moves, AdmissionKept, AdmissionFound DEF LInv
<1>2. CASE pc'[q] \notin FoundLabels
  BY <1>2 DEF SignupAdmitted, InSignup, FoundLabels
<1> QED
  BY <1>1, <1>2

\* The row a review has locked is not written by anybody else.
LEMMA LockedRowStays ==
  ASSUME LInv, [Next]_vars, NEW q \in Workers, InReview(q), pc'[q] # "idle"
  PROVE  registrations'[job[q].rid] = registrations[job[q].rid]
<1> DEFINE s == job[q].rid
<1>1. /\ s \in RegistrationIds /\ Registered(s) /\ registrationLock[s] = q /\ q # None
      /\ LocksFollowTransactions /\ IInv
  BY NoneAssumption
  DEF LInv, IInv, LocksFollowTransactions, JobsFollowLabels, JobFollowsLabel
<1> HIDE DEF s
<1>2. ASSUME NEW p \in Workers, NEW r \in RegistrationIds, Writes(p, r), r = s PROVE FALSE
  <2>1. CASE Decides(p, r) \/ ChecksIn(p, r)
    <3>1. p = q
      BY <1>1, <1>2, <2>1 DEF Decides, ChecksIn, LocksFollowTransactions, InReview, InCheckIn
    <3> QED
      BY <1>2, <3>1 DEF Writes
  <2> QED
    BY <1>1, <1>2, <2>1 DEF Writes, SignsUp, Cancels, SignsUpOffline
<1>3. CASE UNCHANGED <<registrations, checkIns, notifications>>
  BY <1>3 DEF s
<1>4. ASSUME NEW p \in Workers, NEW r \in RegistrationIds, Writes(p, r)
      PROVE  registrations'[s] = registrations[s]
  BY <1>1, <1>2, <1>4 DEF Writes, OnlyRow
<1> QED
  BY <1>1, <1>3, <1>4, WritesOrNot DEF s

LEMMA DecisionKept ==
  ASSUME LInv, [Next]_vars, NEW q \in Workers, pc'[q] = pc[q], job'[q] = job[q]
  PROVE  DecisionFacts(q)'
<1>1. DecisionFacts(q)
  BY DEF LInv
<1>2. CASE InReview(q)
  <2>1. registrations'[job[q].rid] = registrations[job[q].rid]
    BY <1>2, LockedRowStays DEF InReview
  <2> QED
    BY <1>1, <1>2, <2>1 DEF DecisionFacts, InReview
<1>3. CASE pc[q] = "cancelSave"
  <2>1. job[q].rid \in RegistrationIds /\ Registered(job[q].rid)
    BY <1>3 DEF LInv, IInv, JobsFollowLabels, JobFollowsLabel
  <2> QED
    BY <1>1, <1>3, <2>1, RegistrationKeeps DEF DecisionFacts
<1>4. CASE ~InReview(q) /\ pc[q] # "cancelSave"
  BY <1>4 DEF DecisionFacts, InReview
<1> QED
  BY <1>2, <1>3, <1>4

LEMMA DecisionFound ==
  ASSUME LInv, NEW q \in Workers, Finds(q)
  PROVE  DecisionFacts(q)'
<1>1. /\ DecisionFacts(q) /\ IInv /\ TypeOK /\ registrations' = registrations /\ job[q] \in Job
  BY FindsOnly DEF LInv, IInv, TypeOK
<1>2. CASE ReviewLock(q)
  <2>1. pc'[q] = "reviewActivity" /\ job'[q].rid = job[q].rid
        /\ job'[q].reg = registrations[job[q].rid]
    BY <1>1, <1>2 DEF ReviewLock, Goto, TypeOK, Job
  <2> QED
    BY <1>1, <2>1 DEF DecisionFacts
<1>3. CASE ReviewActivity(q) /\ ~Rollback(q)
  <2>1. /\ pc[q] = "reviewActivity" /\ pc'[q] = "reviewSave"
        /\ job'[q] = job[q] /\ job[q].reg.review = "pending"
    BY <1>1, <1>3 DEF ReviewActivity, At, Goto, TypeOK
  <2> QED
    BY <1>1, <2>1 DEF DecisionFacts
<1>4. CASE ReviewSave(q)
  <2>1. PICK decision \in {"approved", "rejected"} :
          job' = [job EXCEPT ![q].reg.review = decision, ![q].dirty = {"registration"}]
    BY <1>4 DEF ReviewSave
  <2>2. pc[q] = "reviewSave" /\ pc'[q] = "reviewNotify"
    BY <1>1, <1>4 DEF ReviewSave, At, Goto, TypeOK
  <2>3. job[q].reg \in RegistrationRow
    BY <1>1, <2>2 DEF IInv, JobsFollowLabels, JobFollowsLabel, InReview
  <2>4. job'[q].rid = job[q].rid /\ job'[q].reg.review = decision
    BY <1>1, <2>1, <2>3 DEF TypeOK, Job, RegistrationRow
  <2> QED
    BY <1>1, <2>2, <2>4 DEF DecisionFacts
<1>5. CASE ReviewNotify(q)
  <2>1. /\ pc[q] = "reviewNotify" /\ pc'[q] = "reviewCommit"
        /\ job'[q].rid = job[q].rid /\ job'[q].reg = job[q].reg
    BY <1>1, <1>5 DEF ReviewNotify, At, Goto, TypeOK, Job
  <2> QED
    BY <1>1, <2>1 DEF DecisionFacts
<1>6. CASE CancelFind(q)
  <2>1. PICK r \in RegistrationIds :
          /\ Registered(r)
          /\ pc' = [pc EXCEPT ![q] = "cancelSave"]
          /\ job' = [job EXCEPT ![q] =
               [NoJob EXCEPT !.rid = r,
                             !.reg = [registrations[r] EXCEPT !.status = "cancelled"]]]
    BY <1>6 DEF CancelFind, Begin
  <2>2. registrations[r] \in RegistrationRow
    BY <1>1, <2>1 DEF TypeOK, Registered
  <2>3. /\ pc'[q] = "cancelSave" /\ job'[q].rid = r
        /\ job'[q].reg = [registrations[r] EXCEPT !.status = "cancelled"]
    BY <1>1, <2>1 DEF TypeOK, NoJob
  <2>4. /\ job'[q].reg.activity = registrations[r].activity
        /\ job'[q].reg.user = registrations[r].user
    BY <2>2, <2>3 DEF RegistrationRow
  <2> QED
    BY <1>1, <2>3, <2>4 DEF DecisionFacts
<1>7. CASE Rollback(q) \/ SignupLock(q) \/ SignupCheck(q) \/ SignupInsert(q) \/ SignupNotify(q)
  <2>1. pc'[q] \notin {"reviewActivity", "reviewSave", "reviewNotify", "reviewCommit", "cancelSave"}
    BY <1>1, <1>7
    DEF SignupLock, SignupCheck, SignupInsert, SignupNotify, Goto, Rollback, Return, TypeOK
  <2> QED
    BY <2>1 DEF DecisionFacts
<1> QED
  BY <1>2, <1>3, <1>4, <1>5, <1>6, <1>7 DEF Finds

LEMMA DecisionStep ==
  ASSUME LInv, [Next]_vars, NEW q \in Workers
  PROVE  DecisionFacts(q)'
<1>1. CASE pc'[q] \in FoundLabels
  BY <1>1, Moves, DecisionKept, DecisionFound DEF LInv
<1>2. CASE pc'[q] \notin FoundLabels
  BY <1>2 DEF DecisionFacts, FoundLabels
<1> QED
  BY <1>1, <1>2

LEMMA NoticesStep ==
  ASSUME LInv, [Next]_vars
  PROVE  NoticesFollowRows'
<1> SUFFICES ASSUME NEW r \in RegistrationIds, ~Registered(r)', NEW t \in NotificationType
             PROVE  notifications'[r][t] = 0
  BY DEF NoticesFollowRows
<1>1. ~Registered(r)
  BY RegistrationKeeps DEF Registered
<1>2. notifications[r][t] = 0 /\ IInv
  BY <1>1 DEF LInv, NoticesFollowRows
<1>3. ASSUME NEW p \in Workers, Writes(p, r) PROVE FALSE
  <2>1. SignsUp(p, r) => job[p].reg # None
    BY NoneAssumption DEF SignsUp, LInv, IInv, JobsFollowLabels, JobFollowsLabel
  <2>2. SignsUpOffline(p, r) => registrations'[r] # None
    BY NoneAssumption
    DEF SignsUpOffline, NewRegistration, RegistrationRow, RegistrationStatus, ReviewStatus
  <2> QED
    BY <1>1, <1>3, <2>1, <2>2
    DEF Writes, SignsUp, Decides, ChecksIn, Cancels, Registered
<1> QED
  BY <1>2, <1>3, WritesOrNot DEF Writes, OnlyRow

\* A user who has an online registration is not given another one.
LEMMA OneSignupStep ==
  ASSUME LInv, [Next]_vars
  PROVE  OneOnlineSignup'
<1> SUFFICES ASSUME NEW r1 \in RegistrationIds, NEW r2 \in RegistrationIds, r1 # r2,
                    notifications'[r1]["signup_success"] > 0,
                    notifications'[r2]["signup_success"] > 0,
                    registrations'[r1].activity = registrations'[r2].activity,
                    registrations'[r1].user = registrations'[r2].user
             PROVE  FALSE
  BY DEF OneOnlineSignup
<1>1. ASSUME NEW s1 \in RegistrationIds, NEW s2 \in RegistrationIds, s1 # s2,
             notifications'[s1]["signup_success"] > 0,
             notifications'[s2]["signup_success"] > 0,
             registrations'[s1].activity = registrations'[s2].activity,
             registrations'[s1].user = registrations'[s2].user,
             ~Registered(s1)
      PROVE  FALSE
  <2>1. PICK p \in Workers : SignsUp(p, s1) /\ OnlyRow(s1)
    BY <1>1, OnlineBySignup
  <2>2. Registered(s2)
    BY <1>1, <2>1, OnlineBySignup DEF OnlyRow, LInv, NoticesFollowRows, NotificationType
  <2>3. /\ registrations'[s2] = registrations[s2] /\ Online(s2)
    BY <1>1, <2>1, <2>2 DEF OnlyRow, Online
  <2>4. /\ job[p].reg.activity = job[p].aid /\ job[p].reg.user = job[p].user
        /\ registrations[s2].activity = job[p].aid => registrations[s2].user # job[p].user
    BY <2>1, <2>3 DEF LInv, SignupStaysAdmitted, SignupAdmitted, SignsUp
  <2> QED
    BY <1>1, <2>1, <2>3, <2>4 DEF SignsUp
<1>2. Registered(r1) /\ Registered(r2)
  BY <1>1
<1> QED
  BY <1>2, RegistrationKeeps DEF LInv, OneOnlineSignup

LEMMA NextLInv ==
  ASSUME LInv, [Next]_vars
  PROVE  LInv'
<1>1. IInv /\ IdsAreAllocated /\ TypeOK
  BY DEF LInv, IInv
<1>2. IInv' /\ IdsAreAllocated'
  BY <1>1, NextIInv, NextIds
<1> QED
  BY <1>2, NoticesStep, AdmissionStep, DecisionStep, OneSignupStep DEF LInv

LEMMA InitLInv == Init => LInv
<1> SUFFICES ASSUME Init PROVE LInv
  OBVIOUS
<1>1. IInv /\ IdsAreAllocated
  BY InitIInv DEF Init, IdsAreAllocated
<1>2. NoticesFollowRows /\ OneOnlineSignup
  BY DEF Init, NoticesFollowRows, OneOnlineSignup, NotificationType
<1>3. SignupStaysAdmitted /\ \A p \in Workers : DecisionFacts(p)
  BY DEF Init, SignupStaysAdmitted, SignupAdmitted, InSignup, DecisionFacts
<1> QED
  BY <1>1, <1>2, <1>3 DEF LInv

\* What sign-ups have found, what reviews have decided and what is in the
\* tables stay in step, whatever the handlers do to each other.
THEOREM LedgerInductive == Spec => []LInv
<1>1. LInv /\ [Next]_vars => LInv'
  BY NextLInv
<1> QED
  BY InitLInv, <1>1, PTL DEF Spec

\* What a sign-up checked before its INSERT still holds at its commit: the
\* status, a free place, and no online registration of the user.
THEOREM AdmissionHolds == Spec => []SignupStaysAdmitted
  BY LedgerInductive, PTL DEF LInv

\* No notification is there before its registration is.
THEOREM NoticesHaveRows == Spec => []NoticesFollowRows
  BY LedgerInductive, PTL DEF LInv

\* On either schema a user signs up online at most once for an activity.
THEOREM SignupOnce == Spec => []OneOnlineSignup
  BY LedgerInductive, PTL DEF LInv

-----------------------------------------------------------------------------
(* Events, their notifications, and decisions.                             *)

\* What a writer makes of the registration and of its notifications.
LEMMA RowAfter ==
  ASSUME LInv, NEW p \in Workers, NEW r \in RegistrationIds, Writes(p, r)
  PROVE  /\ registrations'[r] \in RegistrationRow
         /\ SignsUp(p, r) => registrations'[r].review = "pending"
         /\ SignsUpOffline(p, r) => registrations'[r].review = "approved"
         /\ Decides(p, r) =>
              /\ registrations[r].review = "pending"
              /\ registrations'[r].review \in {"approved", "rejected"}
              /\ registrations'[r].status = registrations[r].status
         /\ ChecksIn(p, r) =>
              /\ registrations'[r].review = registrations[r].review
              /\ registrations'[r].status = "checked_in"
         /\ Cancels(p, r) => registrations'[r].status = "cancelled"
<1>1. /\ IInv /\ TypeOK /\ JobFollowsLabel(p) /\ DecisionFacts(p) /\ SignupAdmitted(p)
      /\ Registered(r) => registrations[r] \in RegistrationRow
  BY DEF LInv, IInv, TypeOK, JobsFollowLabels, SignupStaysAdmitted, Registered
<1>2. CASE SignsUp(p, r)
  <2>1. registrations'[r] \in RegistrationRow /\ registrations'[r].review = "pending"
    BY <1>1, <1>2 DEF SignsUp, JobFollowsLabel, SignupAdmitted
  <2>2. \A a, u, v : NewRegistration(a, u, v, "approved").review = "approved"
    BY DEF NewRegistration
  <2>3. SignsUpOffline(p, r) => registrations'[r].review = "approved"
    BY <2>2 DEF SignsUpOffline
  <2> QED
    BY <1>2, <2>1, <2>3 DEF SignsUp, Decides, ChecksIn, Cancels
<1>3. CASE SignsUpOffline(p, r)
  <2>1. /\ registrations'[r] \in RegistrationRow
        /\ registrations'[r].review = "approved"
    BY <1>3 DEF SignsUpOffline, NewRegistration, RegistrationRow, RegistrationStatus, ReviewStatus
  <2> QED
    BY <1>2, <1>3, <2>1 DEF SignsUpOffline, SignsUp, Decides, ChecksIn, Cancels
<1>4. CASE Decides(p, r)
  <2>1. /\ job[p].reg.review \in {"approved", "rejected"} /\ registrations[r].review = "pending"
        /\ registrations[r] \in RegistrationRow
    BY <1>1, <1>4 DEF Decides, DecisionFacts
  <2>2. /\ registrations'[r] \in RegistrationRow
        /\ registrations'[r].review = job[p].reg.review
        /\ registrations'[r].status = registrations[r].status
    BY <1>4, <2>1 DEF Decides, RegistrationRow, ReviewStatus
  <2> QED
    BY <1>4, <2>1, <2>2 DEF SignsUpOffline, SignsUp, Decides, ChecksIn, Cancels
<1>5. CASE ChecksIn(p, r)
  <2>1. registrations[r] \in RegistrationRow
    BY <1>1, <1>5 DEF ChecksIn
  <2>2. /\ registrations'[r] \in RegistrationRow
        /\ registrations'[r].review = registrations[r].review
        /\ registrations'[r].status = "checked_in"
    BY <1>5, <2>1 DEF ChecksIn, RegistrationRow, RegistrationStatus
  <2> QED
    BY <1>5, <2>2 DEF SignsUpOffline, SignsUp, Decides, ChecksIn, Cancels
<1>6. CASE Cancels(p, r)
  BY <1>1, <1>6 DEF Cancels, JobFollowsLabel, SignsUpOffline, SignsUp, Decides, ChecksIn
<1> QED
  BY <1>2, <1>3, <1>4, <1>5, <1>6 DEF Writes

\* The notifications that a writer adds.
LEMMA Added ==
  ASSUME LInv, NEW p \in Workers, NEW r \in RegistrationIds, Writes(p, r)
  PROVE  /\ SignsUp(p, r) =>
              /\ Adds(r, "signup_success") = 1
              /\ Adds(r, "review_result") = 0
              /\ Adds(r, "checkin_success") = 0
         /\ Decides(p, r) =>
              /\ Adds(r, "signup_success") = 0
              /\ Adds(r, "review_result") = 1
              /\ Adds(r, "checkin_success") = 0
         /\ ChecksIn(p, r) =>
              /\ Adds(r, "signup_success") = 0
              /\ Adds(r, "review_result") = 0
              /\ Adds(r, "checkin_success") = 1
         /\ Cancels(p, r) \/ SignsUpOffline(p, r) =>
              /\ Adds(r, "signup_success") = 0
              /\ Adds(r, "review_result") = 0
              /\ Adds(r, "checkin_success") = 0
<1>1. /\ notifications[r] \in [NotificationType -> Nat]
      /\ notifications[r]["signup_success"] \in Nat
      /\ notifications[r]["review_result"] \in Nat
      /\ notifications[r]["checkin_success"] \in Nat
  BY DEF LInv, IInv, TypeOK, NotificationType
<1> QED
  BY <1>1 DEF Adds, SignsUp, Decides, ChecksIn, Cancels, SignsUpOffline, NotificationType

LEMMA NothingAdded ==
  ASSUME LInv, NEW r \in RegistrationIds, notifications'[r] = notifications[r]
  PROVE  /\ Adds(r, "signup_success") = 0
         /\ Adds(r, "review_result") = 0
         /\ Adds(r, "checkin_success") = 0
  BY DEF Adds, LInv, IInv, TypeOK, NotificationType

LEMMA EventsStep ==
  ASSUME LInv, [Next]_vars, NEW r \in RegistrationIds
  PROVE  LET SignedUpOnline ==
                ~Registered(r) /\ registrations'[r] # None
                    /\ registrations'[r].review = "pending"
             CheckedIn ==
                Registered(r) /\ registrations[r].status # "checked_in"
                    /\ registrations'[r].status = "checked_in"
         IN  /\ Adds(r, "signup_success") = (IF SignedUpOnline THEN 1 ELSE 0)
             /\ Adds(r, "checkin_success") = (IF CheckedIn THEN 1 ELSE 0)
<1> DEFINE SignedUpOnline ==
             ~Registered(r) /\ registrations'[r] # None /\ registrations'[r].review = "pending"
           CheckedIn ==
             Registered(r) /\ registrations[r].status # "checked_in"
               /\ registrations'[r].status = "checked_in"
<1>1. CASE /\ registrations'[r] = registrations[r] /\ notifications'[r] = notifications[r]
  <2>1. ~SignedUpOnline /\ ~CheckedIn
    BY <1>1 DEF Registered
  <2> QED
    BY <1>1, <2>1, NothingAdded
<1>2. ASSUME NEW p \in Workers, Writes(p, r)
      PROVE  /\ Adds(r, "signup_success") = (IF SignedUpOnline THEN 1 ELSE 0)
             /\ Adds(r, "checkin_success") = (IF CheckedIn THEN 1 ELSE 0)
  <2>1. registrations'[r] \in RegistrationRow /\ registrations'[r] # None
    BY <1>2, RowAfter, NoneAssumption
  <2>2. CASE SignsUp(p, r)
    <3>1. SignedUpOnline /\ ~CheckedIn
      BY <1>2, <2>1, <2>2, RowAfter DEF SignsUp
    <3> QED
      BY <1>2, <2>2, <3>1, Added
  <2>3. CASE Decides(p, r) \/ Cancels(p, r) \/ SignsUpOffline(p, r)
    <3>1. ~SignedUpOnline /\ ~CheckedIn
      BY <1>2, <2>3, RowAfter DEF Decides, Cancels, SignsUpOffline
    <3> QED
      BY <1>2, <2>3, <3>1, Added
  <2>4. CASE ChecksIn(p, r)
    <3>1. ~SignedUpOnline /\ CheckedIn
      BY <1>2, <2>4, RowAfter DEF ChecksIn
    <3> QED
      BY <1>2, <2>4, <3>1, Added
  <2> QED
    BY <1>2, <2>2, <2>3, <2>4 DEF Writes
<1>3. \/ registrations'[r] = registrations[r] /\ notifications'[r] = notifications[r]
      \/ \E p \in Workers : Writes(p, r)
  BY WritesOrNot DEF LInv, Writes, OnlyRow
<1> QED
  BY <1>1, <1>2, <1>3

LEMMA DecisionsStep ==
  ASSUME LInv, [Next]_vars, NEW r \in RegistrationIds, Registered(r)
  PROVE  \/ /\ registrations'[r].review = registrations[r].review
            /\ Adds(r, "review_result") = 0
         \/ /\ registrations[r].review = "pending"
            /\ Adds(r, "review_result") = 1
         \/ /\ registrations'[r].status = "cancelled"
            /\ Adds(r, "review_result") = 0
<1>1. CASE registrations'[r] = registrations[r] /\ notifications'[r] = notifications[r]
  BY <1>1, NothingAdded
<1>2. ASSUME NEW p \in Workers, Writes(p, r)
      PROVE  \/ /\ registrations'[r].review = registrations[r].review
                /\ Adds(r, "review_result") = 0
             \/ /\ registrations[r].review = "pending"
                /\ Adds(r, "review_result") = 1
             \/ /\ registrations'[r].status = "cancelled"
                /\ Adds(r, "review_result") = 0
  <2>1. ~SignsUp(p, r) /\ ~SignsUpOffline(p, r)
    BY DEF SignsUp, SignsUpOffline
  <2> QED
    BY <1>2, <2>1, RowAfter, Added DEF Writes
<1>3. \/ registrations'[r] = registrations[r] /\ notifications'[r] = notifications[r]
      \/ \E p \in Workers : Writes(p, r)
  BY WritesOrNot DEF LInv, Writes, OnlyRow
<1> QED
  BY <1>1, <1>2, <1>3

\* A sign-up or a check-in and its notification are one commit: neither is ever
\* there without the other, whatever statement fails or whenever the process
\* dies.
THEOREM EventsAreNotified == Spec => NotificationsFollowEvents
<1>1. LInv /\ [Next]_vars =>
        [\A r \in RegistrationIds :
          LET SignedUpOnline ==
                  ~Registered(r) /\ registrations'[r] # None
                      /\ registrations'[r].review = "pending"
              CheckedIn ==
                  Registered(r) /\ registrations[r].status # "checked_in"
                      /\ registrations'[r].status = "checked_in"
          IN  /\ Adds(r, "signup_success") = (IF SignedUpOnline THEN 1 ELSE 0)
              /\ Adds(r, "checkin_success") = (IF CheckedIn THEN 1 ELSE 0)]_vars
  BY EventsStep
<1> QED
  BY <1>1, LedgerInductive, PTL DEF Spec, NotificationsFollowEvents

\* Review decides a registration once, with one notification; the decision is
\* lost only to a cancellation that had read the row before.
THEOREM DecidedOnce == Spec => ReviewIsFinal
<1>1. LInv /\ [Next]_vars =>
        [\A r \in RegistrationIds : Registered(r) =>
          \/ /\ registrations'[r].review = registrations[r].review
             /\ Adds(r, "review_result") = 0
          \/ /\ registrations[r].review = "pending"
             /\ Adds(r, "review_result") = 1
          \/ /\ registrations'[r].status = "cancelled"
             /\ Adds(r, "review_result") = 0]_vars
  BY DecisionsStep
<1> QED
  BY <1>1, LedgerInductive, PTL DEF Spec, ReviewIsFinal

-----------------------------------------------------------------------------
(* EventGo implements RegistrationLedger.                                  *)

LEMMA LedgerTypes ==
  NotificationType = Ledger!NotificationType /\ ReviewStatus = Ledger!ReviewStatus
  BY DEF NotificationType, Ledger!NotificationType, ReviewStatus, Ledger!ReviewStatus

\* The entry of a registration that is there, and of one that is not.
LEMMA Entries ==
  ASSUME TypeOK, NEW r \in RegistrationIds
  PROVE  /\ ~Registered(r) => Entry(r) = None
         /\ Registered(r) =>
              /\ Entry(r) # None
              /\ Entry(r) = [activity |-> registrations[r].activity,
                             user |-> registrations[r].user,
                             online |-> Online(r), status |-> registrations[r].status,
                             review |-> registrations[r].review, checkIns |-> checkIns[r],
                             told |-> notifications[r]]
<1>1. ~Registered(r) => Entry(r) = None
  BY DEF Entry
<1>2. ASSUME Registered(r)
      PROVE  Entry(r) \in
               [activity : ActivityIds, user : Users, online : BOOLEAN,
                status : RegistrationStatus, review : ReviewStatus, checkIns : Nat,
                told : [NotificationType -> Nat]]
  <2>1. registrations[r] \in RegistrationRow
    BY <1>2 DEF TypeOK, Registered
  <2>2. Online(r) \in BOOLEAN
    BY DEF Online
  <2> QED
    BY <1>2, <2>1, <2>2 DEF TypeOK, RegistrationRow, Entry
<1> QED
  BY <1>1, <1>2, NoEntryAssumption DEF Entry

\* The fields of an entry.
LEMMA EntryFields ==
  ASSUME TypeOK, NEW r \in RegistrationIds, Registered(r)
  PROVE  /\ Entry(r).activity = registrations[r].activity
         /\ Entry(r).user = registrations[r].user
         /\ Entry(r).online <=> Online(r)
         /\ Entry(r).status = registrations[r].status
         /\ Entry(r).review = registrations[r].review
         /\ Entry(r).checkIns = checkIns[r]
  BY Entries

Fields == {"activity", "user", "online", "status", "review", "checkIns", "told"}

\* A writer of r leaves the rest of the ledger alone.
LEMMA OtherEntries ==
  ASSUME NEW r \in RegistrationIds, OnlyRow(r)
  PROVE  /\ \A s \in RegistrationIds \ {r} : Entry(s)' = Entry(s)
         /\ \A a \in ActivityIds : OpenCapacity(a)' = OpenCapacity(a)
  BY DEF OnlyRow, Entry, Online, Registered, OpenCapacity, Activity

\* Nothing is recorded of a registration that is not there.
LEMMA NothingRecorded ==
  ASSUME LInv, NEW r \in RegistrationIds, ~Registered(r)
  PROVE  checkIns[r] = 0 /\ notifications[r] = [t \in NotificationType |-> 0]
<1>1. /\ TypeOK /\ CheckInRecorded
      /\ \A t \in NotificationType : notifications[r][t] = 0
  BY DEF LInv, IInv, NoticesFollowRows
<1>2. checkIns[r] = 0
  BY <1>1 DEF TypeOK, CheckInRecorded
<1>3. notifications[r] = [t \in NotificationType |-> 0]
  BY <1>1 DEF TypeOK
<1> QED
  BY <1>2, <1>3

LEMMA SignUpMaps ==
  ASSUME LInv, NEW p \in Workers, NEW r \in RegistrationIds, Writes(p, r), SignsUp(p, r)
  PROVE  \E a \in ActivityIds, u \in Users : Ledger!SignUp(r, a, u)
<1> DEFINE a == job[p].aid
           u == job[p].user
<1>1. /\ TypeOK /\ InSignup(p) /\ OnlyRow(r)
      /\ a \in ActivityIds /\ u \in Users /\ job[p].act \in ActivityRow
      /\ job[p].reg \in RegistrationRow /\ job[p].reg.status = "registered"
      /\ job[p].act = activities[a]
  BY DEF LInv, IInv, SignsUp, Writes, InSignup, LockedStructsAreFresh, JobsFollowLabels,
        JobFollowsLabel
<1>2. /\ job[p].act.status = "published"
      /\ job[p].act.capacity = 0 \/ Cardinality(Taken(a)) < job[p].act.capacity
      /\ \A s \in RegistrationIds :
           Online(s) /\ registrations[s].activity = a => registrations[s].user # u
      /\ job[p].reg.activity = a /\ job[p].reg.user = u /\ job[p].reg.review = "pending"
  BY <1>1 DEF LInv, SignupStaysAdmitted, SignupAdmitted, SignsUp
<1> HIDE DEF a, u
<1>3. OpenCapacity(a) = job[p].act.capacity /\ OpenCapacity(a) # None
  BY <1>1, <1>2, NoneAssumption DEF OpenCapacity, Activity, ActivityRow
<1>4. Ledger!Cardinality(Ledger!Taken(a)) = Cardinality(Taken(a))
  <2>1. Ledger!Taken(a) = Taken(a)
    BY <1>1, Entries, EntryFields DEF Ledger!Taken, Ledger!Entered, Taken, Online
  <2>2. Ledger!Cardinality(Taken(a)) = Cardinality(Taken(a))
    BY DEF Ledger!Cardinality, Cardinality
  <2> QED
    BY <2>1, <2>2
<1>5. ~Ledger!HasSignedUp(a, u)
  BY <1>1, <1>2, Entries, EntryFields DEF Ledger!HasSignedUp, Ledger!Entered
<1>6. notifications'[r] =
        [t \in NotificationType |-> IF TRUE /\ t = "signup_success" THEN 1 ELSE 0]
  <2>1. notifications'[r] = [[t \in NotificationType |-> 0] EXCEPT !["signup_success"] = @ + 1]
    BY NothingRecorded DEF SignsUp
  <2>2. "signup_success" \in NotificationType
    BY DEF NotificationType
  <2> QED
    BY <2>1, <2>2
<1>7. checkIns'[r] = 0
  BY NothingRecorded DEF SignsUp
<1>8. Online(r)' = TRUE /\ Registered(r)'
  BY <1>1, <1>6, NoneAssumption DEF Online, Registered, SignsUp, NotificationType
<1>9. Entry(r)' = Ledger!Entry(a, u, TRUE, "pending")
  BY <1>1, <1>2, <1>6, <1>7, <1>8, LedgerTypes DEF Entry, Ledger!Entry, SignsUp
<1>10. /\ \A s \in RegistrationIds \ {r} : Entry(s)' = Entry(s)
       /\ \A b \in ActivityIds : OpenCapacity(b)' = OpenCapacity(b)
       /\ Entry(r) = None
  BY <1>1, Entries, OtherEntries DEF SignsUp
<1>11. [s \in RegistrationIds |-> Entry(s)'] =
         [[s \in RegistrationIds |-> Entry(s)] EXCEPT ![r] = Ledger!Entry(a, u, TRUE, "pending")]
  BY <1>9, <1>10
<1>12. [b \in ActivityIds |-> OpenCapacity(b)'] = [b \in ActivityIds |-> OpenCapacity(b)]
  BY <1>10
<1>13. Ledger!SignUp(r, a, u)
  BY <1>1, <1>2, <1>3, <1>4, <1>5, <1>10, <1>11, <1>12 DEF Ledger!SignUp, Ledger!Entered
<1> QED
  BY <1>1, <1>13

LEMMA SignUpOfflineMaps ==
  ASSUME LInv, NEW p \in Workers, NEW r \in RegistrationIds, Writes(p, r), SignsUpOffline(p, r)
  PROVE  \E a \in ActivityIds, u \in Users : Ledger!SignUpOffline(r, a, u)
<1>1. TypeOK /\ OnlyRow(r) /\ ~Registered(r)
  BY DEF LInv, IInv, Writes, SignsUpOffline
<1>2. PICK a \in ActivityIds, u \in Users, v \in Vouchers :
        registrations'[r] = NewRegistration(a, u, v, "approved")
  BY DEF SignsUpOffline
<1>3. registrations'[r] =
        [activity |-> a, user |-> u, voucher |-> v, status |-> "registered", review |-> "approved"]
  BY <1>2 DEF NewRegistration
<1>4. registrations'[r] \in RegistrationRow
  BY <1>3 DEF RegistrationRow, RegistrationStatus, ReviewStatus
<1>5. notifications'[r] =
        [t \in NotificationType |-> IF FALSE /\ t = "signup_success" THEN 1 ELSE 0]
  BY NothingRecorded DEF SignsUpOffline
<1>6. checkIns'[r] = 0
  BY NothingRecorded DEF SignsUpOffline
<1>7. Online(r)' = FALSE /\ Registered(r)'
  BY <1>4, <1>5, NoneAssumption DEF Online, Registered, NotificationType
<1>8. Entry(r)' = Ledger!Entry(a, u, FALSE, "approved")
  <2>1. Entry(r)' =
          [activity |-> registrations'[r].activity, user |-> registrations'[r].user,
           online |-> FALSE, status |-> registrations'[r].status,
           review |-> registrations'[r].review, checkIns |-> checkIns'[r],
           told |-> notifications'[r]]
    BY <1>7 DEF Entry
  <2>2. /\ registrations'[r].activity = a /\ registrations'[r].user = u
        /\ registrations'[r].status = "registered" /\ registrations'[r].review = "approved"
    BY <1>3
  <2> QED
    BY <2>1, <2>2, <1>5, <1>6, LedgerTypes DEF Ledger!Entry
<1>9. /\ \A s \in RegistrationIds \ {r} : Entry(s)' = Entry(s)
      /\ \A b \in ActivityIds : OpenCapacity(b)' = OpenCapacity(b)
      /\ Entry(r) = None
  BY <1>1, Entries, OtherEntries
<1>10. [s \in RegistrationIds |-> Entry(s)'] =
         [[s \in RegistrationIds |-> Entry(s)] EXCEPT ![r] = Ledger!Entry(a, u, FALSE, "approved")]
  BY <1>8, <1>9
<1>11. [b \in ActivityIds |-> OpenCapacity(b)'] = [b \in ActivityIds |-> OpenCapacity(b)]
  BY <1>9
<1>12. Ledger!SignUpOffline(r, a, u)
  BY <1>9, <1>10, <1>11 DEF Ledger!SignUpOffline, Ledger!Entered
<1> QED
  BY <1>12

LEMMA ReviewMaps ==
  ASSUME LInv, NEW p \in Workers, NEW r \in RegistrationIds, Writes(p, r), Decides(p, r)
  PROVE  \E decision \in {"approved", "rejected"} : Ledger!Review(r, decision)
<1> DEFINE row == registrations[r]
           decision == job[p].reg.review
<1>1. TypeOK /\ OnlyRow(r) /\ Registered(r) /\ row \in RegistrationRow
  BY DEF LInv, IInv, TypeOK, Writes, Decides, Registered
<1>2. decision \in {"approved", "rejected"} /\ row.review = "pending"
  BY DEF LInv, DecisionFacts, Decides
<1>3. /\ registrations'[r] = [row EXCEPT !.review = decision]
      /\ checkIns'[r] = checkIns[r]
      /\ notifications'[r] = [notifications[r] EXCEPT !["review_result"] = @ + 1]
  BY DEF Decides
<1> HIDE DEF decision
<1>4. /\ registrations'[r].activity = row.activity /\ registrations'[r].user = row.user
      /\ registrations'[r].status = row.status /\ registrations'[r].review = decision
      /\ registrations'[r] \in RegistrationRow
  BY <1>1, <1>2, <1>3 DEF RegistrationRow, ReviewStatus
<1>5. /\ notifications'[r]["signup_success"] = notifications[r]["signup_success"]
      /\ Registered(r)' /\ Online(r)' = Online(r)
  <2>1. notifications'[r]["signup_success"] = notifications[r]["signup_success"]
    BY <1>1, <1>3 DEF TypeOK, NotificationType
  <2>2. Registered(r)'
    BY <1>4, NoneAssumption DEF Registered
  <2> QED
    BY <1>1, <2>1, <2>2 DEF Online
<1>6. Entry(r)' =
        [activity |-> row.activity, user |-> row.user, online |-> Online(r),
         status |-> row.status, review |-> decision, checkIns |-> checkIns[r],
         told |-> [notifications[r] EXCEPT !["review_result"] = @ + 1]]
  BY <1>3, <1>4, <1>5 DEF Entry
<1>7. Entry(r)' = [Entry(r) EXCEPT !.review = decision, !.told["review_result"] = @ + 1]
  <2>1. Entry(r) =
        [activity |-> row.activity, user |-> row.user, online |-> Online(r),
         status |-> row.status, review |-> row.review, checkIns |-> checkIns[r],
         told |-> notifications[r]]
    BY <1>1, Entries
  <2> HIDE DEF row
  <2> DEFINE f == [x \in Fields |-> IF x = "review" THEN decision
                                    ELSE IF x = "told"
                                    THEN [Entry(r).told EXCEPT !["review_result"] = @ + 1]
                                    ELSE Entry(r)[x]]
  <2>2. [Entry(r) EXCEPT !.review = decision, !.told["review_result"] = @ + 1] = f
    BY <2>1 DEF Fields
  <2>3. Entry(r)' = f
    BY <2>1, <1>6 DEF Fields
  <2> QED
    BY <2>2, <2>3
<1>8. /\ \A s \in RegistrationIds \ {r} : Entry(s)' = Entry(s)
      /\ \A b \in ActivityIds : OpenCapacity(b)' = OpenCapacity(b)
      /\ Entry(r) # None /\ Entry(r).review = "pending"
  BY <1>1, <1>2, Entries, EntryFields, OtherEntries
<1>9. [s \in RegistrationIds |-> Entry(s)'] =
        [[s \in RegistrationIds |-> Entry(s)] EXCEPT
           ![r].review = decision, ![r].told["review_result"] = @ + 1]
  BY <1>7, <1>8
<1>10. [b \in ActivityIds |-> OpenCapacity(b)'] = [b \in ActivityIds |-> OpenCapacity(b)]
  BY <1>8
<1>11. Ledger!Review(r, decision)
  BY <1>8, <1>9, <1>10 DEF Ledger!Review, Ledger!Entered
<1> QED
  BY <1>2, <1>11

LEMMA CheckInMaps ==
  ASSUME LInv, NEW p \in Workers, NEW r \in RegistrationIds, Writes(p, r), ChecksIn(p, r)
  PROVE  Ledger!CheckIn(r)
<1> DEFINE row == registrations[r]
<1>1. TypeOK /\ OnlyRow(r) /\ Registered(r) /\ row \in RegistrationRow
  BY DEF LInv, IInv, TypeOK, Writes, ChecksIn, Registered
<1>2. /\ registrations'[r] = [row EXCEPT !.status = "checked_in"]
      /\ row.status = "registered" /\ checkIns[r] = 0 /\ checkIns'[r] = 1
      /\ notifications'[r] = [notifications[r] EXCEPT !["checkin_success"] = @ + 1]
  BY DEF ChecksIn
<1>3. /\ registrations'[r].activity = row.activity /\ registrations'[r].user = row.user
      /\ registrations'[r].status = "checked_in" /\ registrations'[r].review = row.review
      /\ registrations'[r] \in RegistrationRow
  BY <1>1, <1>2 DEF RegistrationRow, RegistrationStatus
<1>4. /\ notifications'[r]["signup_success"] = notifications[r]["signup_success"]
      /\ Registered(r)' /\ Online(r)' = Online(r)
  <2>1. notifications'[r]["signup_success"] = notifications[r]["signup_success"]
    BY <1>1, <1>2 DEF TypeOK, NotificationType
  <2>2. Registered(r)'
    BY <1>3, NoneAssumption DEF Registered
  <2> QED
    BY <1>1, <2>1, <2>2 DEF Online
<1>5. Entry(r)' =
        [activity |-> row.activity, user |-> row.user, online |-> Online(r),
         status |-> "checked_in", review |-> row.review, checkIns |-> 1,
         told |-> [notifications[r] EXCEPT !["checkin_success"] = @ + 1]]
  BY <1>2, <1>3, <1>4 DEF Entry
<1>6. Entry(r)' = [Entry(r) EXCEPT !.status = "checked_in", !.checkIns = 1,
                                   !.told["checkin_success"] = @ + 1]
  <2>1. Entry(r) =
        [activity |-> row.activity, user |-> row.user, online |-> Online(r),
         status |-> row.status, review |-> row.review, checkIns |-> checkIns[r],
         told |-> notifications[r]]
    BY <1>1, Entries
  <2> HIDE DEF row
  <2> DEFINE f == [x \in Fields |-> IF x = "status" THEN "checked_in"
                                    ELSE IF x = "checkIns" THEN 1
                                    ELSE IF x = "told"
                                    THEN [Entry(r).told EXCEPT !["checkin_success"] = @ + 1]
                                    ELSE Entry(r)[x]]
  <2>2. [Entry(r) EXCEPT !.status = "checked_in", !.checkIns = 1,
                        !.told["checkin_success"] = @ + 1] = f
    BY <2>1 DEF Fields
  <2>3. Entry(r)' = f
    BY <2>1, <1>5 DEF Fields
  <2> QED
    BY <2>2, <2>3
<1>7. /\ \A s \in RegistrationIds \ {r} : Entry(s)' = Entry(s)
      /\ \A b \in ActivityIds : OpenCapacity(b)' = OpenCapacity(b)
      /\ Entry(r) # None /\ Entry(r).status = "registered" /\ Entry(r).checkIns = 0
  BY <1>1, <1>2, Entries, EntryFields, OtherEntries
<1>8. [s \in RegistrationIds |-> Entry(s)'] =
        [[s \in RegistrationIds |-> Entry(s)] EXCEPT
           ![r].status = "checked_in", ![r].checkIns = 1, ![r].told["checkin_success"] = @ + 1]
  BY <1>6, <1>7
<1>9. [b \in ActivityIds |-> OpenCapacity(b)'] = [b \in ActivityIds |-> OpenCapacity(b)]
  BY <1>7
<1> QED
  BY <1>7, <1>8, <1>9 DEF Ledger!CheckIn, Ledger!Entered

LEMMA CancelMaps ==
  ASSUME LInv, NEW p \in Workers, NEW r \in RegistrationIds, Writes(p, r), Cancels(p, r)
  PROVE  Ledger!Cancel(r)
<1> DEFINE row == registrations[r]
           review == job[p].reg.review
<1>1. TypeOK /\ OnlyRow(r) /\ Registered(r)
  BY DEF LInv, IInv, Writes, Cancels
<1>2. /\ registrations'[r].activity = row.activity /\ registrations'[r].user = row.user
      /\ registrations'[r].status = "cancelled" /\ registrations'[r].review = review
      /\ checkIns'[r] = checkIns[r] /\ notifications'[r] = notifications[r]
  BY DEF LInv, DecisionFacts, Cancels
<1>3. registrations'[r] \in RegistrationRow /\ review \in ReviewStatus
  BY RowAfter DEF Cancels, RegistrationRow
<1> HIDE DEF review
<1>4. Registered(r)' /\ Online(r)' = Online(r)
  BY <1>1, <1>2, <1>3, NoneAssumption DEF Registered, Online
<1>5. Entry(r)' =
        [activity |-> row.activity, user |-> row.user, online |-> Online(r),
         status |-> "cancelled", review |-> review, checkIns |-> checkIns[r],
         told |-> notifications[r]]
  BY <1>2, <1>4 DEF Entry
<1>6. Entry(r)' = [Entry(r) EXCEPT !.status = "cancelled", !.review = review]
  <2>1. Entry(r) =
        [activity |-> row.activity, user |-> row.user, online |-> Online(r),
         status |-> row.status, review |-> row.review, checkIns |-> checkIns[r],
         told |-> notifications[r]]
    BY <1>1, Entries
  <2> HIDE DEF row
  <2> DEFINE f == [x \in Fields |-> IF x = "status" THEN "cancelled"
                                    ELSE IF x = "review" THEN review
                                    ELSE Entry(r)[x]]
  <2>2. [Entry(r) EXCEPT !.status = "cancelled", !.review = review] = f
    BY <2>1 DEF Fields
  <2>3. Entry(r)' = f
    BY <2>1, <1>5 DEF Fields
  <2> QED
    BY <2>2, <2>3
<1>7. /\ \A s \in RegistrationIds \ {r} : Entry(s)' = Entry(s)
      /\ \A b \in ActivityIds : OpenCapacity(b)' = OpenCapacity(b)
      /\ Entry(r) # None /\ review \in Ledger!ReviewStatus
  BY <1>1, <1>3, LedgerTypes, Entries, OtherEntries
<1>8. [s \in RegistrationIds |-> Entry(s)'] =
        [[s \in RegistrationIds |-> Entry(s)] EXCEPT ![r].status = "cancelled", ![r].review = review]
  BY <1>6, <1>7
<1>9. [b \in ActivityIds |-> OpenCapacity(b)'] = [b \in ActivityIds |-> OpenCapacity(b)]
  BY <1>7
<1> QED
  BY <1>7, <1>8, <1>9 DEF Ledger!Cancel, Ledger!Entered

LEMMA CapacitiesOpen ==
  ASSUME TypeOK, NEW a \in ActivityIds
  PROVE  OpenCapacity(a) \in Capacities \cup {None}
  BY DEF TypeOK, OpenCapacity, Activity, ActivityRow

LEMMA OrganizeMaps ==
  ASSUME TypeOK', UNCHANGED <<registrations, checkIns, notifications>>
  PROVE  Ledger!Organize
<1>1. \A a \in ActivityIds : OpenCapacity(a)' \in Capacities \cup {None}
  BY DEF TypeOK, OpenCapacity, Activity, ActivityRow
<1>2. \A r \in RegistrationIds : Entry(r)' = Entry(r)
  BY DEF Entry, Online, Registered
<1> QED
  BY <1>1, <1>2 DEF Ledger!Organize

\* Every step of the backend is one step of the ledger, or none.
LEMMA LedgerStep ==
  ASSUME LInv, [Next]_vars
  PROVE  Ledger!Next
<1>1. CASE UNCHANGED <<registrations, checkIns, notifications>>
  <2>1. TypeOK'
    BY NextLInv DEF LInv, IInv
  <2> QED
    BY <1>1, <2>1, OrganizeMaps DEF Ledger!Next
<1>2. ASSUME NEW p \in Workers, NEW r \in RegistrationIds, Writes(p, r)
      PROVE  Ledger!Next
  BY <1>2, SignUpMaps, SignUpOfflineMaps, ReviewMaps, CheckInMaps, CancelMaps
  DEF Writes, Ledger!Next
<1> QED
  BY <1>1, <1>2, WritesOrNot DEF LInv

LEMMA LedgerStart == Init => Ledger!Init
<1> SUFFICES ASSUME Init PROVE Ledger!Init
  OBVIOUS
<1>1. TypeOK
  BY InitIInv DEF IInv
<1>2. \A r \in RegistrationIds : Entry(r) = None
  BY DEF Init, Entry, Registered
<1> QED
  BY <1>1, <1>2, CapacitiesOpen DEF Ledger!Init

\* The backend implements the ledger: whatever workers, locks, failures and
\* crashes do, what the tables show changes by one promised step at a time.
THEOREM LedgerImplemented == Spec => ImplementsLedger
<1>1. LInv /\ [Next]_vars => Ledger!Next
  BY LedgerStep
<1> QED
  BY <1>1, LedgerStart, LedgerInductive, PTL DEF Spec, ImplementsLedger, Ledger!Spec

=============================================================================

------------------------------ MODULE KeyProofs ------------------------------
(***************************************************************************)
(* The unique keys of table registrations, proved: no two rows share one,  *)
(* because no open INSERT has the key of a row or of another open INSERT.  *)
(***************************************************************************)
EXTENDS Stats, LedgerProofs

Inserted(p) == pc[p] \in {"signupNotify", "signupCommit"}

RowsApart ==
    \A r1, r2 \in RegistrationIds :
        r1 # r2 /\ Registered(r1) /\ Registered(r2)
            => ~SameKey(registrations[r1], registrations[r2])

ApartFromRows(row) ==
    \A r \in RegistrationIds : Registered(r) => ~SameKey(row, registrations[r])

ApartFromInserts(p, row) ==
    \A q \in Workers \ {p} : Inserted(q) => ~SameKey(row, job[q].reg)

InsertApart(p) ==
    Inserted(p) => ApartFromRows(job[p].reg) /\ ApartFromInserts(p, job[p].reg)

\* The row a cancellation saves has the voucher it read.
CancelKeepsVoucher(p) ==
    pc[p] = "cancelSave" => job[p].reg.voucher = registrations[job[p].rid].voucher

KInv ==
    /\ LInv
    /\ RowsApart
    /\ \A p \in Workers : InsertApart(p) /\ CancelKeepsVoucher(p)

-----------------------------------------------------------------------------
(* Rows keep their keys, and get new ones.                                 *)

LEMMA VoucherKeeps ==
  ASSUME KInv, [Next]_vars, NEW r \in RegistrationIds, Registered(r)
  PROVE  registrations'[r].voucher = registrations[r].voucher
<1>1. LInv /\ IInv /\ registrations[r] \in RegistrationRow
  BY DEF KInv, LInv, IInv, TypeOK, Registered
<1>2. ASSUME NEW p \in Workers, NEW s \in RegistrationIds, Writes(p, s)
      PROVE  registrations'[r].voucher = registrations[r].voucher
  <2>1. CASE r # s
    BY <1>2, <2>1 DEF Writes, OnlyRow
  <2>2. CASE r = s /\ (Decides(p, r) \/ ChecksIn(p, r))
    BY <1>1, <2>2 DEF Decides, ChecksIn, RegistrationRow
  <2>3. CASE r = s /\ Cancels(p, r)
    BY <2>3 DEF KInv, CancelKeepsVoucher, Cancels
  <2> QED
    BY <1>2, <2>1, <2>2, <2>3 DEF Writes, SignsUp, SignsUpOffline
<1> QED
  BY <1>1, <1>2, WritesOrNot

\* A row that is there keeps its keys.
LEMMA KeysKept ==
  ASSUME KInv, [Next]_vars, NEW r \in RegistrationIds, Registered(r)
  PROVE  \A row : SameKey(row, registrations'[r]) <=> SameKey(row, registrations[r])
<1>1. /\ registrations'[r].activity = registrations[r].activity
      /\ registrations'[r].user = registrations[r].user
      /\ registrations'[r].voucher = registrations[r].voucher
  BY VoucherKeeps, RegistrationKeeps DEF KInv
<1> QED
  BY <1>1 DEF SameKey

\* What ~InsertFails and ~BlockedInsert say of a row to insert.
LEMMA InsertChecked ==
  ASSUME IInv, NEW p \in Workers, NEW row, ~InsertFails(row), ~BlockedInsert(p, row)
  PROVE  ApartFromRows(row) /\ ApartFromInserts(p, row)
<1>1. ASSUME NEW q \in Workers, Inserted(q) PROVE Inserting(q)
  BY <1>1 DEF IInv, JobsFollowLabels, JobFollowsLabel, DirtyAt, Inserted, Inserting
<1> QED
  BY <1>1
  DEF InsertFails, DuplicateKey, BlockedInsert, ApartFromRows, ApartFromInserts

\* A row that appears is that of a worker which is then done, and has a key of
\* its own.
LEMMA NewRowApart ==
  ASSUME KInv, [Next]_vars, NEW r \in RegistrationIds, ~Registered(r), Registered(r)'
  PROVE  /\ \A s \in RegistrationIds \ {r} : registrations'[s] = registrations[s]
         /\ ApartFromRows(registrations'[r])
         /\ \E p \in Workers : pc'[p] = "idle" /\ ApartFromInserts(p, registrations'[r])
<1>1. LInv /\ IInv /\ TypeOK
  BY DEF KInv, LInv, IInv
<1>2. ~UNCHANGED <<registrations, checkIns, notifications>>
  BY DEF Registered
<1>3. PICK p \in Workers, s \in RegistrationIds : Writes(p, s)
  BY <1>1, <1>2, WritesOrNot
<1>4. s = r
  BY <1>3 DEF Writes, OnlyRow, Registered
<1>5. \A t \in RegistrationIds \ {r} : registrations'[t] = registrations[t]
  BY <1>3, <1>4 DEF Writes, OnlyRow
<1>6. PICK q \in Workers :
         \/ SignupCommit(q) \/ ReviewCommit(q) \/ CheckInCommit(q)
         \/ CancelSave(q) \/ OfflineInsert(q)
  BY <1>2, RegistrationWriters
<1>7. CASE OfflineInsert(q)
  <2>1. ~Rollback(q)
    BY <1>2 DEF Rollback, tables
  <2>2. PICK v \in Vouchers, t \in FreshIds :
          LET row == NewRegistration(job[q].aid, job[q].user, v, "approved")
          IN  /\ ~InsertFails(row) /\ ~BlockedInsert(q, row)
              /\ registrations' = [registrations EXCEPT ![t] = row]
              /\ pc' = [pc EXCEPT ![q] = "idle"]
    BY <1>7, <2>1 DEF OfflineInsert, Return
  <2> DEFINE row == NewRegistration(job[q].aid, job[q].user, v, "approved")
  <2>3. /\ ~InsertFails(row) /\ ~BlockedInsert(q, row)
        /\ registrations' = [registrations EXCEPT ![t] = row]
        /\ pc' = [pc EXCEPT ![q] = "idle"]
    BY <2>2
  <2> HIDE DEF row
  <2>4. t = r /\ registrations'[r] = row /\ pc'[q] = "idle"
    BY <1>1, <2>3 DEF TypeOK, Registered
  <2>5. ApartFromRows(row) /\ ApartFromInserts(q, row)
    BY <1>1, <2>3, InsertChecked
  <2> QED
    BY <1>5, <2>4, <2>5
<1>8. CASE SignupCommit(q)
  <2>1. Inserted(q) /\ Commit(q) /\ pc[q] = "signupCommit"
    BY <1>8 DEF SignupCommit, At, Inserted
  <2>2. OnlyRow(job[q].rid) /\ pc'[q] = "idle" /\ registrations'[job[q].rid] = job[q].reg
    BY <1>1, <2>1, CommitWrites
  <2>3. job[q].rid = r
    BY <2>2 DEF OnlyRow, Registered
  <2> QED
    BY <1>5, <2>1, <2>2, <2>3 DEF KInv, InsertApart
<1>9. CASE ReviewCommit(q) \/ CheckInCommit(q)
  <2>1. Commit(q) /\ pc[q] \in {"reviewCommit", "checkInCommit"}
    BY <1>9 DEF ReviewCommit, CheckInCommit, At
  <2>2. OnlyRow(job[q].rid)
    BY <1>1, <2>1, CommitWrites
  <2>3. Registered(job[q].rid)
    BY <1>1, <2>1 DEF IInv, JobsFollowLabels, JobFollowsLabel, InReview, InCheckIn
  <2> QED
    BY <2>2, <2>3 DEF OnlyRow, Registered
<1>10. CASE CancelSave(q)
  <2>1. Registered(job[q].rid) /\ registrations' = [registrations EXCEPT ![job[q].rid] = job[q].reg]
    BY <1>1, <1>10 DEF CancelSave, At, IInv, JobsFollowLabels, JobFollowsLabel
  <2> QED
    BY <1>1, <2>1 DEF TypeOK, Registered
<1> QED
  BY <1>6, <1>7, <1>8, <1>9, <1>10

-----------------------------------------------------------------------------
(* Inserts that are not committed yet.                                     *)

\* An insert that goes on was there before, or has just been checked, by a step
\* that leaves the rows and the other workers alone.
LEMMA InsertFound ==
  ASSUME KInv, [Next]_vars, NEW p \in Workers, Inserted(p)'
  PROVE  \/ Inserted(p) /\ job'[p].reg = job[p].reg
         \/ /\ registrations' = registrations
            /\ ApartFromRows(job'[p].reg) /\ ApartFromInserts(p, job'[p].reg)
            /\ \A q \in Workers \ {p} : pc'[q] = pc[q] /\ job'[q] = job[q]
<1>1. /\ IInv /\ TypeOK /\ pc'[p] \in FoundLabels /\ job[p] \in Job
      /\ pc'[p] \in {"signupNotify", "signupCommit"}
  BY DEF KInv, LInv, IInv, TypeOK, Inserted, FoundLabels
<1>2. CASE pc'[p] = pc[p] /\ job'[p] = job[p]
  BY <1>1, <1>2 DEF Inserted
<1>3. CASE SignupNotify(p)
  <2>1. pc[p] = "signupNotify" /\ job' = [job EXCEPT ![p].dirty = @ \cup {"signup_success"}]
    BY <1>3 DEF SignupNotify, At
  <2> QED
    BY <1>1, <2>1 DEF Inserted, TypeOK, Job
<1>4. CASE SignupInsert(p)
  <2>1. ~Rollback(p)
    BY <1>1 DEF Rollback, Return, TypeOK
  <2>2. PICK v \in Vouchers, r \in FreshIds :
          LET row == NewRegistration(job[p].aid, job[p].user, v, "pending")
          IN  /\ ~InsertFails(row) /\ ~BlockedInsert(p, row)
              /\ job' = [job EXCEPT ![p].rid = r, ![p].reg = row,
                                    ![p].dirty = {"registration"}]
              /\ pc' = [pc EXCEPT ![p] = "signupNotify"]
              /\ registrations' = registrations
    BY <1>4, <2>1 DEF SignupInsert, Goto, tables
  <2> DEFINE row == NewRegistration(job[p].aid, job[p].user, v, "pending")
  <2>3. /\ ~InsertFails(row) /\ ~BlockedInsert(p, row)
        /\ job' = [job EXCEPT ![p].rid = r, ![p].reg = row, ![p].dirty = {"registration"}]
        /\ pc' = [pc EXCEPT ![p] = "signupNotify"]
        /\ registrations' = registrations
    BY <2>2
  <2> HIDE DEF row
  <2>4. job'[p].reg = row
    BY <1>1, <2>3 DEF TypeOK, Job
  <2>5. \A q \in Workers \ {p} : pc'[q] = pc[q] /\ job'[q] = job[q]
    BY <1>1, <2>3 DEF TypeOK
  <2>6. ApartFromRows(row) /\ ApartFromInserts(p, row)
    BY <1>1, <2>3, InsertChecked
  <2> QED
    BY <2>3, <2>4, <2>5, <2>6
<1>5. ASSUME Finds(p), ~SignupInsert(p), ~SignupNotify(p) PROVE FALSE
  BY <1>1, <1>5 DEF Finds, SignupLock, SignupCheck, ReviewLock, ReviewActivity, ReviewSave,
        ReviewNotify, CancelFind, Begin, Goto, Rollback, Return, TypeOK
<1> QED
  BY <1>1, <1>2, <1>3, <1>4, <1>5, Moves

LEMMA KeysSymmetric ==
  \A row1, row2 : SameKey(row1, row2) <=> SameKey(row2, row1)
  BY DEF SameKey

LEMMA InsertsStep ==
  ASSUME KInv, [Next]_vars, NEW p \in Workers
  PROVE  InsertApart(p)'
<1> SUFFICES ASSUME Inserted(p)'
             PROVE  /\ \A r \in RegistrationIds :
                         Registered(r)' => ~SameKey(job'[p].reg, registrations'[r])
                    /\ \A q \in Workers \ {p} :
                         Inserted(q)' => ~SameKey(job'[p].reg, job'[q].reg)
  BY DEF InsertApart, ApartFromRows, ApartFromInserts
<1>1. ASSUME NEW r \in RegistrationIds, Registered(r)'
      PROVE  ~SameKey(job'[p].reg, registrations'[r])
  <2>1. CASE Registered(r)
    <3>1. ~SameKey(job'[p].reg, registrations[r])
      BY <2>1, InsertFound DEF KInv, InsertApart, ApartFromRows
    <3> QED
      BY <2>1, <3>1, KeysKept
  <2>2. CASE ~Registered(r)
    <3>1. Inserted(p) /\ job'[p].reg = job[p].reg
      BY <1>1, <2>2, InsertFound DEF Registered
    <3>2. PICK q \in Workers : pc'[q] = "idle" /\ ApartFromInserts(q, registrations'[r])
      BY <1>1, <2>2, NewRowApart
    <3>3. p # q
      BY <3>2 DEF Inserted
    <3> QED
      BY <3>1, <3>2, <3>3, KeysSymmetric DEF ApartFromInserts
  <2> QED
    BY <2>1, <2>2
<1>2. ASSUME NEW q \in Workers \ {p}, Inserted(q)'
      PROVE  ~SameKey(job'[p].reg, job'[q].reg)
  <2>1. CASE Inserted(p) /\ job'[p].reg = job[p].reg /\ Inserted(q) /\ job'[q].reg = job[q].reg
    BY <2>1 DEF KInv, InsertApart, ApartFromInserts
  <2>2. CASE ~(Inserted(p) /\ job'[p].reg = job[p].reg)
    <3>1. /\ ApartFromInserts(p, job'[p].reg)
          /\ \A s \in Workers \ {p} : pc'[s] = pc[s] /\ job'[s] = job[s]
      BY <2>2, InsertFound
    <3> QED
      BY <1>2, <3>1 DEF ApartFromInserts, Inserted
  <2>3. CASE ~(Inserted(q) /\ job'[q].reg = job[q].reg)
    <3>1. /\ ApartFromInserts(q, job'[q].reg)
          /\ \A s \in Workers \ {q} : pc'[s] = pc[s] /\ job'[s] = job[s]
      BY <1>2, <2>3, InsertFound
    <3> QED
      BY <1>2, <3>1, KeysSymmetric DEF ApartFromInserts, Inserted
  <2> QED
    BY <2>1, <2>2, <2>3
<1> QED
  BY <1>1, <1>2

LEMMA RowsStep ==
  ASSUME KInv, [Next]_vars
  PROVE  RowsApart'
<1> SUFFICES ASSUME NEW r1 \in RegistrationIds, NEW r2 \in RegistrationIds, r1 # r2,
                    Registered(r1)', Registered(r2)'
             PROVE  ~SameKey(registrations'[r1], registrations'[r2])
  BY DEF RowsApart
<1>1. ASSUME NEW s1 \in RegistrationIds, NEW s2 \in RegistrationIds, s1 # s2,
             Registered(s1)', Registered(s2)', ~Registered(s1)
      PROVE  ~SameKey(registrations'[s1], registrations'[s2])
  <2>1. registrations'[s2] = registrations[s2] /\ ApartFromRows(registrations'[s1])
    BY <1>1, NewRowApart
  <2> QED
    BY <1>1, <2>1 DEF ApartFromRows, Registered
<1>2. CASE Registered(r1) /\ Registered(r2)
  <2>1. ~SameKey(registrations[r1], registrations[r2])
    BY <1>2 DEF KInv, RowsApart
  <2> QED
    BY <1>2, <2>1, KeysKept, KeysSymmetric
<1> QED
  BY <1>1, <1>2, KeysSymmetric

LEMMA VoucherStep ==
  ASSUME KInv, [Next]_vars, NEW p \in Workers
  PROVE  CancelKeepsVoucher(p)'
<1> SUFFICES ASSUME pc'[p] = "cancelSave"
             PROVE  job'[p].reg.voucher = registrations'[job'[p].rid].voucher
  BY DEF CancelKeepsVoucher
<1>1. /\ IInv /\ TypeOK /\ pc'[p] \in FoundLabels
  BY DEF KInv, LInv, IInv, FoundLabels
<1>2. CASE pc'[p] = pc[p] /\ job'[p] = job[p]
  <2>1. job[p].rid \in RegistrationIds /\ Registered(job[p].rid)
    BY <1>1, <1>2 DEF IInv, JobsFollowLabels, JobFollowsLabel
  <2> QED
    BY <1>2, <2>1, VoucherKeeps DEF KInv, CancelKeepsVoucher
<1>3. CASE CancelFind(p)
  <2>1. PICK r \in RegistrationIds :
          /\ Registered(r)
          /\ job' = [job EXCEPT ![p] =
               [NoJob EXCEPT !.rid = r,
                             !.reg = [registrations[r] EXCEPT !.status = "cancelled"]]]
          /\ registrations' = registrations
    BY <1>3 DEF CancelFind, Begin, tables
  <2>2. registrations[r] \in RegistrationRow
    BY <1>1, <2>1 DEF TypeOK, Registered
  <2>3. job'[p].rid = r /\ job'[p].reg = [registrations[r] EXCEPT !.status = "cancelled"]
    BY <1>1, <2>1 DEF TypeOK, NoJob
  <2> QED
    BY <2>1, <2>2, <2>3 DEF RegistrationRow
<1>4. ASSUME Finds(p), ~CancelFind(p) PROVE FALSE
  BY <1>1, <1>4 DEF Finds, SignupLock, SignupCheck, SignupInsert, SignupNotify, ReviewLock,
        ReviewActivity, ReviewSave, ReviewNotify, Goto, Rollback, Return, TypeOK
<1> QED
  BY <1>1, <1>2, <1>3, <1>4, Moves

\* No two registrations share a voucher, nor, with the schema of init.sql, an
\* activity and a user, however many inserts race.
THEOREM KeysUnique == Spec => []NoDuplicateRegistration
<1>1. LInv /\ Init => KInv
  <2> SUFFICES ASSUME LInv, Init PROVE KInv
    OBVIOUS
  <2> QED
    BY DEF Init, KInv, RowsApart, InsertApart, Inserted, CancelKeepsVoucher, Registered
<1>2. KInv /\ [Next]_vars => KInv'
  BY NextLInv, RowsStep, InsertsStep, VoucherStep DEF KInv
<1>3. KInv => NoDuplicateRegistration
  BY DEF KInv, RowsApart, NoDuplicateRegistration, SameKey
<1> QED
  BY InitLInv, <1>1, <1>2, <1>3, PTL DEF Spec

-----------------------------------------------------------------------------
(* The numbers of an activity.                                             *)

SInv ==
    shown # None =>
        /\ shown.checkedIn \in Nat
        /\ shown.checkedIn <= Cardinality(OfActivity(shown.aid))

LEMMA ActivityRowsFinite ==
  ASSUME NEW a
  PROVE  IsFiniteSet(OfActivity(a)) /\ Cardinality(OfActivity(a)) \in Nat
<1>1. OfActivity(a) \in SUBSET RegistrationIds
  BY DEF OfActivity
<1> QED
  BY <1>1, FiniteIdsAssumption, FS_Subset, FS_CardinalityType

\* A row has one check-in at most, so there are no more of these than rows.
LEMMA CheckInsCounted ==
  ASSUME IInv, NEW a
  PROVE  CountCheckedIn(a) \in Nat /\ CountCheckedIn(a) <= Cardinality(OfActivity(a))
<1> DEFINE records == UNION {{r} \X (1 .. checkIns[r]) : r \in OfActivity(a)}
           row == [x \in records |-> x[1]]
<1>1. ASSUME NEW x \in records
      PROVE  x[1] \in OfActivity(a) /\ x = <<x[1], 1>>
  <2>1. PICK r \in OfActivity(a) : x \in {r} \X (1 .. checkIns[r])
    OBVIOUS
  <2>2. r \in RegistrationIds
    BY DEF OfActivity
  <2>3. checkIns[r] \in Nat /\ checkIns[r] <= 1
    BY <2>2 DEF IInv, TypeOK, AtMostOneCheckIn
  <2>4. 1 .. checkIns[r] \subseteq {1}
    BY <2>3
  <2> QED
    BY <2>1, <2>4
<1> HIDE DEF records
<1>2. row \in Injection(records, OfActivity(a))
  <2>1. row \in [records -> OfActivity(a)]
    BY <1>1
  <2>2. \A x, y \in records : row[x] = row[y] => x = y
    <3> SUFFICES ASSUME NEW x \in records, NEW y \in records, row[x] = row[y]
                 PROVE  x = y
      OBVIOUS
    <3>1. x[1] = y[1]
      OBVIOUS
    <3>2. x = <<x[1], 1>> /\ y = <<y[1], 1>>
      BY <1>1
    <3> QED
      BY <3>1, <3>2
  <2> QED
    BY <2>1, <2>2 DEF Injection, IsInjective
<1>3. IsFiniteSet(records) /\ Cardinality(records) <= Cardinality(OfActivity(a))
  BY <1>2, ActivityRowsFinite, FS_Injection
<1>4. Cardinality(records) \in Nat
  BY <1>3, FS_CardinalityType
<1> QED
  BY <1>3, <1>4 DEF records, CountCheckedIn

\* No registration goes, nor moves to another activity.
LEMMA ActivityRowsStay ==
  ASSUME LInv, [Next]_vars, NEW a
  PROVE  /\ Cardinality(OfActivity(a)) <= Cardinality(OfActivity(a)')
         /\ Cardinality(OfActivity(a)') \in Nat
<1>1. OfActivity(a) \subseteq OfActivity(a)'
  BY RegistrationKeeps DEF OfActivity, Registered
<1>2. OfActivity(a)' \subseteq RegistrationIds
  BY DEF OfActivity
<1>3. IsFiniteSet(OfActivity(a)')
  BY <1>2, FiniteIdsAssumption, FS_Subset
<1> QED
  BY <1>1, <1>3, FS_Subset, FS_CardinalityType

LEMMA StatsStep ==
  ASSUME LInv, SInv, [StatsNext]_statsVars
  PROVE  SInv'
<1>1. [Next]_vars
  BY DEF StatsNext, statsVars, StatsFind, StatsRegistered, StatsCheckedIn, StatsFails
<1>2. CASE shown' = shown
  <2> SUFFICES ASSUME shown # None
               PROVE  /\ shown.checkedIn \in Nat
                      /\ shown.checkedIn <= Cardinality(OfActivity(shown.aid)')
    BY <1>2 DEF SInv, OfActivity
  <2>1. PICK a : a = shown.aid
    OBVIOUS
  <2>2. /\ Cardinality(OfActivity(a)) <= Cardinality(OfActivity(a)')
        /\ Cardinality(OfActivity(a)') \in Nat
    BY <1>1, ActivityRowsStay
  <2> QED
    BY <1>2, <2>1, <2>2, ActivityRowsFinite DEF SInv
<1>3. CASE shown' # shown
  <2>1. StatsCheckedIn
    BY <1>3 DEF StatsNext, statsVars, StatsFind, StatsRegistered, StatsFails
  <2>2. /\ shown'.aid = report.aid /\ shown'.checkedIn = CountCheckedIn(report.aid)
        /\ registrations' = registrations
    BY <2>1 DEF StatsCheckedIn, vars, tables
  <2>3. PICK a : a = report.aid
    OBVIOUS
  <2>4. OfActivity(a)' = OfActivity(a)
    BY <2>2 DEF OfActivity, Registered
  <2> QED
    BY <2>2, <2>3, <2>4, CheckInsCounted DEF SInv, LInv
<1> QED
  BY <1>2, <1>3

\* Stats counts in two statements: the check-ins it shows are nevertheless of
\* that many registrations, for any number of them and of activities.
THEOREM CheckInsHaveRows == StatsSpec => []ShownCheckInsHaveRows
<1>1. StatsInit => Init /\ SInv
  BY DEF StatsInit, SInv
<1>2. [StatsNext]_statsVars => [Next]_vars
  BY DEF StatsNext, statsVars, StatsFind, StatsRegistered, StatsCheckedIn, StatsFails
<1>3. SInv => ShownCheckInsHaveRows
  BY DEF SInv, ShownCheckInsHaveRows
<1> QED
  BY <1>1, <1>2, <1>3, InitLInv, NextLInv, StatsStep, PTL DEF StatsSpec

-----------------------------------------------------------------------------
(* Capacity and status at the commit of a sign-up.                         *)

\* Every registration came by a sign-up behind the activity's lock.
AllOnline ==
    /\ \A p \in Workers : ~InOffline(p)
    /\ \A r \in RegistrationIds : Registered(r) => Online(r)

\* Then a registration that appears is the one of a committing sign-up.
LEMMA AppearsBySignup ==
  ASSUME LInv, [Next]_vars, AllOnline, NEW r \in RegistrationIds, ~Registered(r), Registered(r)'
  PROVE  \E p \in Workers : SignsUp(p, r) /\ OnlyRow(r)
<1>1. IInv /\ ~UNCHANGED <<registrations, checkIns, notifications>>
  BY DEF LInv, Registered
<1>2. PICK p \in Workers, s \in RegistrationIds : Writes(p, s)
  BY <1>1, WritesOrNot
<1>3. s = r
  BY <1>2 DEF Writes, OnlyRow, Registered
<1> QED
  BY <1>2, <1>3 DEF Writes, Decides, ChecksIn, Cancels, SignsUpOffline, AllOnline, InOffline

LEMMA OfflineByRequest ==
  ASSUME TypeOK, NEW p \in Workers, Request(p) \/ Work(p) \/ StatementFails(p),
         "offline" \notin Operations, ~InOffline(p)
  PROVE  \E label \in Labels \ {"offlineCount", "offlineInsert"} :
            pc' = [pc EXCEPT ![p] = label]
<1>1. CASE Request(p)
  <2>0. CASE CreateActivity(p)
    BY <2>0 DEF TypeOK, CreateActivity, At, Labels
  <2>1. CASE ActivityRequest(p) /\ ~CreateActivity(p)
    BY <2>1 DEF ActivityRequest, UpdateFind, PublishFind, EndFind, DeleteFind, Begin, Labels
  <2>2. CASE RegistrationRequest(p)
    BY <2>2 DEF RegistrationRequest, SignupBegin, CancelFind, ReviewBegin, OfflineFind, Begin, Labels
  <2>3. CASE CheckInRequest(p)
    BY <2>3 DEF CheckInRequest, CheckInByVoucher, CheckInByScan, CheckInFound, Begin, Labels
  <2> QED
    BY <1>1, <2>0, <2>1, <2>2, <2>3 DEF Request
<1>2. CASE Work(p)
  <2>1. CASE ActivityWork(p)
    BY <2>1 DEF ActivityWork, ActivitySave, ActivityDelete, Return, Labels
  <2>2. CASE RegistrationWork(p)
    <3>1. ~OfflineCount(p) /\ ~OfflineInsert(p)
      BY DEF OfflineCount, OfflineInsert, At, InOffline
    <3> QED
      BY <2>2, <3>1
      DEF RegistrationWork, SignupLock, SignupCheck, SignupInsert, SignupNotify, SignupCommit,
          CancelSave, ReviewLock, ReviewActivity, ReviewSave, ReviewNotify, ReviewCommit,
          Goto, Commit, Rollback, Return, Labels
  <2>3. CASE CheckInWork(p)
    BY <2>3 DEF CheckInWork, CheckInLock, CheckInRecord, CheckInSave, CheckInNotify,
          CheckInCommit, Goto, Commit, Rollback, Return, Labels
  <2> QED
    BY <1>2, <2>1, <2>2, <2>3 DEF Work
<1>3. CASE StatementFails(p)
  BY <1>3 DEF StatementFails, Rollback, Return, Labels
<1> QED
  BY <1>1, <1>2, <1>3

LEMMA AllOnlineStep ==
  ASSUME LInv, [Next]_vars, AllOnline, "offline" \notin Operations
  PROVE  AllOnline'
<1>1. IInv /\ TypeOK
  BY DEF LInv, IInv
<1>2. ASSUME NEW q \in Workers PROVE ~InOffline(q)'
  <2>1. CASE UNCHANGED vars \/ DeadlinePasses
    BY <2>1 DEF vars, DeadlinePasses, AllOnline, InOffline
  <2>2. CASE Crash
    BY <2>2 DEF Crash, InOffline
  <2>3. ASSUME NEW p \in Workers, Request(p) \/ Work(p) \/ StatementFails(p)
        PROVE  ~InOffline(q)'
    <3>1. ~InOffline(p) /\ ~InOffline(q)
      BY DEF AllOnline
    <3>2. PICK label \in Labels \ {"offlineCount", "offlineInsert"} :
             pc' = [pc EXCEPT ![p] = label]
      BY <1>1, <2>3, <3>1, OfflineByRequest
    <3> QED
      BY <1>1, <3>1, <3>2 DEF TypeOK, InOffline
  <2> QED
    BY <2>1, <2>2, <2>3 DEF Next
<1>3. ASSUME NEW r \in RegistrationIds, Registered(r)' PROVE Online(r)'
  <2>1. CASE Registered(r)
    <3>1. Online(r)
      BY <2>1 DEF AllOnline
    <3> QED
      BY <1>3, <2>1, <3>1, RegistrationKeeps DEF Online
  <2>2. CASE ~Registered(r)
    <3>1. PICK p \in Workers : SignsUp(p, r)
      BY <1>3, <2>2, AppearsBySignup
    <3>2. notifications[r] \in [NotificationType -> Nat] /\ "signup_success" \in NotificationType
      BY <1>1 DEF TypeOK, NotificationType
    <3>3. notifications'[r]["signup_success"] = notifications[r]["signup_success"] + 1
      BY <3>1, <3>2 DEF SignsUp
    <3> QED
      BY <1>3, <3>2, <3>3 DEF Online, Registered
  <2> QED
    BY <2>1, <2>2
<1> QED
  BY <1>2, <1>3 DEF AllOnline

\* While every registration is online, a sign-up that commits is the one more
\* that HasRoom allowed, of an activity that is still published.
LEMMA SignupFits ==
  ASSUME LInv, [Next]_vars, AllOnline, AllOnline', NEW a \in ActivityIds, Joins(a) # {}
  PROVE  /\ Activity(a) /\ activities[a].status = "published"
         /\ activities[a].capacity = 0 \/ CountRegistered(a)' <= activities[a].capacity
<1>1. PICK r \in RegistrationIds :
        ~Registered(r) /\ Registered(r)' /\ registrations'[r].activity = a
  BY DEF Joins, Registered
<1>2. PICK p \in Workers : SignsUp(p, r) /\ OnlyRow(r)
  BY <1>1, AppearsBySignup
<1>3. /\ TypeOK /\ InSignup(p) /\ pc[p] = "signupCommit"
      /\ registrations'[r] = job[p].reg
      /\ job[p].act \in ActivityRow
      /\ job[p].act = activities[job[p].aid]
      /\ job[p].reg.activity = job[p].aid
      /\ job[p].act.status = "published"
      /\ job[p].act.capacity = 0 \/ Cardinality(Taken(job[p].aid)) < job[p].act.capacity
  BY <1>2 DEF LInv, IInv, SignsUp, InSignup, LockedStructsAreFresh, JobsFollowLabels,
        JobFollowsLabel, SignupStaysAdmitted, SignupAdmitted
<1>4. /\ job[p].aid = a /\ activities[a] \in ActivityRow /\ activities[a].status = "published"
      /\ activities[a].capacity = 0 \/ Cardinality(Taken(a)) < activities[a].capacity
  BY <1>1, <1>3
<1>5. Activity(a)
  BY <1>4, NoneAssumption DEF Activity
<1> DEFINE S == {s \in RegistrationIds : Registered(s) /\ registrations[s].activity = a
                                            /\ registrations[s].status # "cancelled"}
<1>6. \A s \in RegistrationIds \ {r} : registrations'[s] = registrations[s]
  BY <1>2 DEF OnlyRow
<1>7. S' \subseteq Taken(a) \cup {r}
  BY <1>6 DEF Taken, AllOnline, Registered
<1>8. PICK T : T = S'
  OBVIOUS
<1>9. Taken(a) \in SUBSET RegistrationIds
  BY DEF Taken
<1>10. IsFiniteSet(Taken(a)) /\ Cardinality(Taken(a)) \in Nat
  BY <1>9, FiniteIdsAssumption, FS_Subset, FS_CardinalityType
<1>11. /\ IsFiniteSet(Taken(a) \cup {r})
       /\ Cardinality(Taken(a) \cup {r}) \in Nat
       /\ Cardinality(Taken(a) \cup {r}) <= Cardinality(Taken(a)) + 1
  <2> DEFINE B == Taken(a)
  <2>1. IsFiniteSet(B) /\ Cardinality(B) \in Nat
    BY <1>10
  <2> HIDE DEF B
  <2>2. /\ IsFiniteSet(B \cup {r})
        /\ Cardinality(B \cup {r}) = IF r \in B THEN Cardinality(B) ELSE Cardinality(B) + 1
    BY <2>1, FS_AddElement
  <2> QED
    BY <2>1, <2>2 DEF B
<1>12. Cardinality(T) \in Nat /\ Cardinality(T) <= Cardinality(Taken(a) \cup {r})
  BY <1>7, <1>8, <1>11, FS_Subset, FS_CardinalityType
<1>13. CountRegistered(a)' = Cardinality(T)
  BY <1>8 DEF CountRegistered
<1>14. activities[a].capacity \in Nat
  BY <1>4, ConstantsAssumption DEF ActivityRow
<1> HIDE DEF S
<1> QED
  BY <1>4, <1>5, <1>10, <1>11, <1>12, <1>13, <1>14

LEMMA AlwaysOnline ==
  ASSUME "offline" \notin Operations
  PROVE  Spec => [](LInv /\ AllOnline)
<1>1. Init => AllOnline
  BY DEF Init, AllOnline, InOffline, Registered
<1>2. (LInv /\ AllOnline) /\ [Next]_vars => (LInv /\ AllOnline)'
  BY NextLInv, AllOnlineStep
<1> QED
  BY <1>1, <1>2, InitLInv, PTL DEF Spec

\* Where no registration is taken offline, a sign-up never exceeds the capacity
\* of its activity, whatever races it; OfflineCreate, which counts without the
\* lock, may.
THEOREM SignupsFit ==
  ASSUME "offline" \notin Operations
  PROVE  Spec => SignupWithinCapacity
<1>1. ASSUME LInv, AllOnline, [Next]_vars
      PROVE  [\A a \in ActivityIds : Joins(a) # {} /\ Activity(a) =>
               activities[a].capacity = 0 \/ CountRegistered(a)' <= activities[a].capacity]_vars
  <2>1. AllOnline'
    BY <1>1, AllOnlineStep
  <2> QED
    BY <1>1, <2>1, SignupFits
<1> QED
  BY <1>1, AlwaysOnline, PTL DEF Spec, SignupWithinCapacity

\* Nor is one ever for an activity that was ended or deleted meanwhile.
THEOREM SignupsOfPublished ==
  ASSUME "offline" \notin Operations
  PROVE  Spec => SignupWhilePublished
<1>1. ASSUME LInv, AllOnline, [Next]_vars
      PROVE  [\A a \in ActivityIds : Joins(a) # {} =>
               Activity(a) /\ activities[a].status = "published"]_vars
  <2>1. AllOnline'
    BY <1>1, AllOnlineStep
  <2> QED
    BY <1>1, <2>1, SignupFits
<1> QED
  BY <1>1, AlwaysOnline, PTL DEF Spec, SignupWhilePublished
=============================================================================

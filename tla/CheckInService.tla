---------------------------- MODULE CheckInService ----------------------------
(***************************************************************************)
(* The check-in handler: internal/service/check_in_record_service.go.      *)
(* The voucher or the scanned id finds a registration with a plain SELECT; *)
(* doCheckIn reads it again under its row lock and decides on that.        *)
(***************************************************************************)
EXTENDS ActivityService

\* A registration that was found and belongs to the activity of the request.
CheckInFound(p, r, a) ==
    /\ Registered(r)
    /\ registrations[r].activity = a
    /\ Begin(p, "checkIn", "checkInLock", [NoJob EXCEPT !.rid = r])
    /\ UNCHANGED <<tables, locks>>

\* POST /check-ins with a voucher number.
CheckInByVoucher(p) ==
    \E v \in Vouchers, a \in ActivityIds, r \in RegistrationIds :
        /\ Registered(r)
        /\ registrations[r].voucher = v
        /\ CheckInFound(p, r, a)

\* POST /check-ins with qr_content, which holds a registration id.
CheckInByScan(p) ==
    \E r \in RegistrationIds, a \in ActivityIds : CheckInFound(p, r, a)

\* Fault variant: the decision on a plain read, without the row lock.
CheckInLockPlainRead(p) ==
    LET r == job[p].rid IN
    /\ At(p, "checkInLock")
    /\ \/ /\ registrations[r].status = "registered"
          /\ job' = [job EXCEPT ![p].reg = registrations[r]]
          /\ Goto(p, "checkInRecord")
          /\ UNCHANGED <<tables, locks>>
       \/ registrations[r].status # "registered" /\ Rollback(p)

\* FindByIDForUpdate, then the checked_in and the cancelled early returns.
CheckInLock(p) ==
    LET r == job[p].rid IN
    /\ At(p, "checkInLock")
    /\ registrationLock[r] = None
    /\ \/ /\ registrations[r].status = "registered"
          /\ LockRegistration(p, r)
          /\ job' = [job EXCEPT ![p].reg = registrations[r]]
          /\ Goto(p, "checkInRecord")
          /\ UNCHANGED tables
       \/ registrations[r].status # "registered" /\ Rollback(p)

CheckInRecord(p) ==
    /\ At(p, "checkInRecord")
    /\ job' = [job EXCEPT ![p].dirty = {"check_in"}]
    /\ Goto(p, "checkInSave")
    /\ UNCHANGED <<tables, locks>>

\* Fault variant: the status is set in the struct and never saved.
CheckInSaveForgotten(p) ==
    /\ At(p, "checkInSave")
    /\ job' = [job EXCEPT ![p].reg.status = "checked_in"]
    /\ Goto(p, "checkInNotify")
    /\ UNCHANGED <<tables, locks>>

CheckInSave(p) ==
    /\ At(p, "checkInSave")
    /\ job' = [job EXCEPT ![p].reg.status = "checked_in",
                          ![p].dirty = @ \cup {"registration"}]
    /\ Goto(p, "checkInNotify")
    /\ UNCHANGED <<tables, locks>>

CheckInNotify(p) ==
    /\ At(p, "checkInNotify")
    /\ job' = [job EXCEPT ![p].dirty = @ \cup {"checkin_success"}]
    /\ Goto(p, "checkInCommit")
    /\ UNCHANGED <<tables, locks>>

CheckInCommit(p) == At(p, "checkInCommit") /\ Commit(p)

CheckInRequest(p) == CheckInByVoucher(p) \/ CheckInByScan(p)

CheckInWork(p) ==
    \/ CheckInLock(p)
    \/ CheckInRecord(p)
    \/ CheckInSave(p)
    \/ CheckInNotify(p)
    \/ CheckInCommit(p)
=============================================================================

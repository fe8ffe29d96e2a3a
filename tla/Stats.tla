-------------------------------- MODULE Stats --------------------------------
(***************************************************************************)
(* GET /activities/:id/stats beside the handlers that write: Stats of      *)
(* internal/service/activity_service.go reads the activity, counts its     *)
(* registrations and then its check-in records, in three statements of     *)
(* which each sees what is committed at its time.                          *)
(***************************************************************************)
EXTENDS EventGo

VARIABLES
    report,  \* what Stats has read so far, None between two requests
    shown    \* the last answer, None before the first

statsVars == <<vars, report, shown>>

StatsInit == Init /\ report = None /\ shown = None

\* Find: the activity exists and the operator may see its numbers.
StatsFind(a, u) ==
    /\ report = None
    /\ Activity(a)
    /\ MayManage(u, a)
    /\ report' = [aid |-> a, registered |-> None]
    /\ UNCHANGED <<vars, shown>>

\* The first count.
StatsRegistered ==
    /\ report # None /\ report.registered = None
    /\ report' = [report EXCEPT !.registered = CountRegistered(report.aid)]
    /\ UNCHANGED <<vars, shown>>

OfActivity(a) == {r \in RegistrationIds : Registered(r) /\ registrations[r].activity = a}

\* The rows of check_in_records joined with the registrations of an activity.
CountCheckedIn(a) ==
    Cardinality(UNION {{r} \X (1 .. checkIns[r]) : r \in OfActivity(a)})

\* The second count, and the answer.
StatsCheckedIn ==
    /\ report # None /\ report.registered # None
    /\ shown' = [aid |-> report.aid, registered |-> report.registered,
                 checkedIn |-> CountCheckedIn(report.aid)]
    /\ report' = None
    /\ UNCHANGED vars

\* A statement fails: no answer.
StatsFails == report # None /\ report' = None /\ UNCHANGED <<vars, shown>>

StatsNext ==
    \/ Next /\ UNCHANGED <<report, shown>>
    \/ \E a \in ActivityIds, u \in Users : StatsFind(a, u)
    \/ StatsRegistered \/ StatsCheckedIn \/ StatsFails

StatsSpec == StatsInit /\ [][StatsNext]_statsVars

-----------------------------------------------------------------------------
\* Whatever commits between the counts, the check-ins shown are of that many
\* registrations of the activity, cancelled ones included: none is counted twice.
ShownCheckInsHaveRows ==
    shown # None => shown.checkedIn <= Cardinality(OfActivity(shown.aid))
=============================================================================

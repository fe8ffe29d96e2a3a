------------------------- MODULE RegistrationLedger -------------------------
(***************************************************************************)
(* What the backend promises about registrations, whatever runs at the     *)
(* same time: each request that succeeds is one step on one ledger.        *)
(*                                                                         *)
(* The promise is as strong as the code keeps it.  Sign-up, review and     *)
(* check-in are decided on the state they change.  A cancellation is only  *)
(* known to have found the registration open at some time, so here it      *)
(* cancels whatever it meets and may put back an older review; an offline  *)
(* registration takes no notice of capacity or status.                     *)
(***************************************************************************)
EXTENDS Naturals, FiniteSets

CONSTANTS Users, ActivityIds, RegistrationIds, Capacities, None

VARIABLES
    open,    \* open[a]: the capacity of a published activity, else None
    ledger   \* ledger[r]: what is recorded of a registration, or None

ReviewStatus == {"pending", "approved", "rejected"}

NotificationType == {"signup_success", "review_result", "checkin_success"}

Entry(a, u, online, review) ==
    [activity |-> a, user |-> u, online |-> online,
     status |-> "registered", review |-> review, checkIns |-> 0,
     told |-> [t \in NotificationType |->
                 IF online /\ t = "signup_success" THEN 1 ELSE 0]]

Entered(r) == ledger[r] # None

\* The places of an activity that online sign-ups have taken.
Taken(a) ==
    {r \in RegistrationIds :
        /\ Entered(r)
        /\ ledger[r].activity = a
        /\ ledger[r].online
        /\ ledger[r].status # "cancelled"}

HasSignedUp(a, u) ==
    \E r \in RegistrationIds :
        Entered(r) /\ ledger[r].online /\ ledger[r].activity = a /\ ledger[r].user = u

Init ==
    /\ open \in [ActivityIds -> Capacities \cup {None}]
    /\ ledger = [r \in RegistrationIds |-> None]

\* A user takes one of the places of a published activity, and is told.
SignUp(r, a, u) ==
    /\ ~Entered(r)
    /\ open[a] # None
    /\ open[a] = 0 \/ Cardinality(Taken(a)) < open[a]
    /\ ~HasSignedUp(a, u)
    /\ ledger' = [ledger EXCEPT ![r] = Entry(a, u, TRUE, "pending")]
    /\ UNCHANGED open

SignUpOffline(r, a, u) ==
    /\ ~Entered(r)
    /\ ledger' = [ledger EXCEPT ![r] = Entry(a, u, FALSE, "approved")]
    /\ UNCHANGED open

\* A pending registration is decided, and its user is told.
Review(r, decision) ==
    /\ Entered(r)
    /\ ledger[r].review = "pending"
    /\ ledger' = [ledger EXCEPT ![r].review = decision,
                                ![r].told["review_result"] = @ + 1]
    /\ UNCHANGED open

\* An open registration is checked in, recorded once, and its user is told.
CheckIn(r) ==
    /\ Entered(r)
    /\ ledger[r].status = "registered"
    /\ ledger[r].checkIns = 0
    /\ ledger' = [ledger EXCEPT ![r].status = "checked_in",
                                ![r].checkIns = 1,
                                ![r].told["checkin_success"] = @ + 1]
    /\ UNCHANGED open

Cancel(r) ==
    /\ Entered(r)
    /\ \E review \in ReviewStatus :
         ledger' = [ledger EXCEPT ![r].status = "cancelled", ![r].review = review]
    /\ UNCHANGED open

\* An organizer publishes, changes, ends or deletes activities.
Organize ==
    /\ open' \in [ActivityIds -> Capacities \cup {None}]
    /\ UNCHANGED ledger

Next ==
    \/ \E r \in RegistrationIds, a \in ActivityIds, u \in Users :
          SignUp(r, a, u) \/ SignUpOffline(r, a, u)
    \/ \E r \in RegistrationIds :
          \/ \E decision \in {"approved", "rejected"} : Review(r, decision)
          \/ CheckIn(r)
          \/ Cancel(r)
    \/ Organize

Spec == Init /\ [][Next]_<<open, ledger>>
=============================================================================

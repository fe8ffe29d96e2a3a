------------------------------ MODULE MCEventGo ------------------------------
(***************************************************************************)
(* Small instances of EventGo.                                             *)
(***************************************************************************)
EXTENDS EventGo, TLC

CONSTANTS
    w1, w2, w3,        \* workers
    guest1, guest2,    \* users with the role user
    host, admin,       \* an organizer, an administrator
    a1,                \* an activity
    r1, r2,            \* registrations
    v1, v2             \* vouchers

MCRole ==
    [u \in Users |-> CASE u = host -> "organizer"
                       [] u = admin -> "admin"
                       [] OTHER -> "user"]

\* Workers, vouchers and registration ids are only compared for equality, and
\* the guests have the same role.
MCSymmetry ==
    Permutations(Workers) \cup Permutations(Vouchers)
        \cup Permutations(RegistrationIds) \cup Permutations(Users \cap {guest1, guest2})
=============================================================================

------------------------------ MODULE MCBrowser ------------------------------
(***************************************************************************)
(* A small instance of Browser.                                            *)
(***************************************************************************)
EXTENDS Browser, TLC

CONSTANTS
    t1, t2,        \* tabs
    all, drafts,   \* filters
    ann, ben,      \* users
    n1, n2, n3,    \* notifications
    c1, c2, c3,    \* requests
    k1, k2

\* One start of the parts that have several is enough while they do not run.
MCInit ==
    /\ Init
    /\ part = "lists" \/ (page = "list" /\ filter = all)
    /\ part = "favorites" \/ favorites = [u \in Users |-> 0]

MCSpec == MCInit /\ [][Next]_vars

\* Requests are alike; of the tabs and of the users, one is patient.
MCSymmetry == Permutations(Calls)
=============================================================================

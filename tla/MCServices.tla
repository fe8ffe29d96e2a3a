------------------------------ MODULE MCServices ------------------------------
(***************************************************************************)
(* A small instance of Services: a user, an organizer and an administrator.*)
(***************************************************************************)
EXTENDS Services, TLC

CONSTANTS
    w1, w2,                            \* workers
    u1, u2, secret1, secret2, nick,
    bob, eve, spacedBob,               \* three names, one with spaces around it
    guest, host, root,                 \* a user, an organizer, an administrator
    c1, c2,                            \* comments
    r1, r2                             \* requests

MCRole ==
    [u \in Users |-> CASE u = host -> "organizer"
                       [] u = root -> "admin"
                       [] OTHER -> "user"]

MCTrim == [n \in Names |-> IF n = spacedBob THEN bob ELSE n]

\* Every part treats its workers, ids, passwords and requests alike.
MCSymmetry ==
    Permutations(Workers) \cup Permutations(Ids) \cup Permutations(Passwords)
        \cup Permutations(CommentIds) \cup Permutations(Requests)
=============================================================================

------------------------------- MODULE Startup -------------------------------
(***************************************************************************)
(* How the backend starts: main migrates the schema, then                  *)
(* internal/service/seed.go fills an empty database, one INSERT after the  *)
(* other and each committed on its own, then the server serves.  The       *)
(* process may die anywhere; docker-compose starts it again.               *)
(*                                                                         *)
(* The database is either a new one or the one that database/init.sql      *)
(* filled, as docker-compose mounts it.                                    *)
(***************************************************************************)
EXTENDS Integers, Sequences, FiniteSets

CONSTANT MaxFailures  \* bound on the failing statements and crashes of a run

ASSUME StartupAssumption == MaxFailures \in Nat

VARIABLES
    process,   \* "down", "starting", "seeding", "serving"
    next,      \* the place in Presets of the next INSERT of Seed
    rows,      \* the rows of users, activities and registrations, with their ids
    lastId,    \* the last AUTO_INCREMENT value of each table
    records,   \* registration ids in table check_in_records
    failures   \* failures so far

vars == <<process, next, rows, lastId, records, failures>>

Tables == {"users", "activities", "registrations"}

\* A row without its id.  The references of the literals are ids, too: seed.go
\* writes 2 for the organizer, 3 for the user, and the activity's place.
User(name) == [table |-> "users", name |-> name]

PresetActivity == [table |-> "activities", organizer |-> 2]

PresetRegistration(activity, status) ==
    [table |-> "registrations", activity |-> activity, user |-> 3, status |-> status]

\* Fault variant: the accounts in another order.
PresetsUserFirst ==
    <<User("user"), User("organizer"), User("admin"),
      PresetActivity, PresetActivity, PresetActivity, PresetActivity,
      PresetRegistration(1, "registered"), PresetRegistration(2, "checked_in"),
      PresetRegistration(3, "registered")>>

\* What Seed inserts, in its order.
Presets ==
    <<User("admin"), User("organizer"), User("user"),
      PresetActivity, PresetActivity, PresetActivity, PresetActivity,
      PresetRegistration(1, "registered"), PresetRegistration(2, "checked_in"),
      PresetRegistration(3, "registered")>>

RowsOf(t) == {row \in rows : row.preset.table = t}

UserNamed(name) == {row \in RowsOf("users") : row.preset.name = name}

\* init.sql writes the same accounts and registrations with their ids, five
\* activities, and the check-in record of registration 2.
InitSqlRows ==
    {[id |-> i, preset |-> Presets[i]] : i \in 1 .. 3}
        \cup {[id |-> i, preset |-> PresetActivity] : i \in 1 .. 5}
        \cup {[id |-> i, preset |-> Presets[7 + i]] : i \in 1 .. 3}

Init ==
    /\ process = "down"
    /\ next = 1
    /\ failures = 0
    /\ \/ /\ rows = {}
          /\ lastId = [t \in Tables |-> 0]
          /\ records = {}
       \/ /\ rows = InitSqlRows
          /\ lastId = [users |-> 3, activities |-> 5, registrations |-> 3]
          /\ records = {2}

\* The container starts: main opens the database and migrates it.
Start ==
    /\ process = "down"
    /\ process' = "starting"
    /\ UNCHANGED <<next, rows, lastId, records, failures>>

\* Fault variant: Seed counts the activities.
SeedCountsActivities ==
    /\ process = "starting"
    /\ process' = IF RowsOf("activities") = {} THEN "seeding" ELSE "serving"
    /\ next' = 1
    /\ UNCHANGED <<rows, lastId, records, failures>>

\* Seed counts the users, and does nothing when there is one.
SeedCount ==
    /\ process = "starting"
    /\ process' = IF RowsOf("users") = {} THEN "seeding" ELSE "serving"
    /\ next' = 1
    /\ UNCHANGED <<rows, lastId, records, failures>>

\* The unique keys on username and voucher_no.
DuplicateKey(preset) ==
    preset.table # "activities" /\ \E row \in rows : row.preset = preset

SeedInsert ==
    LET t == Presets[next].table IN
    /\ process = "seeding"
    /\ ~DuplicateKey(Presets[next])
    /\ rows' = rows \cup {[id |-> lastId[t] + 1, preset |-> Presets[next]]}
    /\ lastId' = [lastId EXCEPT ![t] = @ + 1]
    /\ next' = next + 1
    /\ process' = IF next = Len(Presets) THEN "serving" ELSE "seeding"
    /\ UNCHANGED <<records, failures>>

\* A statement fails, and main exits; an INSERT that fails may take its
\* AUTO_INCREMENT value with it, as InnoDB's does.
StatementFails ==
    /\ process \in {"starting", "seeding"}
    /\ failures < MaxFailures
    /\ failures' = failures + 1
    /\ process' = "down"
    /\ \/ UNCHANGED lastId
       \/ /\ process = "seeding"
          /\ lastId' = [lastId EXCEPT ![Presets[next].table] = @ + 1]
    /\ UNCHANGED <<next, rows, records>>

\* The process is killed between two statements, or stopped while it serves.
Crash ==
    /\ process # "down"
    /\ failures < MaxFailures
    /\ failures' = failures + 1
    /\ process' = "down"
    /\ UNCHANGED <<next, rows, lastId, records>>

Next == Start \/ SeedCount \/ SeedInsert \/ StatementFails \/ Crash

Spec == Init /\ [][Next]_vars

\* restart: unless-stopped, and a process that runs goes on.
FairSpec == Spec /\ WF_vars(Start) /\ WF_vars(SeedCount \/ SeedInsert)

-----------------------------------------------------------------------------
\* Every id of an account so far is one of a row.
NoAccountIdLost == lastId["users"] = Cardinality(RowsOf("users"))

\* As long as no id of an account was lost, the ids that the literals of Seed
\* name are ids of accounts that are there, and of the ones they mean, however
\* often a start was cut short: preset activities belong to organizer, preset
\* registrations to user.
PresetsBelongToTheirUsers ==
    NoAccountIdLost =>
        /\ \A row \in RowsOf("activities") :
             \E account \in UserNamed("organizer") : account.id = row.preset.organizer
        /\ \A row \in RowsOf("registrations") :
             \E account \in UserNamed("user") : account.id = row.preset.user

\* The server serves in the end, whatever a failed start left in the database:
\* no start is refused for ever because of the rows of the one before.
ServesInTheEnd == <>[](process = "serving")
=============================================================================

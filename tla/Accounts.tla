------------------------------ MODULE Accounts ------------------------------
(***************************************************************************)
(* internal/service/user_service.go: Register, Login and UpdateProfile,    *)
(* each worker one request at a time, each statement committed on its own. *)
(* Register looks the name up, hashes the password (slowly) and inserts;   *)
(* UpdateProfile reads a row and saves all of its columns.                 *)
(*                                                                         *)
(* Me and List only read.  A password stands for its hash.  Register trims *)
(* the name it is given, Login does not: a name is stored trimmed, and the *)
(* one that was typed with spaces around it opens nothing.                 *)
(***************************************************************************)
EXTENDS FiniteSets

CONSTANTS
    Workers,    \* goroutines, each serving one request
    Ids,        \* ids AUTO_INCREMENT can give to a user
    Names,      \* user names as clients type them; one stands for all that the
                \* collation of the column takes for equal
    Trim,       \* Trim[n]: strings.TrimSpace of n
    Passwords,  \* long enough ones
    Nicknames,  \* values of the columns of the profile
    None        \* no row, nothing asked

VARIABLES
    users,       \* table users
    tokens,      \* the JWTs handed out: user_id, username, role
    registered,  \* what was typed, name and password, at the registrations that
                 \* were answered with success
    pc,          \* the next step of a worker's handler
    job          \* its locals

vars == <<users, tokens, registered, pc, job>>

ASSUME TrimAssumption == Trim \in [Names -> Names] /\ \A n \in Names : Trim[Trim[n]] = Trim[n]

Usernames == {Trim[n] : n \in Names}

Row ==
    [name : Usernames, password : Passwords, role : {"user", "organizer"},
     nickname : Nicknames \cup {None}]

ASSUME NoRowAssumption == None \notin Row

Exists(id) == users[id] # None

\* What a handler between two statements holds: the row to insert and the name
\* that was typed, or the row read and the id to save it at.
NewAccount == [typed : Names, row : Row]

ReadAccount == [id : Ids, row : Row]

NameTaken(name) == \E id \in Ids : Exists(id) /\ users[id].name = name

Init ==
    /\ users = [id \in Ids |-> None]
    /\ tokens = {}
    /\ registered = {}
    /\ pc = [p \in Workers |-> "idle"]
    /\ job = [p \in Workers |-> None]

Goto(p, label) == pc' = [pc EXCEPT ![p] = label]

\* The handler answers, wrapError included, and forgets its locals.
Answer(p) ==
    /\ pc' = [pc EXCEPT ![p] = "idle"]
    /\ job' = [job EXCEPT ![p] = None]

\* Fault variant: an empty role is not replaced.
RegisterFindNoRole(p) ==
    \E typed \in Names, password \in Passwords :
        /\ pc[p] = "idle" /\ ~NameTaken(Trim[typed])
        /\ Goto(p, "registerCreate")
        /\ job' = [job EXCEPT ![p] =
             [typed |-> typed, row |-> [name |-> Trim[typed], password |-> password,
                                        role |-> None, nickname |-> None]]]
        /\ UNCHANGED <<users, tokens, registered>>

\* FindByUsername of the trimmed name finds nothing; a taken name, or a role
\* other than the two, is refused.
RegisterFind(p) ==
    \E typed \in Names, password \in Passwords, role \in {"user", "organizer"} :
        /\ pc[p] = "idle" /\ ~NameTaken(Trim[typed])
        /\ Goto(p, "registerCreate")
        /\ job' = [job EXCEPT ![p] =
             [typed |-> typed, row |-> [name |-> Trim[typed], password |-> password,
                                        role |-> role, nickname |-> None]]]
        /\ UNCHANGED <<users, tokens, registered>>

Registers(p, id) ==
    /\ users' = [users EXCEPT ![id] = job[p].row]
    /\ registered' = registered \cup {<<job[p].typed, job[p].row.password>>}
    /\ Answer(p)

\* Fault variant: an INSERT without the unique key.
RegisterCreateNoKey(p) ==
    /\ pc[p] = "registerCreate"
    /\ \E id \in Ids : ~Exists(id) /\ Registers(p, id)
    /\ UNCHANGED tokens

\* Fault variant: Save with its ON DUPLICATE KEY UPDATE instead of Create.
RegisterCreateUpsert(p) ==
    /\ pc[p] = "registerCreate"
    /\ \E id \in Ids :
         /\ IF NameTaken(job[p].row.name)
            THEN Exists(id) /\ users[id].name = job[p].row.name
            ELSE ~Exists(id)
         /\ Registers(p, id)
    /\ UNCHANGED tokens

\* The INSERT, or the unique key on username refuses it.
RegisterCreate(p) ==
    /\ pc[p] = "registerCreate"
    /\ \/ /\ ~NameTaken(job[p].row.name)
          /\ \E id \in Ids : ~Exists(id) /\ Registers(p, id)
       \/ /\ NameTaken(job[p].row.name)
          /\ Answer(p)
          /\ UNCHANGED <<users, registered>>
    /\ UNCHANGED tokens

\* FindByUsername of the name as it is typed, and the password, find this row.
Opens(name, password, id) ==
    Exists(id) /\ users[id].name = name /\ users[id].password = password

\* The columns of the row are signed; who opens no row gets a 401.
Login(p) ==
    /\ pc[p] = "idle"
    /\ \E id \in Ids, typed \in Names, password \in Passwords :
         /\ Opens(typed, password, id)
         /\ tokens' = tokens \cup
              {[id |-> id, name |-> users[id].name, role |-> users[id].role]}
    /\ UNCHANGED <<users, registered, pc, job>>

\* FindByID of the token's user, and the columns the request gives.
ProfileFind(p) ==
    \E token \in tokens, nickname \in Nicknames :
        /\ pc[p] = "idle"
        /\ Goto(p, "profileSave")
        /\ job' = [job EXCEPT ![p] =
             [id |-> token.id, row |-> [users[token.id] EXCEPT !.nickname = nickname]]]
        /\ UNCHANGED <<users, tokens, registered>>

\* Fault variant: the role column gets its default.
ProfileSavePartly(p) ==
    /\ pc[p] = "profileSave"
    /\ users' = [users EXCEPT ![job[p].id] = [job[p].row EXCEPT !.role = "user"]]
    /\ Answer(p)
    /\ UNCHANGED <<tokens, registered>>

\* Save writes the whole row, password hash and role as they were read.
ProfileSave(p) ==
    /\ pc[p] = "profileSave"
    /\ users' = [users EXCEPT ![job[p].id] = job[p].row]
    /\ Answer(p)
    /\ UNCHANGED <<tokens, registered>>

\* A statement fails: the handlers have one write each, so nothing is left.
StatementFails(p) ==
    /\ pc[p] # "idle"
    /\ Answer(p)
    /\ UNCHANGED <<users, tokens, registered>>

Next ==
    \E p \in Workers :
        \/ RegisterFind(p) \/ RegisterCreate(p)
        \/ Login(p)
        \/ ProfileFind(p) \/ ProfileSave(p)
        \/ StatementFails(p)

Spec == Init /\ [][Next]_vars

-----------------------------------------------------------------------------
Token == [id : Ids, name : Usernames, role : {"user", "organizer"}]

TypeOK ==
    /\ users \in [Ids -> Row \cup {None}]
    /\ tokens \subseteq Token
    /\ registered \subseteq Names \X Passwords
    /\ pc \in [Workers -> {"idle", "registerCreate", "profileSave"}]
    /\ \A p \in Workers :
         /\ pc[p] = "registerCreate" => job[p] \in NewAccount
         /\ pc[p] = "profileSave" => job[p] \in ReadAccount

\* Two registrations of one name that both found it free leave one account.
NamesAreUnique ==
    \A id1, id2 \in Ids :
        id1 # id2 /\ Exists(id1) /\ Exists(id2) => users[id1].name # users[id2].name

\* Who was told that the registration succeeded can log in from then on, with
\* the password and the trimmed name, which is the name as it was typed when no
\* spaces stood around it: no racing registration and no profile saved from an
\* older read takes the name, the password or the row away.
RegisteredCanLogIn ==
    \A credentials \in registered :
        \E id \in Ids : Opens(Trim[credentials[1]], credentials[2], id)

\* A token says of its user what the table says, for as long as it is used:
\* RequireRole and the audit log trust it and do not look the user up.
TokensMatchAccounts ==
    \A token \in tokens :
        /\ Exists(token.id)
        /\ users[token.id].name = token.name
        /\ users[token.id].role = token.role
=============================================================================

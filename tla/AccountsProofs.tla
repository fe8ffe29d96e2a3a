---------------------------- MODULE AccountsProofs ----------------------------
(***************************************************************************)
(* The accounts, proved: names are unique, and what was promised at a      *)
(* registration or written into a token stays true of the table.           *)
(***************************************************************************)
EXTENDS Accounts, TLAPS

\* What Login and RequireRole read of two rows is the same.
SameAccount(row1, row2) ==
    row1.name = row2.name /\ row1.password = row2.password /\ row1.role = row2.role

\* The row that a profile saves is of the same account as the row it is saved over.
ProfilesKeepAccounts ==
    \A p \in Workers :
        pc[p] = "profileSave" =>
            Exists(job[p].id) /\ SameAccount(job[p].row, users[job[p].id])

\* The row that a registration inserts bears the typed name, trimmed.
RowsBearTrimmedNames ==
    \A p \in Workers : pc[p] = "registerCreate" => job[p].row.name = Trim[job[p].typed]

AInv ==
    /\ TypeOK
    /\ DOMAIN job = Workers
    /\ RowsBearTrimmedNames
    /\ ProfilesKeepAccounts
    /\ NamesAreUnique
    /\ RegisteredCanLogIn
    /\ TokensMatchAccounts

-----------------------------------------------------------------------------
(* The steps that write users.                                             *)

Inserts(p, id) ==
    /\ pc[p] = "registerCreate"
    /\ ~Exists(id)
    /\ ~NameTaken(job[p].row.name)
    /\ users' = [users EXCEPT ![id] = job[p].row]
    /\ registered' = registered \cup {<<job[p].typed, job[p].row.password>>}
    /\ tokens' = tokens

\* Whatever else a step does to the table, it keeps every account.
LEMMA UsersStep ==
  ASSUME AInv, [Next]_vars
  PROVE  \/ users' = users /\ registered' = registered
         \/ registered' = registered /\ tokens' = tokens /\ \E p \in Workers : ProfileSave(p)
         \/ \E p \in Workers, id \in Ids : Inserts(p, id)
<1>1. ASSUME NEW p \in Workers, RegisterCreate(p), ~(users' = users /\ registered' = registered)
      PROVE  \E id \in Ids : Inserts(p, id)
  <2>1. PICK id \in Ids : ~Exists(id) /\ Registers(p, id)
    BY <1>1 DEF RegisterCreate
  <2>2. Inserts(p, id)
    BY <1>1, <2>1 DEF RegisterCreate, Registers, Inserts
  <2> QED
    BY <2>2
<1>2. ASSUME NEW p \in Workers, RegisterFind(p) \/ Login(p) \/ ProfileFind(p) \/ StatementFails(p)
      PROVE  users' = users /\ registered' = registered
  BY <1>2 DEF RegisterFind, Login, ProfileFind, StatementFails
<1>3. ASSUME NEW p \in Workers, ProfileSave(p)
      PROVE  registered' = registered /\ tokens' = tokens
  BY <1>3 DEF ProfileSave
<1>4. CASE UNCHANGED vars
  BY <1>4 DEF vars
<1>5. CASE Next
  BY <1>1, <1>2, <1>3, <1>5 DEF Next
<1> QED
  BY <1>4, <1>5

LEMMA AccountsKept ==
  ASSUME AInv, [Next]_vars, NEW id \in Ids, Exists(id)
  PROVE  /\ users'[id] \in Row /\ users'[id] # None
         /\ SameAccount(users'[id], users[id])
<1>1. users[id] \in Row /\ users \in [Ids -> Row \cup {None}]
  BY DEF AInv, TypeOK, Exists
<1>2. CASE users' = users
  BY <1>1, <1>2 DEF SameAccount, Exists
<1>3. ASSUME NEW p \in Workers, ProfileSave(p)
      PROVE  users'[id] \in Row /\ SameAccount(users'[id], users[id])
  <2>1. /\ users' = [users EXCEPT ![job[p].id] = job[p].row]
        /\ job[p].id \in Ids /\ job[p].row \in Row
        /\ SameAccount(job[p].row, users[job[p].id])
    BY <1>3 DEF ProfileSave, AInv, TypeOK, ReadAccount, ProfilesKeepAccounts
  <2> QED
    BY <1>1, <2>1 DEF SameAccount
<1>4. ASSUME NEW p \in Workers, NEW new \in Ids, Inserts(p, new)
      PROVE  users'[id] = users[id]
  BY <1>1, <1>4 DEF Inserts
<1>5. users'[id] \in Row /\ SameAccount(users'[id], users[id])
  BY <1>1, <1>2, <1>3, <1>4, UsersStep DEF SameAccount
<1> QED
  BY <1>5, NoRowAssumption

\* A row that appears is the one of a registration whose name was free.
LEMMA AccountsAdded ==
  ASSUME AInv, [Next]_vars, NEW id \in Ids, ~Exists(id), Exists(id)'
  PROVE  \E p \in Workers : Inserts(p, id) /\ users'[id] = job[p].row
<1>1. users' # users /\ users \in [Ids -> Row \cup {None}]
  BY DEF Exists, AInv, TypeOK
<1>2. ASSUME NEW p \in Workers, ProfileSave(p) PROVE FALSE
  <2>1. users' = [users EXCEPT ![job[p].id] = job[p].row] /\ Exists(job[p].id)
    BY <1>2 DEF ProfileSave, AInv, ProfilesKeepAccounts
  <2> QED
    BY <1>1, <2>1 DEF Exists
<1>3. PICK p \in Workers, new \in Ids : Inserts(p, new)
  BY <1>1, <1>2, UsersStep
<1>4. new = id
  BY <1>1, <1>3 DEF Inserts, Exists
<1>5. users'[id] = job[p].row
  BY <1>1, <1>3, <1>4 DEF Inserts
<1> QED
  BY <1>3, <1>4, <1>5

-----------------------------------------------------------------------------
(* The parts of the invariant.                                             *)

LEMMA NamesStep ==
  ASSUME AInv, [Next]_vars
  PROVE  NamesAreUnique'
<1> SUFFICES ASSUME NEW id1 \in Ids, NEW id2 \in Ids, id1 # id2, Exists(id1)', Exists(id2)',
                    users'[id1].name = users'[id2].name
             PROVE  FALSE
  BY DEF NamesAreUnique
<1>1. ASSUME NEW new \in Ids, NEW old \in Ids, new # old, ~Exists(new),
             Exists(new)', Exists(old)', users'[new].name = users'[old].name
      PROVE  FALSE
  <2>1. PICK p \in Workers : Inserts(p, new) /\ users'[new] = job[p].row
    BY <1>1, AccountsAdded
  <2>2. users'[old] = users[old]
    BY <1>1, <2>1 DEF Inserts, AInv, TypeOK
  <2>3. Exists(old) /\ users[old].name = job[p].row.name
    BY <1>1, <2>1, <2>2 DEF Exists
  <2> QED
    BY <2>1, <2>3 DEF Inserts, NameTaken
<1>2. CASE Exists(id1) /\ Exists(id2)
  BY <1>2, AccountsKept DEF SameAccount, AInv, NamesAreUnique
<1> QED
  BY <1>1, <1>2

LEMMA RegisteredStep ==
  ASSUME AInv, [Next]_vars
  PROVE  RegisteredCanLogIn'
<1> SUFFICES ASSUME NEW credentials \in registered'
             PROVE  \E id \in Ids : Opens(Trim[credentials[1]], credentials[2], id)'
  BY DEF RegisteredCanLogIn
<1>1. CASE credentials \in registered
  <2>1. PICK id \in Ids : Opens(Trim[credentials[1]], credentials[2], id)
    BY <1>1 DEF AInv, RegisteredCanLogIn
  <2> QED
    BY <2>1, AccountsKept DEF Opens, SameAccount, Exists
<1>2. CASE credentials \notin registered
  <2>1. PICK p \in Workers, id \in Ids : Inserts(p, id)
    BY <1>2, UsersStep
  <2>2. /\ job[p].row \in Row /\ users'[id] = job[p].row
        /\ credentials = <<job[p].typed, job[p].row.password>>
        /\ job[p].row.name = Trim[job[p].typed]
    BY <1>2, <2>1 DEF Inserts, AInv, TypeOK, NewAccount, RowsBearTrimmedNames
  <2> QED
    BY <2>2, NoRowAssumption DEF Opens, Exists
<1> QED
  BY <1>1, <1>2

\* A token that appears is of the row that Login has compared.
LEMMA TokensAdded ==
  ASSUME [Next]_vars, NEW token \in tokens', token \notin tokens
  PROVE  /\ users' = users
         /\ \E id \in Ids :
              /\ Exists(id)
              /\ token = [id |-> id, name |-> users[id].name, role |-> users[id].role]
<1>1. PICK p \in Workers : Login(p)
  BY DEF Next, vars, RegisterFind, RegisterCreate, ProfileFind, ProfileSave, StatementFails
<1> QED
  BY <1>1 DEF Login, Opens

LEMMA TokensStep ==
  ASSUME AInv, [Next]_vars
  PROVE  TokensMatchAccounts'
<1> SUFFICES ASSUME NEW token \in tokens'
             PROVE  /\ users'[token.id] # None
                    /\ users'[token.id].name = token.name
                    /\ users'[token.id].role = token.role
  BY DEF TokensMatchAccounts, Exists
<1>1. CASE token \in tokens
  <2>1. /\ token.id \in Ids /\ Exists(token.id)
        /\ users[token.id].name = token.name /\ users[token.id].role = token.role
    BY <1>1 DEF AInv, TypeOK, Token, TokensMatchAccounts
  <2> QED
    BY <2>1, AccountsKept DEF SameAccount
<1>2. CASE token \notin tokens
  BY <1>2, TokensAdded DEF Exists
<1> QED
  BY <1>1, <1>2

\* A worker at a step has just come to it, or has been there.
LEMMA LocalsStep ==
  ASSUME AInv, [Next]_vars, NEW p \in Workers, pc'[p] # "idle"
  PROVE  \/ pc'[p] = pc[p] /\ job'[p] = job[p]
         \/ /\ pc'[p] = "registerCreate" /\ job'[p] \in NewAccount
            /\ job'[p].row.name = Trim[job'[p].typed]
         \/ /\ pc'[p] = "profileSave" /\ users' = users
            /\ \E id \in Ids, nickname \in Nicknames :
                 /\ Exists(id)
                 /\ job'[p] = [id |-> id, row |-> [users[id] EXCEPT !.nickname = nickname]]
<1>1. pc \in [Workers -> {"idle", "registerCreate", "profileSave"}] /\ DOMAIN job = Workers
  BY DEF AInv, TypeOK
<1>2. ASSUME NEW q \in Workers, Answer(q) PROVE pc'[p] = pc[p] /\ job'[p] = job[p]
  BY <1>1, <1>2 DEF Answer
<1>3. CASE UNCHANGED vars
  BY <1>3 DEF vars
<1>4. ASSUME NEW q \in Workers, Login(q) \/ RegisterCreate(q) \/ ProfileSave(q) \/ StatementFails(q)
      PROVE  pc'[p] = pc[p] /\ job'[p] = job[p]
  BY <1>2, <1>4 DEF Login, RegisterCreate, Registers, ProfileSave, StatementFails
<1>5. ASSUME NEW q \in Workers, RegisterFind(q)
      PROVE  \/ pc'[p] = pc[p] /\ job'[p] = job[p]
             \/ /\ pc'[p] = "registerCreate" /\ job'[p] \in NewAccount
                /\ job'[p].row.name = Trim[job'[p].typed]
  <2>1. PICK typed \in Names, password \in Passwords, role \in {"user", "organizer"} :
          /\ pc' = [pc EXCEPT ![q] = "registerCreate"]
          /\ job' = [job EXCEPT ![q] =
               [typed |-> typed, row |-> [name |-> Trim[typed], password |-> password,
                                          role |-> role, nickname |-> None]]]
    BY <1>5 DEF RegisterFind, Goto
  <2> DEFINE row == [name |-> Trim[typed], password |-> password, role |-> role, nickname |-> None]
  <2>2. row \in Row /\ row.name = Trim[typed]
    BY DEF Row, Usernames
  <2> HIDE DEF row
  <2>3. job' = [job EXCEPT ![q] = [typed |-> typed, row |-> row]]
    BY <2>1 DEF row
  <2> QED
    BY <1>1, <2>1, <2>2, <2>3 DEF NewAccount
<1>6. ASSUME NEW q \in Workers, ProfileFind(q)
      PROVE  \/ pc'[p] = pc[p] /\ job'[p] = job[p]
             \/ /\ pc'[p] = "profileSave" /\ users' = users
                /\ \E id \in Ids, nickname \in Nicknames :
                     /\ Exists(id)
                     /\ job'[p] = [id |-> id, row |-> [users[id] EXCEPT !.nickname = nickname]]
  <2>1. PICK token \in tokens, nickname \in Nicknames :
          /\ pc' = [pc EXCEPT ![q] = "profileSave"]
          /\ users' = users
          /\ job' = [job EXCEPT ![q] =
               [id |-> token.id, row |-> [users[token.id] EXCEPT !.nickname = nickname]]]
    BY <1>6 DEF ProfileFind, Goto
  <2>2. token.id \in Ids /\ Exists(token.id)
    BY DEF AInv, TypeOK, Token, TokensMatchAccounts
  <2>3. CASE p # q
    BY <1>1, <2>1, <2>3
  <2>4. CASE p = q
    BY <1>1, <2>1, <2>2, <2>4
  <2> QED
    BY <2>3, <2>4
<1> QED
  BY <1>3, <1>4, <1>5, <1>6 DEF Next

LEMMA ProfilesStep ==
  ASSUME AInv, [Next]_vars
  PROVE  /\ ProfilesKeepAccounts' /\ RowsBearTrimmedNames'
         /\ \A p \in Workers :
              /\ pc'[p] = "registerCreate" => job'[p] \in NewAccount
              /\ pc'[p] = "profileSave" => job'[p] \in ReadAccount
<1> SUFFICES ASSUME NEW p \in Workers, pc'[p] # "idle"
             PROVE  /\ pc'[p] = "registerCreate" =>
                         /\ job'[p] \in NewAccount
                         /\ job'[p].row.name = Trim[job'[p].typed]
                    /\ pc'[p] = "profileSave" =>
                         /\ job'[p] \in ReadAccount
                         /\ users'[job'[p].id] # None
                         /\ SameAccount(job'[p].row, users'[job'[p].id])
  BY DEF ProfilesKeepAccounts, RowsBearTrimmedNames, Exists
<1>1. CASE pc'[p] = pc[p] /\ job'[p] = job[p]
  <2>1. CASE pc[p] = "profileSave"
    <3>1. /\ job[p] \in ReadAccount /\ Exists(job[p].id)
          /\ SameAccount(job[p].row, users[job[p].id])
      BY <2>1 DEF AInv, TypeOK, ProfilesKeepAccounts
    <3>2. job[p].id \in Ids
      BY <3>1 DEF ReadAccount
    <3> QED
      BY <1>1, <2>1, <3>1, <3>2, AccountsKept DEF SameAccount
  <2> QED
    BY <1>1, <2>1 DEF AInv, TypeOK, RowsBearTrimmedNames
<1>2. ASSUME pc'[p] = "profileSave", users' = users,
             NEW id \in Ids, NEW nickname \in Nicknames, Exists(id),
             job'[p] = [id |-> id, row |-> [users[id] EXCEPT !.nickname = nickname]]
      PROVE  /\ job'[p] \in ReadAccount
             /\ users'[job'[p].id] # None
             /\ SameAccount(job'[p].row, users'[job'[p].id])
  <2>1. users[id] \in Row
    BY <1>2 DEF AInv, TypeOK, Exists
  <2> DEFINE row == [users[id] EXCEPT !.nickname = nickname]
  <2>2. row \in Row /\ SameAccount(row, users[id])
    BY <2>1 DEF Row, SameAccount
  <2> HIDE DEF row
  <2>3. job'[p] = [id |-> id, row |-> row]
    BY <1>2 DEF row
  <2> QED
    BY <1>2, <2>2, <2>3 DEF Exists, ReadAccount
<1> QED
  BY <1>1, <1>2, LocalsStep

LEMMA TypesStep ==
  ASSUME AInv, [Next]_vars
  PROVE  TypeOK' /\ (DOMAIN job = Workers)'
<1>1. users' \in [Ids -> Row \cup {None}]
  <2>1. users \in [Ids -> Row \cup {None}]
    BY DEF AInv, TypeOK
  <2>2. ASSUME NEW p \in Workers, ProfileSave(p) PROVE users' \in [Ids -> Row \cup {None}]
    BY <2>1, <2>2 DEF ProfileSave, AInv, TypeOK, ReadAccount
  <2>3. ASSUME NEW p \in Workers, NEW id \in Ids, Inserts(p, id)
        PROVE  users' \in [Ids -> Row \cup {None}]
    BY <2>1, <2>3 DEF Inserts, AInv, TypeOK, NewAccount
  <2> QED
    BY <2>1, <2>2, <2>3, UsersStep
<1>2. registered' \subseteq Names \X Passwords
  <2>1. ASSUME NEW p \in Workers, NEW id \in Ids, Inserts(p, id)
        PROVE  registered' \subseteq Names \X Passwords
    BY <2>1 DEF Inserts, AInv, TypeOK, NewAccount, Row
  <2> QED
    BY <2>1, UsersStep DEF AInv, TypeOK
<1>3. tokens' \subseteq Token
  <2> SUFFICES ASSUME NEW token \in tokens', token \notin tokens PROVE token \in Token
    BY DEF AInv, TypeOK
  <2>1. PICK id \in Ids :
          /\ Exists(id)
          /\ token = [id |-> id, name |-> users[id].name, role |-> users[id].role]
    BY TokensAdded
  <2>2. users[id] \in Row
    BY <2>1 DEF AInv, TypeOK, Exists
  <2> QED
    BY <2>1, <2>2 DEF Token, Row
<1>4. pc' \in [Workers -> {"idle", "registerCreate", "profileSave"}] /\ DOMAIN job' = Workers
  BY DEF AInv, TypeOK, Next, vars, RegisterFind, RegisterCreate, Registers, Login, ProfileFind,
     ProfileSave, StatementFails, Goto, Answer
<1> QED
  BY <1>1, <1>2, <1>3, <1>4, ProfilesStep DEF TypeOK

\* The table, the tokens and the locals stay in step.
THEOREM AccountsInductive == Spec => []AInv
<1>1. Init => AInv
  BY DEF Init, AInv, TypeOK, ProfilesKeepAccounts, RowsBearTrimmedNames, NamesAreUnique, RegisteredCanLogIn,
     TokensMatchAccounts, Exists
<1>2. AInv /\ [Next]_vars => AInv'
  BY TypesStep, ProfilesStep, NamesStep, RegisteredStep, TokensStep DEF AInv
<1> QED
  BY <1>1, <1>2, PTL DEF Spec

\* The rows, the tokens and the locals of the handlers are of their types.
THEOREM AccountsTyped == Spec => []TypeOK
  BY AccountsInductive, PTL DEF AInv

\* Two registrations of one name leave one account, however they overlap.
THEOREM NamesUnique == Spec => []NamesAreUnique
  BY AccountsInductive, PTL DEF AInv

\* Who was told that a registration succeeded can log in with the trimmed name
\* and the password: neither another registration nor a saved profile takes the
\* account away.
THEOREM LoginsRemain == Spec => []RegisteredCanLogIn
  BY AccountsInductive, PTL DEF AInv

\* What a token says of its user is what the table says.
THEOREM TokensTrue == Spec => []TokensMatchAccounts
  BY AccountsInductive, PTL DEF AInv
=============================================================================

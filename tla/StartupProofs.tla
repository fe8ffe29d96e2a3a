---------------------------- MODULE StartupProofs ----------------------------
(***************************************************************************)
(* The literal ids of the preset data, proved: whatever failed starts left *)
(* in the database, the references of the preset rows hit their accounts   *)
(* while no id of an account was lost.                                     *)
(***************************************************************************)
EXTENDS Startup, FiniteSetTheorems, TLAPS

\* Table users holds the first k accounts of Presets, with growing ids.
FirstAccounts(k) ==
    \E ids \in [1 .. k -> 1 .. lastId["users"]] :
        /\ \A m, n \in 1 .. k : m < n => ids[m] < ids[n]
        /\ RowsOf("users") = {[id |-> ids[m], preset |-> Presets[m]] : m \in 1 .. k}

\* How many accounts Seed has inserted when it comes to a place of Presets.
AccountsBefore(place) == IF place <= 3 THEN place - 1 ELSE 3

\* Why the literals can be right: Seed only goes on with rows that refer to
\* accounts after it has inserted all of them itself, in order, in the same run;
\* a start that finds one account inserts nothing.
SeedInv ==
    /\ process \in {"down", "starting", "seeding", "serving"}
    /\ next \in Nat \ {0}
    /\ lastId \in [Tables -> Nat]
    /\ \A row \in rows : \E i \in 1 .. 10 : row.preset = Presets[i]
    /\ \E k \in 0 .. 3 : FirstAccounts(k)
    /\ RowsOf("activities") \cup RowsOf("registrations") # {} => FirstAccounts(3)
    /\ process = "seeding" => next <= 10 /\ FirstAccounts(AccountsBefore(next))

-----------------------------------------------------------------------------
(* The literals.                                                           *)

LEMMA Literals ==
  /\ Len(Presets) = 10
  /\ Presets[1] = User("admin") /\ Presets[2] = User("organizer") /\ Presets[3] = User("user")
  /\ \A i \in 4 .. 7 : Presets[i] = PresetActivity
  /\ \A i \in 8 .. 10 : \E a, s : Presets[i] = PresetRegistration(a, s)
<1>1. /\ Len(Presets) = 10
      /\ Presets[1] = User("admin") /\ Presets[2] = User("organizer") /\ Presets[3] = User("user")
      /\ Presets[4] = PresetActivity /\ Presets[5] = PresetActivity
      /\ Presets[6] = PresetActivity /\ Presets[7] = PresetActivity
      /\ Presets[8] = PresetRegistration(1, "registered")
      /\ Presets[9] = PresetRegistration(2, "checked_in")
      /\ Presets[10] = PresetRegistration(3, "registered")
  BY DEF Presets
<1>2. ASSUME NEW i \in 4 .. 7 PROVE Presets[i] = PresetActivity
  <2>1. i = 4 \/ i = 5 \/ i = 6 \/ i = 7
    OBVIOUS
  <2> QED
    BY <1>1, <2>1
<1>3. ASSUME NEW i \in 8 .. 10 PROVE \E a, s : Presets[i] = PresetRegistration(a, s)
  <2>1. i = 8 \/ i = 9 \/ i = 10
    OBVIOUS
  <2> QED
    BY <1>1, <2>1
<1> QED
  BY <1>1, <1>2, <1>3

\* The place of a literal tells its table and whom it refers to.
LEMMA LiteralTables ==
  ASSUME NEW i \in 1 .. 10
  PROVE  /\ Presets[i].table = IF i <= 3 THEN "users" ELSE IF i <= 7 THEN "activities"
                                                       ELSE "registrations"
         /\ Presets[i].table = "activities" => Presets[i].organizer = 2
         /\ Presets[i].table = "registrations" => Presets[i].user = 3
<1>1. CASE i \in {1, 2, 3}
  BY <1>1, Literals DEF User
<1>2. CASE i \in 4 .. 7
  BY <1>2, Literals DEF PresetActivity
<1>3. CASE i \in 8 .. 10
  <2>1. PICK a, s : Presets[i] = PresetRegistration(a, s)
    BY <1>3, Literals
  <2> QED
    BY <1>3, <2>1 DEF PresetRegistration
<1> QED
  BY <1>1, <1>2, <1>3

-----------------------------------------------------------------------------
(* The steps.                                                              *)

\* A step that leaves users alone keeps its rows, also when an id is lost.
LEMMA AccountsKept ==
  ASSUME NEW k \in Nat, FirstAccounts(k), RowsOf("users")' = RowsOf("users"),
         lastId["users"] \in Nat, lastId'["users"] \in Nat, lastId'["users"] >= lastId["users"]
  PROVE  FirstAccounts(k)'
<1>1. PICK ids \in [1 .. k -> 1 .. lastId["users"]] :
        /\ \A m, n \in 1 .. k : m < n => ids[m] < ids[n]
        /\ RowsOf("users") = {[id |-> ids[m], preset |-> Presets[m]] : m \in 1 .. k}
  BY DEF FirstAccounts
<1>2. 1 .. lastId["users"] \subseteq 1 .. lastId'["users"]
  OBVIOUS
<1>3. ids \in [1 .. k -> 1 .. lastId'["users"]]
  BY <1>2
<1> QED
  BY <1>1, <1>3 DEF FirstAccounts

\* A table without accounts.
LEMMA NoAccounts ==
  ASSUME RowsOf("users") = {}, lastId["users"] \in Nat
  PROVE  FirstAccounts(0)
<1> DEFINE ids == [m \in 1 .. 0 |-> 1]
<1>1. 1 .. 0 = {}
  OBVIOUS
<1>2. ids \in [1 .. 0 -> 1 .. lastId["users"]]
  BY <1>1
<1>3. RowsOf("users") = {[id |-> ids[m], preset |-> Presets[m]] : m \in 1 .. 0}
  BY <1>1
<1>4. \A m, n \in 1 .. 0 : m < n => ids[m] < ids[n]
  BY <1>1
<1> HIDE DEF ids
<1> QED
  BY <1>2, <1>3, <1>4 DEF FirstAccounts

\* Who has only some of the accounts does not have all of them.
LEMMA NotMoreAccounts ==
  ASSUME NEW k \in 0 .. 2, FirstAccounts(k)
  PROVE  ~FirstAccounts(3)
<1> SUFFICES ASSUME FirstAccounts(3) PROVE FALSE
  OBVIOUS
<1>1. PICK row \in RowsOf("users") : row.preset = Presets[3]
  <2>1. PICK ids \in [1 .. 3 -> 1 .. lastId["users"]] :
          RowsOf("users") = {[id |-> ids[m], preset |-> Presets[m]] : m \in 1 .. 3}
    BY DEF FirstAccounts
  <2>2. [id |-> ids[3], preset |-> Presets[3]] \in RowsOf("users")
    BY <2>1
  <2> QED
    BY <2>2
<1>2. PICK m \in 1 .. k : row.preset = Presets[m]
  BY DEF FirstAccounts
<1>3. m = 1 \/ m = 2
  OBVIOUS
<1>4. Presets[1].name = "admin" /\ Presets[2].name = "organizer" /\ Presets[3].name = "user"
  BY Literals DEF User
<1> QED
  BY <1>1, <1>2, <1>3, <1>4

LEMMA InitSeedInv == Init => SeedInv
<1> SUFFICES ASSUME Init PROVE SeedInv
  OBVIOUS
<1>1. /\ process \in {"down", "starting", "seeding", "serving"} /\ process # "seeding"
      /\ next \in Nat \ {0}
      /\ lastId \in [Tables -> Nat]
  BY DEF Init, Tables
<1>2. CASE rows = {}
  <2>1. RowsOf("users") = {} /\ RowsOf("activities") = {} /\ RowsOf("registrations") = {}
    BY <1>2 DEF RowsOf
  <2>2. FirstAccounts(0)
    BY <1>1, <2>1, NoAccounts DEF Tables
  <2> QED
    BY <1>1, <1>2, <2>1, <2>2 DEF SeedInv
<1>3. CASE rows = InitSqlRows /\ lastId["users"] = 3
  <2>1. ASSUME NEW row \in rows PROVE \E i \in 1 .. 10 : row.preset = Presets[i]
    <3>1. Presets[4] = PresetActivity
      BY Literals
    <3>2. CASE \E i \in 1 .. 3 : row = [id |-> i, preset |-> Presets[i]]
      BY <3>2
    <3>3. CASE \E i \in 1 .. 5 : row = [id |-> i, preset |-> PresetActivity]
      BY <3>1, <3>3
    <3>4. CASE \E i \in 1 .. 3 : row = [id |-> i, preset |-> Presets[7 + i]]
      <4>1. PICK i \in 1 .. 3 : row = [id |-> i, preset |-> Presets[7 + i]]
        BY <3>4
      <4>2. 7 + i \in 1 .. 10 /\ row.preset = Presets[7 + i]
        BY <4>1
      <4> QED
        BY <4>2
    <3> QED
      BY <1>3, <3>2, <3>3, <3>4 DEF InitSqlRows
  <2> DEFINE ids == [m \in 1 .. 3 |-> m]
  <2>2. RowsOf("users") = {[id |-> m, preset |-> Presets[m]] : m \in 1 .. 3}
    <3>1. ASSUME NEW m \in 1 .. 3 PROVE Presets[m].table = "users"
      BY LiteralTables
    <3>2. PresetActivity.table # "users"
      BY DEF PresetActivity
    <3>3. ASSUME NEW i \in 1 .. 3 PROVE Presets[7 + i].table # "users"
      <4>1. PICK j \in 8 .. 10 : j = 7 + i
        OBVIOUS
      <4> QED
        BY <4>1, LiteralTables
    <3> QED
      BY <1>3, <3>1, <3>2, <3>3 DEF RowsOf, InitSqlRows
  <2>3. /\ ids \in [1 .. 3 -> 1 .. lastId["users"]]
        /\ \A m, n \in 1 .. 3 : m < n => ids[m] < ids[n]
        /\ RowsOf("users") = {[id |-> ids[m], preset |-> Presets[m]] : m \in 1 .. 3}
    BY <1>3, <2>2
  <2> HIDE DEF ids
  <2>4. FirstAccounts(3)
    BY <2>3 DEF FirstAccounts
  <2> QED
    BY <1>1, <2>1, <2>4 DEF SeedInv
<1> QED
  BY <1>2, <1>3 DEF Init

\* Steps of the process that write no row; an id may be lost.
LEMMA NoRowStep ==
  ASSUME SeedInv, UNCHANGED rows, next' \in Nat \ {0}, lastId' \in [Tables -> Nat],
         lastId'["users"] >= lastId["users"],
         process' \in {"down", "starting", "serving"}
  PROVE  SeedInv'
<1>1. /\ lastId["users"] \in Nat /\ lastId'["users"] \in Nat
      /\ \A t : RowsOf(t)' = RowsOf(t)
  BY DEF SeedInv, Tables, RowsOf
<1>2. ASSUME NEW k \in Nat, FirstAccounts(k) PROVE FirstAccounts(k)'
  BY <1>1, <1>2, AccountsKept
<1>3. \E k \in 0 .. 3 : FirstAccounts(k)'
  BY <1>2 DEF SeedInv
<1>4. RowsOf("activities")' \cup RowsOf("registrations")' # {} => FirstAccounts(3)'
  BY <1>1, <1>2 DEF SeedInv
<1> QED
  BY <1>3, <1>4 DEF SeedInv

LEMMA SeedCountStep ==
  ASSUME SeedInv, SeedCount
  PROVE  SeedInv'
<1>1. UNCHANGED <<rows, lastId>> /\ next' = 1
  BY DEF SeedCount
<1>2. CASE process' = "serving"
  BY <1>1, <1>2, NoRowStep DEF SeedInv, Tables
<1>3. CASE process' = "seeding" /\ RowsOf("users") = {}
  <2>1. /\ lastId["users"] \in Nat /\ lastId' = lastId
        /\ \A t : RowsOf(t)' = RowsOf(t)
    BY <1>1 DEF SeedInv, Tables, RowsOf
  <2>2. FirstAccounts(0)
    BY <1>3, <2>1, NoAccounts
  <2>3. ASSUME NEW k \in Nat, FirstAccounts(k) PROVE FirstAccounts(k)'
    BY <2>1, <2>3, AccountsKept
  <2>4. FirstAccounts(0)' /\ AccountsBefore(next)' = 0
    BY <1>1, <2>2, <2>3 DEF AccountsBefore
  <2>5. RowsOf("activities")' \cup RowsOf("registrations")' # {} => FirstAccounts(3)'
    BY <2>1, <2>3 DEF SeedInv
  <2>6. FirstAccounts(AccountsBefore(next))'
    BY <2>4
  <2> QED
    BY <1>1, <1>3, <2>4, <2>5, <2>6 DEF SeedInv
<1> QED
  BY <1>2, <1>3 DEF SeedCount

\* The next account comes after those that are there.
LEMMA AccountAdded ==
  ASSUME SeedInv, process = "seeding", NEW n \in 1 .. 3, n = next,
         rows' = rows \cup {[id |-> lastId["users"] + 1, preset |-> Presets[next]]},
         lastId'["users"] = lastId["users"] + 1
  PROVE  FirstAccounts(n)'
<1>1. PICK last \in Nat : last = lastId["users"]
  BY DEF SeedInv, Tables
<1>2. AccountsBefore(next) = n - 1
  BY DEF AccountsBefore
<1>3. PICK ids \in [1 .. n - 1 -> 1 .. last] :
        /\ \A i, j \in 1 .. n - 1 : i < j => ids[i] < ids[j]
        /\ RowsOf("users") = {[id |-> ids[m], preset |-> Presets[m]] : m \in 1 .. n - 1}
  BY <1>1, <1>2 DEF SeedInv, FirstAccounts
<1> DEFINE more == [m \in 1 .. n |-> IF m = n THEN last + 1 ELSE ids[m]]
<1>4. more \in [1 .. n -> 1 .. last + 1]
  <2> SUFFICES ASSUME NEW m \in 1 .. n, m # n PROVE ids[m] \in 1 .. last + 1
    BY <1>1
  <2>1. m \in 1 .. n - 1
    OBVIOUS
  <2>2. ids[m] \in 1 .. last
    BY <2>1
  <2> QED
    BY <1>1, <2>2
<1>5. ASSUME NEW i \in 1 .. n, NEW j \in 1 .. n, i < j PROVE more[i] < more[j]
  <2>1. i \in 1 .. n - 1 /\ ids[i] \in 1 .. last
    BY <1>5
  <2>2. j = n \/ j \in 1 .. n - 1
    OBVIOUS
  <2> QED
    BY <1>1, <1>3, <1>5, <2>1, <2>2
<1>6. RowsOf("users")' = RowsOf("users") \cup {[id |-> last + 1, preset |-> Presets[n]]}
  <2>1. Presets[n].table = "users"
    BY LiteralTables
  <2> QED
    BY <1>1, <2>1 DEF RowsOf
<1>7. RowsOf("users")' = {[id |-> more[m], preset |-> Presets[m]] : m \in 1 .. n}
  <2>1. 1 .. n = (1 .. n - 1) \cup {n} /\ n \notin 1 .. n - 1
    OBVIOUS
  <2>2. more[n] = last + 1 /\ \A m \in 1 .. n - 1 : more[m] = ids[m]
    BY <2>1
  <2> HIDE DEF more
  <2> QED
    BY <1>3, <1>6, <2>1, <2>2
<1> HIDE DEF more
<1>8. lastId'["users"] = last + 1
  BY <1>1
<1> QED
  BY <1>4, <1>5, <1>7, <1>8 DEF FirstAccounts

LEMMA SeedInsertStep ==
  ASSUME SeedInv, SeedInsert
  PROVE  SeedInv'
<1> DEFINE t == Presets[next].table
<1>1. /\ process = "seeding" /\ next \in 1 .. 10
      /\ FirstAccounts(AccountsBefore(next))
  BY DEF SeedInv, SeedInsert
<1>2. t \in Tables /\ t = IF next <= 3 THEN "users" ELSE IF next <= 7 THEN "activities"
                                                    ELSE "registrations"
  BY <1>1, LiteralTables DEF Tables
<1> HIDE DEF t
<1>3. /\ rows' = rows \cup {[id |-> lastId[t] + 1, preset |-> Presets[next]]}
      /\ lastId' = [lastId EXCEPT ![t] = lastId[t] + 1]
      /\ next' = next + 1
      /\ process' = IF next = 10 THEN "serving" ELSE "seeding"
  BY Literals DEF SeedInsert, t
<1>4. lastId \in [Tables -> Nat] /\ lastId' \in [Tables -> Nat] /\ "users" \in Tables
  BY <1>2, <1>3 DEF SeedInv, Tables
<1>5. ASSUME NEW row \in rows' PROVE \E i \in 1 .. 10 : row.preset = Presets[i]
  BY <1>1, <1>3, <1>5 DEF SeedInv
<1>6. PICK n \in 1 .. 10 : n = next
  BY <1>1
<1>7. CASE n <= 3
  <2>1. t = "users" /\ n \in 1 .. 3
    BY <1>2, <1>6, <1>7
  <2>2. FirstAccounts(n)'
    BY <1>1, <1>3, <1>4, <1>6, <2>1, AccountAdded
  <2>3. RowsOf("activities") \cup RowsOf("registrations") = {}
    <3>1. FirstAccounts(n - 1) /\ n - 1 \in 0 .. 2
      BY <1>1, <1>6, <2>1 DEF AccountsBefore
    <3> QED
      BY <3>1, NotMoreAccounts DEF SeedInv
  <2>4. RowsOf("activities")' \cup RowsOf("registrations")' = {}
    <3>1. Presets[next].table = "users"
      BY <2>1 DEF t
    <3> QED
      BY <1>3, <2>3, <3>1 DEF RowsOf
  <2>5. next' = n + 1 /\ AccountsBefore(next)' = n
    BY <1>3, <1>6, <2>1 DEF AccountsBefore
  <2>6. FirstAccounts(AccountsBefore(next))'
    BY <2>2, <2>5
  <2>7. \E k \in 0 .. 3 : FirstAccounts(k)'
    BY <2>1, <2>2
  <2> QED
    BY <1>3, <1>4, <1>5, <1>6, <2>1, <2>4, <2>5, <2>6, <2>7 DEF SeedInv
<1>8. CASE n > 3
  <2>1. t # "users" /\ FirstAccounts(3)
    BY <1>1, <1>2, <1>6, <1>8 DEF AccountsBefore
  <2>2. RowsOf("users")' = RowsOf("users")
    <3>1. Presets[next].table # "users"
      BY <2>1 DEF t
    <3> QED
      BY <1>3, <3>1 DEF RowsOf
  <2>3. lastId'["users"] = lastId["users"] /\ lastId["users"] \in Nat
    BY <1>2, <1>3, <1>4, <2>1
  <2>4. FirstAccounts(3)'
    BY <2>1, <2>2, <2>3, AccountsKept
  <2>5. next' = n + 1 /\ AccountsBefore(next)' = 3
    BY <1>3, <1>6, <1>8 DEF AccountsBefore
  <2>6. FirstAccounts(AccountsBefore(next))'
    BY <2>4, <2>5
  <2>7. next' \in Nat \ {0} /\ (process' = "seeding" => next' <= 10)
    BY <1>3, <1>6, <2>5
  <2> QED
    BY <1>3, <1>4, <1>5, <2>4, <2>6, <2>7 DEF SeedInv
<1> QED
  BY <1>7, <1>8

\* Seed's presets refer to accounts that Seed put there, in order.
LEMMA SeedInductive == Spec => []SeedInv
<1>1. SeedInv /\ [Next]_vars => SeedInv'
  <2> SUFFICES ASSUME SeedInv, [Next]_vars PROVE SeedInv'
    OBVIOUS
  <2>1. /\ lastId["users"] \in Nat /\ lastId \in [Tables -> Nat]
        /\ next \in Nat \ {0}
    BY DEF SeedInv, Tables
  <2>2. CASE Start \/ Crash
    BY <2>1, <2>2, NoRowStep DEF Start, Crash
  <2>3. CASE StatementFails
    <3>1. /\ UNCHANGED <<next, rows>> /\ process' = "down"
          /\ \/ lastId' = lastId
             \/ /\ process = "seeding"
                /\ lastId' = [lastId EXCEPT ![Presets[next].table] =
                                lastId[Presets[next].table] + 1]
      BY <2>3 DEF StatementFails
    <3>2. lastId' \in [Tables -> Nat] /\ lastId'["users"] >= lastId["users"]
      <4>1. CASE lastId' = lastId
        BY <2>1, <4>1
      <4>2. CASE lastId' # lastId
        <5>1. next \in 1 .. 10
          BY <3>1, <4>2 DEF SeedInv
        <5>2. PICK t \in Tables : t = Presets[next].table
          BY <5>1, LiteralTables DEF Tables
        <5> QED
          BY <2>1, <3>1, <4>2, <5>2 DEF Tables
      <4> QED
        BY <4>1, <4>2
    <3> QED
      BY <2>1, <3>1, <3>2, NoRowStep
  <2>4. CASE UNCHANGED vars
    BY <2>4 DEF vars, SeedInv, FirstAccounts, RowsOf, AccountsBefore
  <2> QED
    BY <2>2, <2>3, <2>4, SeedCountStep, SeedInsertStep DEF Next
<1> QED
  BY InitSeedInv, <1>1, PTL DEF Spec

-----------------------------------------------------------------------------
(* The references.                                                         *)

LEMMA ThreeAtMost ==
  ASSUME NEW a, NEW b, NEW c
  PROVE  Cardinality({a, b, c}) \in Nat /\ Cardinality({a, b, c}) <= 3
<1>1. IsFiniteSet({a}) /\ Cardinality({a}) = 1
  BY FS_Singleton
<1>2. IsFiniteSet({a} \cup {b}) /\ Cardinality({a} \cup {b}) \in 1 .. 2
  BY <1>1, FS_AddElement
<1>3. Cardinality(({a} \cup {b}) \cup {c}) \in 1 .. 3
  BY <1>2, FS_AddElement
<1>4. ({a} \cup {b}) \cup {c} = {a, b, c}
  OBVIOUS
<1> QED
  BY <1>3, <1>4

\* Three accounts with growing ids and no id beyond: the literals 2 and 3 are
\* those of organizer and user.
LEMMA IdsAreLiterals ==
  ASSUME lastId \in [Tables -> Nat], FirstAccounts(3), NoAccountIdLost
  PROVE  /\ \E account \in UserNamed("organizer") : account.id = 2
         /\ \E account \in UserNamed("user") : account.id = 3
<1>1. PICK ids \in [1 .. 3 -> 1 .. lastId["users"]] :
        /\ \A m, n \in 1 .. 3 : m < n => ids[m] < ids[n]
        /\ RowsOf("users") = {[id |-> ids[m], preset |-> Presets[m]] : m \in 1 .. 3}
  BY DEF FirstAccounts
<1>2. PICK last \in Nat : last = lastId["users"]
  BY DEF Tables
<1> DEFINE account(m) == [id |-> ids[m], preset |-> Presets[m]]
<1>3. RowsOf("users") = {account(1), account(2), account(3)}
  <2>1. \A m : m \in 1 .. 3 <=> m = 1 \/ m = 2 \/ m = 3
    OBVIOUS
  <2> QED
    BY <1>1, <2>1
<1>4. last <= 3
  <2>1. PICK a, b, c : a = account(1) /\ b = account(2) /\ c = account(3)
    OBVIOUS
  <2> HIDE DEF account
  <2>2. Cardinality({a, b, c}) \in Nat /\ Cardinality({a, b, c}) <= 3
    BY ThreeAtMost
  <2>3. last = Cardinality({a, b, c})
    BY <1>2, <1>3, <2>1 DEF NoAccountIdLost
  <2> QED
    BY <2>2, <2>3
<1>5. /\ ids[1] \in 1 .. last /\ ids[2] \in 1 .. last /\ ids[3] \in 1 .. last
      /\ ids[1] < ids[2] /\ ids[2] < ids[3]
  BY <1>1, <1>2
<1>6. ids[2] = 2 /\ ids[3] = 3
  BY <1>4, <1>5
<1>7. account(2) \in UserNamed("organizer") /\ account(3) \in UserNamed("user")
  <2>1. account(2) \in RowsOf("users") /\ account(3) \in RowsOf("users")
    BY <1>3
  <2>2. account(2).preset.name = "organizer" /\ account(3).preset.name = "user"
    BY Literals DEF User
  <2> HIDE DEF account
  <2> QED
    BY <2>1, <2>2 DEF UserNamed
<1>8. account(2).id = 2 /\ account(3).id = 3
  BY <1>6
<1> QED
  BY <1>7, <1>8

\* Whatever start-ups failed and wherever the process died, the preset
\* activities are organizer's and the preset registrations user's, as long as
\* no id of an account was lost.
THEOREM PresetsOwned == Spec => []PresetsBelongToTheirUsers
<1>1. SeedInv => PresetsBelongToTheirUsers
  <2> SUFFICES ASSUME SeedInv, NoAccountIdLost
               PROVE  /\ \A row \in RowsOf("activities") :
                           \E account \in UserNamed("organizer") : account.id = row.preset.organizer
                      /\ \A row \in RowsOf("registrations") :
                           \E account \in UserNamed("user") : account.id = row.preset.user
    BY DEF PresetsBelongToTheirUsers
  <2>1. ASSUME RowsOf("activities") \cup RowsOf("registrations") # {}
        PROVE  /\ \E account \in UserNamed("organizer") : account.id = 2
               /\ \E account \in UserNamed("user") : account.id = 3
    BY <2>1, IdsAreLiterals DEF SeedInv
  <2>2. ASSUME NEW row \in RowsOf("activities") PROVE row.preset.organizer = 2
    <3>1. PICK i \in 1 .. 10 : row.preset = Presets[i]
      BY DEF SeedInv, RowsOf
    <3> QED
      BY <3>1, LiteralTables DEF RowsOf
  <2>3. ASSUME NEW row \in RowsOf("registrations") PROVE row.preset.user = 3
    <3>1. PICK i \in 1 .. 10 : row.preset = Presets[i]
      BY DEF SeedInv, RowsOf
    <3> QED
      BY <3>1, LiteralTables DEF RowsOf
  <2> QED
    BY <2>1, <2>2, <2>3
<1> QED
  BY SeedInductive, <1>1, PTL
=============================================================================

# Formal models of EventGo (活动报名通, gbevent)

TLA+ models of the backend (`src/backend`) and of the parts of the frontend
(`src/frontend`) that keep shared state: what the HTTP handlers do to the database
when many of them run at once, when a statement fails and when the process dies;
how the server starts; what goes in front of and behind a handler; and what a
browser shows when answers are late, lost or refused. TLC checks the models on
small instances; the TLA+ proof system proves every safety property that the
passing runs check for instances of any size.

    tlc -config MCCheckIn.cfg MCEventGo.tla      # a run: its cfg and its module (section 4)
    tlapm LedgerProofs.tla                       # the proofs of one module (section 5)

## 1. The system

A Go program (gin, gorm, MySQL/InnoDB) and a Vue frontend (Pinia stores). gin
serves every request on a goroutine of its own; the goroutines share nothing but
the database and the rate limiter's map, so all that matters on the server happens
between two statements. In the browser all that matters happens between a request
and the continuation of its answer.

| component | state | operations | hard behaviour | correct when | module |
|---|---|---|---|---|---|
| activity service (`service/activity_service.go`) | table `activities` | Create, Update, Publish, End, Delete; checks for sign-up; Stats | plain SELECT, decision, later `Save` of every column; `Save` inserts a row that is gone; Stats counts in two statements | sign-ups see the activity as it is; the numbers shown are of rows | `ActivityService`, `Stats` |
| registration service (`service/registration_service.go`) | table `registrations` | Create (sign up), Cancel, Review, OfflineCreate | Create and Review in a transaction behind a row lock, Cancel and OfflineCreate without | capacity, status and one registration per user hold at the commit; cancelled and decided are final | `RegistrationService` |
| check-in service (`service/check_in_record_service.go`) | table `check_in_records`, a status column | CheckInByVoucher, CheckInByScan | two tables and a notification in one transaction; several scanners | one record per registration, in step with the status | `CheckInService` |
| notifications, creation | table `notifications` | inside sign-up, review, check-in | atomic with the event | one for each event, none without | `EventGo` |
| notifications, read flags (`service/notification_service.go`, `stores/notificationStore.ts`) | `is_read`; list and flags of the store | list, mark one, mark all | the store sets its flags at the answer, not at the UPDATE | what is shown as read is read | `Notifications` |
| database (`database/init.sql`, `model/`, `repository/`) | tables, row locks, unique keys | SELECT, SELECT ... FOR UPDATE, INSERT, Save, DELETE, commit, rollback | lock waits, blocked INSERTs, lost connections; two schemas (AutoMigrate's has no key on activity and user) | no two rows with one key | `Database` |
| server (`cmd/server/main.go`, `router/`) | goroutines | requests, Shutdown after 5 s | crash or forced stop anywhere | no lock and no half transaction survives; requests end | `EventGo` |
| start-up (`main.go`, `service/seed.go`) | preset rows, AUTO_INCREMENT | AutoMigrate, Seed | crash between two of the INSERTs; literals that name ids | it serves in the end; presets belong to whom they should | `Startup` |
| user service (`service/user_service.go`) | table `users`, tokens | Register, Login, UpdateProfile | check, slow hash, insert; Save of the row read; a name is trimmed by one handler only | names unique, a registration lasts, tokens stay true | `Accounts` |
| comment service | table `comments` | Create, Delete | owner checked in one statement, DELETE by id in the next | removed only for its author or an admin | `Comments` |
| favourite service, `ActivityDetail.vue` | table `favorites`, the button's flag | Add, Remove, Mine | check then insert; answers out of order, error answers | at most one row; the button shows what the answers told | `Favorites` |
| middleware chain (`router/router.go`, `middleware/*`) | `gin.Context`, table `audit_logs` | limiter, AuthRequired, RequireRole, handler, AuditLog | abort and the way back; the entry is written after the commit, and for a success that wrote nothing as well | nothing is served past a gate, no false entry | `Pipeline` |
| rate limiter (`middleware/rate_limiter.go`) | bucket per address, mutex | Limit | refill truncated to whole minutes, while `lastFill` moves on | at most the capacity in a minute; who waits is served | `RateLimiter` |
| session (`stores/authStore.ts`, `utils/request.ts`) | token and user per tab, `localStorage` shared by tabs | login, logout, requests, profile, reload | late 401s, other tabs | the tab shows whom the server takes it for; a login lasts | `Session` |
| list pages (`pages/Activities`, `Organizer*`, `stores/*`) | `store.list`, filter | fetch, change, fetch again | late and reordered answers, pages that share a store | what is shown is what was asked last | `ListPages` |
| queries, export, upload, configuration, logging, formatting, layout | none that persists | | | | none (section 6) |

Interaction. A handler calls its service; `RegistrationService` and
`CheckInRecordService` call `ActivityService` (limit, owner, notification) on the
same transaction, except that `Review` reads the activity on a second connection.
Beyond that nothing couples the handlers but rows: a sign-up locks the activity
row, a review and a check-in lock the registration row. Users, comments,
favourites and read flags have tables of their own which no handler of the core
writes. The chain in front of a handler sees the token only. The frontend
reaches all of it by requests.

## 2. Modules

| module | models |
|---|---|
| `Database` | tables as functions from ids to rows or `None`; row locks; the transaction: `Begin`, `Goto`, `Return`, `Commit`, `Rollback`; unique keys, blocked INSERTs, free ids; roles |
| `ActivityService` | the five activity handlers, the clock, `OpenForSignup`, `HasRoom`, `CountRegistered` |
| `RegistrationService` | `Signup*` (Create), `Cancel*`, `Review*`, `Offline*` (OfflineCreate), one action per statement |
| `CheckInService` | `CheckInByVoucher`, `CheckInByScan`, then doCheckIn as `CheckInLock` ... `CheckInCommit` |
| `EventGo` | the composition of the four: all handlers over one database, `StatementFails`, `Crash`; properties; the mapping to `RegistrationLedger` |
| `RegistrationLedger` | the abstract specification: one ledger, on which each request that succeeds is one step |
| `Stats` | `EventGo` and one reader that counts in two statements |
| `Accounts`, `Comments`, `Favorites`, `Notifications` | the other services, statement by statement; the last two with the store and page that call them |
| `Pipeline` | the middleware chain around a handler that is one step |
| `RateLimiter` | buckets, time in ticks, clients that wait or do not |
| `Startup` | AutoMigrate, Seed, crash and restart |
| `Session`, `ListPages` | tabs and stores against answers in any order |
| `Services`, `Browser` | compositions: `Accounts`, `Comments` and `Pipeline`; `Session`, `ListPages`, `Favorites` and `Notifications` |
| `MCEventGo`, `MCStats`, `MCRateLimiter`, `MCServices`, `MCBrowser` | values for the constants, symmetry |
| `EventGoProofs`, `LedgerProofs`, `KeyProofs`, `AccountsProofs`, `ServicesProofs`, `BrowserProofs`, `RateLimiterProofs`, `StartupProofs` | the theorems |

The parts that `Services` and `Browser` put side by side share no table, no memory
and no variable, so the steps of two parts commute and every property speaks of one
part: the initial state chooses which part runs, and the state spaces add instead of
multiplying. `MCBrowser` narrows the start: a part that does not run starts in one
way only.

How code becomes state and actions, in the core (the smaller modules do the same):

- A *worker* is a goroutine serving one request. `pc[p]` is the statement it
  executes next, `job[p]` its locals: the operator, the ids of the request, the
  structs it read (`act`, `reg`), and `dirty`, what its transaction has written.
- A table holds committed rows only. Written rows stay in `job` until `Commit`,
  which is what other connections see at MySQL's default REPEATABLE READ.
- The label changes after every statement another connection can notice: a read
  that decides, a lock, a write. The first plain read of a handler belongs to the
  action that takes the request; a handler that returns before its first lock or
  write changes nothing and is a stuttering step.
- `job.act` and `job.reg` are saved as they were read. `Save` writes every column,
  so what a handler read early and saves late is exactly where updates get lost.
- In Create's transaction the FOR UPDATE read sees the committed row; the count is
  the first consistent read, it opens the snapshot that the duplicate check reads
  as well. That is one action, `SignupCheck`.
- `Save` of an activity that is gone inserts it again (gorm v1.25 falls back to
  INSERT when the UPDATE matches no row): `ActivitySave` does not ask whether the
  row is there. The UPDATE that finds nothing and the INSERT are one action.
- Plain UPDATE and DELETE wait for a row lock held by a transaction.
- An INSERT fails on a committed row with its key and waits while an uncommitted
  one has it. `UniqueSignup` chooses between the schema of `init.sql` and the one
  AutoMigrate makes.
- `StatementFails` covers every error of MySQL (lost connection, lock wait timeout,
  deadlock victim); `Crash` a killed process and the end of Shutdown's five seconds.
- Abstracted: columns no guard reads (`capacity` stands for the columns Update
  rewrites), times (a deadline is over or not), the text of notifications, the id
  of a rolled-back INSERT (an id is only compared with others), the operator of a
  check-in, gap locks, which can only make a statement wait or fail. The preset rows
  of `init.sql` and `seed.go` are in `Startup` and belong to other activities than
  those of `EventGo`; `seed.go` presets a checked-in registration without a check-in
  record, so `CheckInRecorded` speaks of registrations made through the API.

Choices in the other modules:

- `Accounts`: `Names` are names as they are typed, `Trim` is what
  `strings.TrimSpace` makes of each. Register looks up and stores the trimmed name,
  Login looks up the one that was typed; `registered` keeps what was typed.
- `Pipeline`: a route is what its chain consists of, whether AuditLog records its
  method, and what a success of its handler commits: a write (`/auth/register`,
  sign-up, publish), nothing (`/auth/login`, reading) or either (the removal of a
  favourite, a mark-read). The handler is one step that does what it was asked for
  (`Handle`, kept in `done`) or refuses; `CommitUnsure` commits and answers an error.
- `Favorites`: every statement of a handler may fail, and wrapError answers 500; an
  answer that is lost is to the page the same error. The list the page asks for ends
  at 200, so it may be *cut*, without the activity although the row is there; the
  model does not count a user's other favourites and leaves open whether it is.
  `told` is a history variable: whether the flag is what an answer said, with no
  error since.
- `RateLimiter`: a request is one step, because Limit holds its mutex throughout;
  a bucket's `lastFill` is kept as an age that stops at one minute, since perMin is
  also the capacity. `quiet` and `passed` are history variables of the properties.
- `Startup`: literals such as `OrganizerID: 2` are numbers, ids are given by
  AUTO_INCREMENT, and a failing INSERT may take its id with it, as InnoDB's does.
- `ListPages`: a list is what was asked for and the version of the table it was read
  from. `Session`: a token is its number; which user it belongs to is known to the
  server only. In both, the continuation of an answer is the action, and it runs
  whether or not its page is still there.

Definitions called "Fault variant" are what a plausible bug would make of the
operator next to them. They are not part of any specification: each is put in the
place of that operator to see that a property notices.

## 3. Properties

Each is stated above its definition, with the code it is about.

- Core (`EventGo`): `TypeOK`; `LocksFollowTransactions`, `LockedStructsAreFresh`
  (what a transaction read FOR UPDATE is current when saved), `JobsFollowLabels`
  (what a handler is about to write is still allowed); `AtMostOneCheckIn`,
  `CheckInRecorded`, `CancelIsFinal`, `CancelOnlyRegistered`;
  `SignupWithinCapacity`, `SignupWhilePublished`, `SignupStaysAdmitted`,
  `OneOnlineSignup`, `NoDuplicateRegistration`; `ReviewIsFinal`,
  `NotificationsFollowEvents`, `NoticesFollowRows`; `ImplementsLedger`;
  `EveryRequestEnds`.
- `Stats`: `ShownCheckInsHaveRows`.
- `Accounts`: `NamesAreUnique`, `RegisteredCanLogIn`, `TokensMatchAccounts`.
  `Comments`: `OnlyTheirsAreDeleted`. `Pipeline`: `WritesAreAuthorised`,
  `EntriesAreTrue`, `WritesAreRecorded`.
- `RateLimiter`: `AtMostCapacityPerMinute`, `RefusedIsServedLater`.
  `Startup`: `PresetsBelongToTheirUsers`, `ServesInTheEnd`.
- `Session`: `ShownUserIsTheTokens`, `LoginLasts`. `ListPages`:
  `SettledListIsTheOneAsked`. `Favorites`: `FavoritedAtMostOnce`,
  `ButtonTellsTheTruth`. `Notifications`: `ShownReadIsRead`.

`RegistrationLedger` is what the core promises when taken together: a sign-up is
one step that sees a published activity with a free place and no sign-up of the
same user, and tells the user; a decision is taken once; a check-in finds an open
registration and records it once. The promise is only as strong as the code keeps
it: a cancellation may hit whatever it meets and may put back an older review, an
offline registration takes no notice of capacity.

**What they except.** The code breaks the following in some situations, which
section 6 lists; the properties hold around them, and no property catches the
situation itself. The hazards of `PROJECT.json` that name one have no property.

- `ButtonTellsTheTruth`, `ShownUserIsTheTokens` and `LoginLasts` speak of *patient*
  users, who wait for an answer before the next click, beside hasty users or tabs,
  who do not. `ButtonTellsTheTruth` speaks besides of flags that an answer has told:
  not after an error, nor after a list that was cut.
- `SettledListIsTheOneAsked` and `ShownReadIsRead` except one order of answers, by
  the history variables `crossed` and `mixed`.
- `ReviewIsFinal` excepts a cancellation, which saves the decision it read.
- `RegisteredCanLogIn` is about the trimmed name, not the one that was typed.
- `ShownCheckInsHaveRows` counts cancelled registrations too: it sees a check-in
  recorded twice, not a rate over 100 %.
- `RefusedIsServedLater` is about clients that pause for a whole minute,
  `PresetsBelongToTheirUsers` about databases in which no account id is lost, and
  `ServesInTheEnd` says that the server serves, not that every preset is there.

## 4. Runs

`Operations` selects the requests the clients of a run send, so that a run asks one
question and stays small.

| run | module | instance | shows |
|---|---|---|---|
| `check_in` | `MCEventGo` | 3 workers, 2 guests and an organizer, 1 registration; signup, offline, cancel, review, checkIn, delete | the locked transactions lose nothing, record a check-in once, decide once and notify exactly |
| `signup` | `MCEventGo` | 3 workers, 2 guests, 2 registrations, capacity none or 1, no unique key; signup, cancel and all activity requests | capacity, status and one sign-up per user hold by the activity lock alone |
| `ledger` | `MCEventGo` | 2 workers, 2 registrations, capacity 1, no unique key; all registration requests and End | the handlers implement `RegistrationLedger` |
| `live` | `MCEventGo` | 2 workers, 2 registrations, 1 voucher, fairness | every request ends |
| `stats` | `MCStats` | 2 workers and the reader, 2 registrations, 2 vouchers, unique key | no check-in is shown twice; the keys hold for concurrent INSERTs, online and offline |
| `services` | `MCServices` | 2 workers, 2 accounts, 2 names and one with a space before it, 2 comments, 2 requests of a guest, an organizer and an admin over every chain | the services beside the core keep what they promised; gates and audit entries |
| `rate_limiter` | `MCRateLimiter` | 2 addresses, capacity 3, 4 ticks a minute, one client that waits a minute and one that does not | the limit, and that who waits is served |
| `startup` | `Startup` | a new database or `init.sql`'s, up to 4 failures | restarts end in service; presets belong to their users |
| `browser` | `MCBrowser` | 2 tabs and 2 tokens; 2 pages, 2 filters, 3 requests; 2 users; 3 notifications in lists of 2; errors of any statement of a favourite, one lost or refused answer elsewhere | what is shown is what the server holds |

| run that finds a violation | of | because |
|---|---|---|
| `cancel_vs_check_in` | `CancelOnlyRegistered` | Cancel saves a struct it read before a check-in |
| `offline_capacity` | `SignupWithinCapacity` | OfflineCreate counts without a lock |
| `audit_lost` | `WritesAreRecorded` | the audit entry is a statement after the commit |

**Bounds.** In the core a conflict is between two handlers on one row; a third
worker lets a waiter queue behind them and a third commit fall into the gap. Rows of
one table interact only through the capacity (two registrations and capacity one:
the second place is the first one too many), the unique keys (two rows) and the
shared activity (one). Every handler can repeat for ever, so counters are not cut:
check-in and notification counts stay small because the properties hold.
`RegistrationIds` and `Vouchers` do run out; then the INSERT fails, as it does on a
voucher that is taken. Capacity is judged against the capacity at the commit, so an
Update that lowers it below the present count is no violation, and a sign-up that
commits after it would be. `signup` leaves OfflineCreate out because with it the
property fails: `offline_capacity` shows exactly that.

Elsewhere: `MaxFailures = 4` lets Seed be cut short at several places in one
history; two INSERTs of one name need two workers; an answer that overtakes another
needs two requests under way, and three let a change fall between; `MaxVersion = 1`
is one change, before or after which every list is read; `MaxLost` and `MaxErrors`
are one loss, which is the first that can go wrong; `MaxTokens = 2` lets one login
replace another; `PageSize = 2` with three notifications leaves one off the list.

A name that Trim changes, one it leaves and one that has nothing to do with either
are the three kinds of names there are. Errors of `Favorites` are not bounded: an
error ends its request, and there are three.

Symmetry is used in the runs without liveness properties, over sets whose members
the model only compares; not over names, which `Trim` tells apart.

**Deadlock** is checked in the runs of `EventGo`, `Stats` and `RateLimiter`. It is off
(`CHECK_DEADLOCK FALSE`) in `startup`, where the bound on failures leaves a server
that serves and does nothing else, and in `services`, `audit_lost` and `browser`,
where accounts, comments, requests, tokens and notifications run out. In the core
the statement that matters is `EveryRequestEnds`, since a crash is always possible.

**Fairness.** `EventGo` assumes strong fairness of each worker's own steps
(`Work(p)`): the Go scheduler runs every runnable goroutine, and InnoDB grants a
row to its waiters in turn, so a step that becomes possible again and again is
taken; strong and not weak, because a lock is free only between other holders.
`Startup` assumes that the container is started again (`restart: unless-stopped` in
`docker-compose.yml`) and that a process that runs goes on; failures are bounded by
`MaxFailures`, nothing else is assumed of them. `RateLimiter` assumes that time
passes and that a refused client asks again once its pause is over; the
property is only about clients whose pause is a whole minute. Nothing is assumed
of requests, failures, deadlines and crashes, or of any frontend module.

## 5. Proofs

| module | theorem | states |
|---|---|---|
| `EventGoProofs` | `Inductive` | `Spec => [](IInv /\ IdsAreAllocated)` |
| | `TypeCorrect`, `LocksCorrect`, `StructsFresh`, `JobsCorrect` | `TypeOK`, `LocksFollowTransactions`, `LockedStructsAreFresh`, `JobsFollowLabels` |
| | `CheckInOnce`, `CheckInConsistent`, `CancelledForever` | `AtMostOneCheckIn`, `CheckInRecorded`, `CancelIsFinal` |
| `LedgerProofs` | `LedgerInductive` | `Spec => []LInv` |
| | `AdmissionHolds`, `NoticesHaveRows`, `SignupOnce` | `SignupStaysAdmitted`, `NoticesFollowRows`, `OneOnlineSignup` |
| | `EventsAreNotified`, `DecidedOnce` | `NotificationsFollowEvents`, `ReviewIsFinal` |
| | `LedgerImplemented` | `Spec => Ledger!Spec`, the refinement `ImplementsLedger` |
| `KeyProofs` | `KeysUnique` | `NoDuplicateRegistration` |
| | `CheckInsHaveRows` | `StatsSpec => []ShownCheckInsHaveRows` |
| | `SignupsFit`, `SignupsOfPublished` | `SignupWithinCapacity`, `SignupWhilePublished`, where `"offline" \notin Operations` |
| `AccountsProofs` | `AccountsInductive`, `AccountsTyped`, `NamesUnique`, `LoginsRemain`, `TokensTrue` | `AInv`, `TypeOK`, `NamesAreUnique`, `RegisteredCanLogIn`, `TokensMatchAccounts` |
| `ServicesProofs` | `PartsRun` | `ServicesSpec` implies the specification of each part |
| | `PipelineInductive`, `WritesAuthorised`, `EntriesTrue` | `PInv`, `WritesAreAuthorised`, `EntriesAreTrue` |
| | `DeletedByTheirs` | `OnlyTheirsAreDeleted` |
| `BrowserProofs` | `BrowserPartsRun` | `Spec` of `Browser` implies the specification of each part |
| | `ShownUser`, `LoginStays` | `ShownUserIsTheTokens`, `LoginLasts` |
| | `SettledList` | `SettledListIsTheOneAsked` |
| | `FavoritedOnce`, `ButtonIsTrue` | `FavoritedAtMostOnce`, `ButtonTellsTheTruth` |
| | `ReadIsRead` | `ShownReadIsRead` |
| `RateLimiterProofs` | `LimiterInductive`, `BucketsTyped`, `CapacityKept` | its invariant, `TypeOK`, `AtMostCapacityPerMinute` |
| `StartupProofs` | `PresetsOwned` | `PresetsBelongToTheirUsers` |

They hold for any number of workers, users, activities, registrations, vouchers,
accounts, comments, addresses, tabs, tokens, pages, filters, notifications and
requests under way, for either schema, any set of operations (but for the two
theorems that say otherwise), any capacity and any length of a minute, and for any
value of the bounds that cut the runs (`MaxFailures`, `MaxTokens`, `MaxVersion`,
`MaxErrors`, `MaxLost`, `PageSize`).

**Assumptions.** `ConstantsAssumption`: roles are roles, capacities are naturals,
`UniqueSignup` is a Boolean. `NoneAssumption`, `NoEntryAssumption`,
`NoRowAssumption`, `NoBucketAssumption`: `None` is no worker, user, id, voucher,
capacity, row, ledger entry, account or bucket. `FiniteIdsAssumption`: a table has
finitely many rows, so they can be counted. `LimiterAssumption`: capacity and minute
are positive. `RoleAssumption`: the claims of a token name one of the three roles.
`PatientAssumption`: patient tabs are tabs. `NoContextAssumption`,
`NoRequestAssumption`, `NoValueAssumption`: `None` is no request, user, number or
answer. `TrimAssumption`: Trim maps names to names, and a trimmed name to itself. TLC
evaluates each of them in the runs. `SignupsFit` and
`SignupsOfPublished` have one hypothesis more, that nobody registers a user offline;
the run `offline_capacity` shows that the first fails without it.

**The core.** `IInv` is the conjunction of `TypeOK`, `LocksFollowTransactions`,
`LockedStructsAreFresh`, `JobsFollowLabels`, `AtMostOneCheckIn` and
`CheckInRecorded`. None is inductive alone:

- one check-in record needs that a registration inside a check-in is still
  `registered` (`JobsFollowLabels`), and that its count is then zero
  (`CheckInRecorded`);
- that it stays `registered` needs that no other worker writes the row, hence that
  the worker holds its lock (`LocksFollowTransactions`);
- that a Review does not write an old status back needs that its copy is current
  (`LockedStructsAreFresh`);
- that a new activity row disturbs no sign-up needs that a locked row's id was given
  out (`IdsAreAllocated`).

The proof has one lemma per action. `LocalStep` treats every step that touches
neither tables nor locks, `RollbackStep` every way a handler gives up, `CommitStep`
the three commits, `AutocommitStep` the statements outside transactions.

**The ledger.** `LInv` adds to it `NoticesFollowRows`, `SignupStaysAdmitted`,
`OneOnlineSignup` and `DecisionFacts`, what a review has found and what a
cancellation saves. `WritesOrNot` says that a step leaves registrations, records and
notifications alone or is one of five writes of one row: `SignsUp`, `Decides`,
`ChecksIn`, `Cancels`, `SignsUpOffline`. A sign-up's findings survive the steps of
others because only one sign-up at a time is past the lock of an activity
(`OneSignup`), so nobody else can take the place or the user's slot
(`AdmissionKept`), while cancellations only free places (`FewerTaken`). The
refinement maps each of the five writes to the ledger's step of that name
(`SignUpMaps`, `SignUpOfflineMaps`, `ReviewMaps`, `CheckInMaps`, `CancelMaps`), and
every other step, which can change what is open, to `Organize` (`OrganizeMaps`).

**The keys.** `KInv` adds that the row of an open INSERT has no key of a committed
row nor of another open INSERT: the first holds by the check of the key, the second
because an INSERT waits while another one has its key, and both stay because rows
keep their keys (`KeysKept`) and appear only by such an INSERT (`NewRowApart`).

**Capacity and status.** What a sign-up has found counts the online registrations
only (`Taken`), `CountRegistered` counts all. `AllOnline` closes the gap: without
OfflineCreate every registration that is there is online, since `WritesOrNot` leaves
a committing sign-up as the only step that adds one (`AppearsBySignup`). Then the
commit makes at most one more of the ones that were below the capacity, and the
activity is still the locked row (`SignupFits`).

**Stats.** The count of check-ins is of one moment, and with one record per
registration it is at most the number of rows (`CheckInsCounted`, by an injection);
later steps only add rows (`ActivityRowsStay`).

**Accounts, comments, middleware.** `AInv`: the row a profile saves is of the account
it is saved over, so that names, passwords and roles never change once they are
there; every row bears a trimmed name, which is what a registration that was
answered with success trims to. `CInv`: what a worker is about to delete is the
operator's to delete, or gone, because an id is never given out twice. `PInv` says of
each request what is still ahead of it, which gates are behind it (`GatesPassed`),
whether its handler did what it was asked for and whether it wrote: it does either
only when nothing is ahead, an answer below 400 on the way back is of a handler that
did, and that wrote if its route cannot succeed without, and its user is the caller
AuthRequired found.

**The browser.** One invariant for each part.

- `SInv`: what a login brings back, what `localStorage` holds and what a patient tab
  holds is a token and its user; a patient tab waits for one request at most, and
  the answer of that request is about the token the tab still has (`PatientTab`), so
  that a 401 means an expired token (`TokensKept`).
- `LInv` of `BrowserProofs`: unless something was refused or crossed, the *last*
  request of the sequence is the one that will settle the page (`LastFits`): it is
  for the page and filter of now and was read no earlier than the last write.
- `FInv`: a patient user has one request under way at most, and what that request
  has found or done tells what the flag will be (`FavoriteFits`); while there is none
  a flag that was told is right (`FlagFits`), and one under way may rely on it: a
  refused add of a told flag found no activity, since there is no row. `FavoriteTypes`
  holds the unique key: a row count of at most one.
- `NInv`: what an answer will show as read has been marked in the table, unless a
  list came in between (`NoticeFits`).

`PartsRun` and `BrowserPartsRun` carry them to the compositions: to a part, a step of
another one is none.

**The limiter.** What is left in a bucket and what it has let through since the last
quiet minute add up to no more than the capacity.

**Start-up.** `SeedInv`: table `users` holds the first accounts of the presets with
growing ids (`FirstAccounts`), all three when another preset row is there, and as
many as Seed has inserted while it runs. A start that finds an account inserts
nothing, so the accounts and the rows that refer to them are of one run. Three
growing ids of which none is lost are 1, 2 and 3 (`IdsAreLiterals`).

**Only model-checked.** Liveness (`EveryRequestEnds`, `RefusedIsServedLater`,
`ServesInTheEnd`) is outside the prover. The three violated properties have
counterexamples, not proofs; for all operations the online half of
`SignupWithinCapacity` is `SignupStaysAdmitted`, which is proved.

## 6. Divergences without a run, and what is not modelled

Where the code does something else than one would expect, but no text of the
repository says otherwise, or where one run already shows the pattern, there is no
run of its own. The models contain each of these behaviours, unless said otherwise,
and the properties are stated so that they hold around them.

- Cancel's Save also resets a decision taken since it read the row
  (`registration_service.go:84`); `ReviewIsFinal` excepts a cancellation.
- OfflineCreate can register for an activity that was ended or deleted since it
  looked (`registration_service.go:137`).
- A Publish overtaken by a Publish and an End saves `published` over `ended`, and an
  Update overtaken by a Delete brings the activity back (`activity_service.go:95`,
  `:115`). Two Updates overwrite each other's columns.
- Stats can show more check-ins than registrations, that is a rate above 100 %: the
  two counts are of two moments, and a checked-in registration that is cancelled
  keeps its record (`activity_service.go:205`).
- A client that asks more often than once a minute is never refilled once its
  bucket is empty, since the truncated refill moves `lastFill` on
  (`rate_limiter.go:46`): a client whose pause is shorter stays refused.
- A start that dies after the first account leaves the other presets out for good;
  an INSERT that failed shifts the ids that `seed.go` names by literals. `seed.go`
  presets a checked-in registration without its record, `init.sql` one with it.
- Two registrations of one name, or two adds of a favourite, that both looked first:
  the second ends in the server error of the unique key, not in the conflict message.
- Register trims the name, Login does not (`user_service.go:30`, `:69`): who
  registered with a space before the name is told that it succeeded and gets a 401
  with what was typed. Behind the name it depends on the schema: the collation of
  `init.sql`'s tables on MySQL 8 tells `bob` and `bob ` apart, that of AutoMigrate's
  does not, and `Names` has one member for what a collation takes for equal.
- Every success with a recorded method gets an audit entry: a login, the removal of
  no favourite and a mark-read of nothing among them (`audit_log.go:40`).
- The favourite button: when the list is answered with an error
  (`ActivityDetail.vue:83`), or ends before the activity (`:72` asks for 200), the
  button is unlit beside a row, and every click is an add that is refused; so it is
  after an add whose answer is an error or lost although the INSERT was done. Of two
  quick clicks or a click during the first load the last answer wins, not the last
  request.
- The average beside a list of comments is a second statement whose error is dropped
  (`comment_handler.go:41`); not modelled, it is only read.
- A late 401 of an older token logs out a fresh login of the same tab, and so does a
  second press of Enter; a profile's answer that arrives after another login writes
  the older user into the store; `MyRegistrations.vue:49` and the organizer pages
  fetch with the token of `localStorage`, which another tab may have replaced.
- Lists: of two answers out of order the older list stays; the organizer page goes on
  with its second request after it was left and writes into the store the public
  page shares; when that second request is refused, the public list stays on it.
- `markAll` flags what is listed when its answer comes, which may be a newer list
  than the one the server marked.
- A read of an activity that is not there ends in a server error in the comment,
  favourite and registration handlers, not in a 404.

Seen while reading, of no consequence for the models: `audit_detail` is set for
errors only, which are not recorded; `ErrorHandler` acts on `c.Errors`, which no
handler sets; only the routes of `/auth` are rate limited; `ImageUploader` posts to a
route that does not exist; `authStore.fetchMe` has no caller.

Not modelled, by choice:

- list queries, paging, calendar, CSV export, formatting: they change no state and no
  property of the project depends on their results;
- upload: no route reaches the handler;
- configuration, logging, request ids, CORS: read or written once, without behaviour;
- `ErrorHandler` and panics: gin's recovery ends a request the way `StatementFails`
  or a refusal does;
- the dialogs, forms and layout of the pages, the calendar, the list of users, and
  the copy of the list that `CommentList.vue` captures: none has a second writer.

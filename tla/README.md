# A verification project for the Asfalis backend

TLA+ modules of the parts of the backend where order, concurrency and failure
decide whether somebody in distress is heard; TLC configurations that check
them; theorems about them with proofs for TLAPS.

The program is a FastAPI application over SQLAlchemy and PostgreSQL. Handlers
are synchronous, so they run in a thread pool, many at a time; each request,
and each background thread, has a database session of its own
(`src/app/main.py:125`, `src/app/database.py:52`). No query takes a lock
(`FOR UPDATE` appears nowhere), no row has a version, and few tables have a
constraint that could decide a race. Two dictionaries and one set live in
process memory. Nearly everything below follows from that.

## Inventory

| Component | State | Operations | Interacts with | Hard behaviour | Correct when |
|---|---|---|---|---|---|
| SOS alerts (`services/sos_service.py`, `routes/sos.py`) | table `sos_alerts`; `_manual_sos_cooldown`, `_sos_cooldown`; one watchdog thread per alert | trigger, send-now, cancel, safe, history/active (with expiry), countdown | contacts, message delivery, predictions, button | watchdog against handlers; a status read before slow messages and written after them; restart loses watchdogs and cooldowns | sent means every contact was told; cancelled stays cancelled; a countdown ends; one alert per cooldown |
| Automatic SOS (`services/protection_service.py`, `routes/settings.py`) | `user_settings.auto_sos_enabled`, set `active_protection_users`, cooldown | toggle, status, settings update, predict, sensor data | SOS alerts | cache and database written in opposite orders; cache refilled by readers; failed commit; a failed read answered as "not armed" | a disarmed user raises nothing; an armed one is missed only if the database cannot be read |
| Trusted contacts (`routes/contacts.py`) | tables `trusted_contacts`, `otp_records` | add, resend, verify, update, set primary, delete | SOS alerts, message delivery | check then insert; bulk UPDATEs beside ORM writes; codes tied to numbers, not contacts | limit, one primary, one live code, bounded guesses, no code that verifies two contacts |
| Sessions (`routes/auth.py` refresh, logout) | table `revoked_tokens`; tokens of three kinds held by clients | login, refresh, logout | authentication | check then insert, decided by a unique index; kinds and expiry not looked at; swallowed failure | a token is exchanged once; one live refresh token per line of exchanges; a logout that is entered ends its line |
| Wearable button (`routes/device.py`) | table `connected_devices` (`last_button_press_at`) | register, press, alert, remove, status | SOS alerts | two presses at once; a cancel before its alert exists | a double tap leaves no countdown |
| Registration, codes, password reset (`routes/auth.py`, `utils/otp.py`) | `users`, `otp_records` | register, verify, resend, forgot, reset | profile, sessions, delivery | attempts counted by read and later write; invalidating and issuing apart; a code spent before its account is looked up; codes outlive accounts | a code works for its number and purpose, no more often than it was read unused, and a spent one never again |
| Authentication of requests (`dependencies.py`) | none | decode an access token | all routes | - | - |
| Handset binding (`routes/auth.py`, `models/device_security.py`) | `user_device_bindings`, pending change | login from another handset, transfer | sessions | a pending change that completes long after it was made | one bound handset; a transfer takes its delay |
| Location (`routes/location.py`, `services/location_service.py`) | `location_history` | update, start, stop, current | sockets | broadcast needs an event loop the thread lacks | last row is current |
| Profile and deletion (`routes/user.py`) | `users` and all that hangs on them | read, update, delete | everything by cascade | the number changes and its index does not; deletion while a code is being checked or a watchdog sleeps | an account is found by its number, and that number answers for it; nothing is granted to the next account of a number |
| Field encryption and migration (`utils/encryption.py`, `scripts/migrate_plaintext_to_encrypted.py`, migration `j1k2l3m4n5o6`) | encrypted columns and their index columns | encrypt, decrypt, migrate; upgrade, downgrade | all models | batches committed one by one, a crash between them, writes of the application to rows already fetched, unique indexes of normalised values | running it again completes it unless two accounts share a number or an address; nothing is encrypted twice or left plaintext; rows are found |
| Delivery (`services/whatsapp_service.py`, `sms_service.py`, `fcm_service.py`) | none | send | external services | failures are only reported | - |
| Set-up, support tickets, time zones, validators, scripts | none that decides anything | - | - | - | - |

## Modules

| Module | Models | Runs |
|---|---|---|
| `SosAlerts` | alerts, cooldowns, watchdogs, time, restarts | `SosRaces`, `SosSequential`, `SosUnattended`, `SosFalseAlarm` |
| `AlertLifecycle` | abstract: what an alert goes through, without clocks, requests or cooldowns | implemented by `SosAlerts` in `SosRaces` |
| `SosAlertsProofs` | theorems about `SosAlerts`; that it implements `AlertLifecycle` | - |
| `DeviceButton` | button events, EXTENDS `SosAlerts`, so presses, watchdogs and alerts act on one state | `ButtonOneAtATime` |
| `DeviceButtonProofs` | that `DeviceButton` implements `SosAlerts`; theorems about both together | - |
| `AutoProtection`, `AutoProtectionProofs` | the arming flag, its cache and the check of a prediction | `ProtectionRaces` |
| `TrustedContacts`, `TrustedContactsProofs` | contacts and their codes | `ContactsOneAtATime`, `ContactsTogether` |
| `Accounts`, `AccountsProofs` | accounts and the codes of their numbers: registration, verification, reset, change of number, deletion | `AccountRaces` |
| `Sessions`, `SessionsProofs` | tokens: exchange, revocation, logout | `SessionRaces` |
| `HandsetBinding`, `HandsetBindingProofs` | the handset a user may log in from | `HandsetRaces` |
| `FieldMigration`, `FieldMigrationProofs` | the encryption script beside the application | `MigrationReruns` |

`MC*` modules give the model values and the symmetry sets. `MCAccounts` also
holds the closed form of a bound that `Accounts` defines as the size of a set, as
an assumption TLC evaluates; `MCFieldMigration` the rows and addresses of its
instance.

### How the modules read the code

- A handler is a small program. Its steps are its database reads, its commits
  and the messages it sends; what it does between two of them is one step,
  because nothing else can see it. What a handler carries from one step to the
  next (the row it loaded, the contacts still to be told) is its record in
  `thread`, `call` or `press`.
- A commit writes the columns whose value differs from the one that was
  loaded, as SQLAlchemy does, over whatever others have written (`Save`,
  `Write`, `Written`, `Reject`). This is where lost updates come from, and also
  why setting a contact primary that is already primary writes nothing.
- Transactions run at READ COMMITTED, PostgreSQL's default, with autoflush on.
  The rows of a bulk UPDATE are those committed when it starts (`marked`); they
  change with the commit.
- Requests that change no state and read nothing a property speaks of are left
  out (`GET /sos/countdown`, `POST /sos/test-whatsapp`, listings).
- One user, except in `Accounts` and `FieldMigration`. Handlers read and write
  rows of their own user, with one exception that is left out: the codes of
  contacts are keyed by number and purpose, so that two users with a contact of
  one number share its codes.

### SosAlerts

| TLA+ | Code |
|---|---|
| `row` | table `sos_alerts`: status, trigger type, resolution, and the age of `triggered_at`. `resolved_at`, `sent_at`, position and message are data no decision reads |
| `manualLeft`, `autoLeft` | the two cooldown dictionaries, as time left |
| `thread[r]`, `thread[a]` | a request handler; the watchdog of alert `a` |
| `sleep` | `time.sleep` of the watchdog |
| `told`, `cleared` | observed only: whom a message was sent to |
| `StartTrigger`, `CheckCooldown`, `FindCountdown`, `CancelStale`, `InsertAlert`, `MarkAndArm` | `trigger_sos`: guard, search, commit of the stale alert, commit of the new one, and then the cooldown and the thread |
| `StartPredict` | the sensor paths, which enter the trigger and mark the auto cooldown once more |
| `StartSend`, `WakeWatchdog`, `SendSos`, `CommitSent`, `FailDispatch` | `dispatch_sos` from `POST /sos/send-now` and from the watchdog |
| `StartCancel`, `CommitCancel`, `StartSafe`, `CommitSafe`, `SendAllClear`, `EndNotify` | `cancel_sos`, `mark_user_safe` and their messages |
| `ExpireStale` | the bulk UPDATE before `GET /sos/active` and `/history` |
| `Restart`, `Tick` | the process; time |

What ends a countdown that nobody answers, the code says in two ways. The comment
at `services/sos_service.py:110` calls the watchdog a safety net that dispatches
if the app never calls `/send-now`; the comment at `routes/sos.py:232`, in
`GET /sos/countdown`, says that the stale cleanup will cancel the alert then. The
watchdog wakes at 12 s and the cleanup takes rows of 60 s, so that the code does
the first: `UnattendedIsSent` holds, and `UnansweredIsCancelled`, the second, is
violated (`SosCleanup.cfg`).

`auto_fall` and `auto_shake` are one kind: no code tells them apart. Contacts
are constant here; their table is the subject of `TrustedContacts`. The order
in which `SendSos` reaches contacts is arbitrary: the query has no ORDER BY.
Account deletion, which removes alerts under their watchdogs, is not in the
module.

Timers are counted in an abstract unit. What the code compares is the order of
the durations: the watchdog's 12 s < the manual cooldown of 20 s < the expiry
of 60 s < the auto cooldown of 600 s; `TimesAssumption` asks for that order and
no more, and the proofs use nothing else. The runs use 1 < 2 < 3 < 4.

### AutoProtection

`enabled` is the column and `cached` membership in `active_protection_users`.
`POST /protection/toggle` commits and then writes the cache; `PUT /settings`
writes the cache and then commits, and a failed commit leaves the cache
written. `CheckCache`, `ReadSettings`, `FillCache` are
`_is_protection_active`, and `FailRead` its `except Exception: pass`: a read that
fails is answered as "not armed" (the verdict "unread", which the caller cannot
tell from "inactive"). `FreshCheck` is the second look of
`predict_from_window` at the database before it raises an alert; `FailFresh` its
failure, which nothing catches. `steady[r]`
observes whether the column kept one value during the call of `r`, which is the
only case in which the answer has a right value.

`POST /protection/sensor-data` shares the cache path and the alert; its
magnitude threshold is data.

### TrustedContacts

A contact id is never used twice. `StartAdd` and `StartVerify` merge the reads
at the start of a handler into one step. A handler whose row was deleted
meanwhile fails and is rolled back (`Abort`). The code itself is not
modelled: a guess is right or wrong. `proof`, `wrong` and `alerted` observe.

### Accounts

`account` is the table `users` by the number that `phone_hmac` was computed
from, which is how every lookup finds a row; the column `phone` is a field of
it, because `PUT /user/profile` changes the one and not the other.
`code` is `otp_records` in the order of their commits, of two purposes.

| TLA+ | Code |
|---|---|
| `StartRegister`, `IssueCode` | `register_phone`: the row is flushed first, so the unique index makes a second registration of the number wait and fail; account and code are one commit |
| `StartResend`, `Invalidate`, `IssueCode` | `/auth/resend-otp`, `/auth/forgot-password`: lookup, bulk UPDATE of the unused codes, insert and commit in `store_otp` |
| `StartCheck`, `Reject`, `Spend` | `verify_otp`: the latest unused code and its attempts are read; a wrong guess writes what was read plus one; a right one is spent by a commit of its own |
| `Verify`, `SetPassword`, `Refuse` | `/auth/verify-phone-otp`, `/auth/reset-password` look the account up after that, and write it or answer 404 |
| `UpdateProfile`, `DeleteAccount` | `routes/user.py`; codes stay |
| `Fail` | an exception or a restart between two steps |

The code itself is not modelled: a guess is right or wrong. Nor is time: to find
a code expired is to refuse without a trace. `uses`, `wrong`, `issuer` and
`proof` observe.

### Sessions

`_make_tokens` makes an access, a refresh and an sos token, each with a `jti` of
its own and signed with the same key; an exchange answers with the first two.
`/auth/refresh` and `/auth/logout` decode with `verify_exp` off and ask for a
`jti` and no more, so that a token of any kind, however old, may be presented:
`StartRefresh` and `StartLogout` take every token issued, of the kinds in
`Presented`. A token is named by its answer and its kind. `line[i]` is the answer
that the refresh token of answer `i` goes back to by exchanges of refresh tokens;
an exchange of another kind begins a line of its own beside it. `parent` is the
token an answer was given for.

`Revoke` and `Blocklist` are the commits decided by the unique index on `jti`;
`RevokeFails` and `BlocklistFails` are their exceptions. The migration
`915e0b05243e` drops the constraint `revoked_tokens_jti_key`; the index of the
model (`revoked_token.py:13`), which is unique, stays, and the actions rest on
it. What else a revocation does is in `get_current_user`, which looks only
tokens of type "refresh" up: an access token that was exchanged or logged out
still opens every route until it expires. It decides nothing here.

### HandsetBinding

`bound` is the user's row in `user_device_bindings`, `change` the table of
change requests with the time left until `eligible_at`. A login reads the
binding (`StartLogin`), then the latest pending request of its handset, and
looks at `is_eligible` up to twice: `GrantPending` and `FindTooEarly` are the
first look, `RefuseTooEarly` and `RequestAgain` the second. Only logins that
pass the password are modelled, with `IMEI_BINDING_ENABLED` and with a handset
named; all others leave the two tables alone, and so does a login from the
bound handset. A login that asks anew begins a whole delay, and only the latest
request is looked at: overlapping logins, or one whose delay runs out between
its two looks, put the transfer off. `DelaysBounded` says how many delays that
can be and not how long it takes. Each of these handlers has one commit, so a
crash between its steps is the same as its never having been called.

### FieldMigration

`db` holds the committed rows, `tx` and `dirty` what the script's open
transaction has written (and locked). A row has two encrypted columns, "key" and
"email", each with its index. "key" is the column that lookups go by (number,
address of a handset or device; in tables without an index, any); "email" is
indexed in `users` only and may be NULL. `sealed` counts the layers of
encryption, so that encrypting twice is visible, and `index` is what
`compute_hmac` hashes: the value stripped and in lower case (`Normal`), so that
two values may have one index. Both indexes of `users` are unique (`Taken`). The
script is `Start`, then for every table `Select` (all rows are fetched), one
`UpdateRow` for each of them in any order, with a commit after every
`BATCH_SIZE` rows in the tables that are batched, and `FinishTable`; `Clash` is
the refusal by the unique `phone_hmac` or `email_hmac`, `Crash` anything else
that ends it. After either it starts again from the first table. The application inserts,
updates and deletes rows meanwhile, as its routes do: with the index
(`Reindexing`), without it (`Renumbering`: the profile's number) and in tables
without one (`Rewriting`). `Rollback` is `downgrade()` followed by `upgrade()`.

The script's functions for the tables have one shape; the definitions are mapped
to different ones of them. `is_encrypted` is right about every row: a number
that looks like a ciphertext is left out. Two copies of
the script at once are left out too. The lock of `tx` is that of PostgreSQL.

### DeviceButton

`tapLeft` is what is left of the 1.5 s window opened by
`last_button_press_at`; `press[r]` holds the part of a handler that is the
button's own, before it goes on inside `trigger_sos` or `cancel_sos`, which are
the actions of `SosAlerts`. The connection flag is left out: no decision reads
it.

## Runs

Runs that pass:

| Run | Bounds | Properties |
|---|---|---|
| `SosRaces` | 2 contacts, 2 handlers, 1 alert, 1 fault | `SentToldEveryone`, `MarkedSafeWasSent`, `CountdownIsGuarded`, `NoAllClearOutOfTheBlue`, `CancelledIsFinal`, `RefinesLifecycle`, `TypeOK` |
| `SosSequential` | 1 contact, 1 handler, 2 alerts | `SoleCountdown`, `CooldownHolds`, `CountdownEnds` (under fairness) |
| `SosUnattended` | 1 contact, 1 handler, 2 alerts, prompt watchdogs | `UnattendedIsSent` (under fairness) |
| `ProtectionRaces` | 3 handlers, failing commits and reads, restarts | `DisarmedRaisesNothing`, `ArmedMissedOnlyUnread` |
| `ContactsOneAtATime` | 2 numbers, limit 2, 3 contacts and 3 codes ever, 1 attempt | `WithinLimit`, `AtMostOnePrimary`, `OneLiveCode`, `GuessesBounded`, `CodesVerifyOnce`, `TypeOK` |
| `ContactsTogether` | 2 handlers, limit 1 | `OvershootBounded` |
| `AccountRaces` | 2 numbers, 1 new number, 2 handlers, 2 codes, 2 attempts, failures at any step | `OneLiveCodePerHandler`, `AcceptedOncePerHandler`, `GrantedByRegisteredNumber`, `GuessesBounded`, `SpentStaysSpent`, `TypeOK` |
| `SessionRaces` | 3 handlers, 3 answers with tokens, access and refresh tokens presented, failing commits, restarts | `OneSuccessor`, `OneLivePerLine`, `LogoutEndsTheLine` |
| `HandsetRaces` | 3 handlers, 2 handsets, 4 requests, delay 2 | `TransferWaits`, `DelaysBounded` |
| `ButtonOneAtATime` | 1 handler, 2 alerts, 1 fault, pairing | `DoubleTapLeavesNoCountdown`, `ButtonTypeOK` |
| `MigrationReruns` | 2 tables, 3 + 1 rows, 2 keys, 1 e-mail address in 2 spellings, batches of 2, 2 writes of the application, 2 crashes | `PassedTablesEncrypted`, `ReadsWhatWasWritten`, `PassedTablesFound`, `EncryptedIsFinal`, `CompletesWithoutTwin` (under fairness), `TypeOK` |

What the properties say:

- `SentToldEveryone`, `MarkedSafeWasSent`: the statuses the user sees are about
  messages that were attempted, whichever of several dispatchers committed last.
- `CountdownIsGuarded`, `CountdownEnds`, `UnattendedIsSent`: an alert in
  countdown has a thread that will look at it, unless that thread died; it ends;
  and it ends as sent unless the user ended it, as long as nothing crashes.
- `CancelledIsFinal`: once no dispatch is under way, cancelled is for good. A
  dispatch under way may still commit "sent" over it.
- `NoAllClearOutOfTheBlue`: no "I am safe" about a sensor alert nobody heard of.
- `SoleCountdown`, `CooldownHolds`: one countdown, no alert during a cooldown.
- `RefinesLifecycle`: every step on an alert is one `AlertLifecycle` allows.
- `DisarmedRaisesNothing`, `ArmedMissedOnlyUnread`: when the arming did not
  change during the call, a prediction of a disarmed user raises nothing and one
  of an armed user is ignored only because a read of the database failed,
  whatever the cache says.
- `WithinLimit`, `OvershootBounded`: the limit of contacts, alone and in a race.
- `AtMostOnePrimary`, `OneLiveCode`, `GuessesBounded`, `CodesVerifyOnce`: what
  long sequences of contact operations must keep, although codes belong to
  numbers and outlive contacts. The last says that the code of a verified contact
  is spent and verified no other; it may have been sent for another contact of
  the number.
- `OneLiveCodePerHandler`, `AcceptedOncePerHandler`, `GuessesBounded`: what is left
  of "one live code", "works once" and "so many attempts" when handlers race;
  for one handler each is exactly that. The bound on wrong guesses is the number
  of ways (`Spreads`) to spread the handlers over the counts of a code: a slow
  handler sets the count back to what it read plus one, and the others may go on
  from there. For n handlers and M attempts that is fewer than
  `choose(M + n, n)`.
- `SpentStaysSpent`: that same late write never makes a code usable again.
- `GrantedByRegisteredNumber`: an account is verified, or has a new password, by a
  spent code of that purpose that was sent to the number it was registered with,
  although accounts come and go under it. That is not the number it has: see
  `GrantedByPresentNumber` below.
- `OneSuccessor`, `OneLivePerLine`, `LogoutEndsTheLine`: what rotation and logout
  guarantee although kinds are not told apart. No token is exchanged twice;
  refresh tokens that go back to one another are live one at a time; a token that
  a logout entered is never exchanged, and its line is over, whatever was under
  way. How many lines a login may lead to is not bounded by the code, and a
  logout whose commit failed entered nothing.
- `TransferWaits`, `DelaysBounded`: a handset replaces another only after its
  own delay, and has no more delays running than there are handlers.
- `PassedTablesEncrypted`, `EncryptedIsFinal`: of the tables the script has passed
  every row is encrypted, once, the rows of failed runs and of the application
  included.
- `ReadsWhatWasWritten`, `PassedTablesFound`: rows read as what was last written
  and are found by their indexes. The exceptions are named: `lost` are rows written
  between the SELECT of their table and their own UPDATE, `adrift` columns whose
  value the profile changed or whose index column a downgrade dropped.
- `CompletesWithoutTwin`: if it is run again after every crash the script
  completes, unless two accounts have one number or one e-mail address as
  `compute_hmac` sees it, one of them still plaintext.
- `DoubleTapLeavesNoCountdown`: when a double tap is answered no alert is in
  countdown. A dispatch that had begun before goes on and may commit "sent" over
  the cancel.

Why these bounds are enough to be interesting. Two contacts distinguish "some"
from "all" were told. Two handlers and a watchdog make three dispatchers of one
alert; the races found between threads need two of them. Alerts meet only
through the search for a countdown and the cooldowns, which two alerts exercise
when requests are sequential. One fault suffices because a second one finds
what the first one left. Three answers with tokens are a line of two exchanges,
or two lines of one login; the third kind, sos, which the handlers treat as they
do access, is left to `SessionKinds.cfg` and the proofs. Two attempts in place of
five are the fewest for which a slow handler can set a count back; two codes are
one that replaces another, or one of each purpose or number. Three rows against
batches of two leave a batch committed and one open when the script stops; the
fourth row is of a table without batches. One account has an e-mail address and
another may have it in another spelling, so that runs with a twin and without
one occur. In the
contact and account runs the bounds on contacts and codes end every
behaviour and clients may stop, and the migration may be complete, so these runs
do not check for deadlock; the other runs do.

`OneAtATime` and `Sequential` mean one request handler at a time. This is not a
restriction the code enforces: it is the assumption under which the property
holds, and the counterexamples below show what is lost without it. Watchdogs,
housekeeping, time and (where there is a fault) restarts still interleave.

Fairness. The operating system runs every thread that can run, and time passes:
weak fairness of each handler's next step, of each watchdog's wake-up, of each
dispatch and of `Tick`. Nothing is assumed of clients; `Call` and `ExpireStale`
are not fair. `Prompt`, in `SosUnattended` only, says that a due watchdog begins,
and a created alert gets its watchdog, before the clock moves by one unit: the
code leaves 48 s between the watchdog's wake-up and the expiry, so that only a
process suspended for that long breaks it. `CountdownEnds` does not need it.
In `FieldMigration` the script is one sequential program and gets weak fairness
as a whole; that includes `Start`, that is, an operator who runs it until it
completes, as the migration asks ("you MUST also run the data migration
script"). Crashes are
bounded, and no fairness is asked of the application.

A run whose violation is a finding:

- `SosFalseAlarm`: `/safe` during a dispatch records a false alarm and notifies
  nobody, although contacts were told. The comment at `sos_service.py:331` says
  that the SOS was never dispatched.

Further counterexamples. These configurations are kept beside the runs; they
check properties that the modules define and TLC violates
(`tlc -config X.cfg MC...`, with `-continue` where a configuration has several):

| Configuration | Property | What happens |
|---|---|---|
| `SosAutoBlocked` | `OnlyAutoBlocksAuto` | a prediction that meets a manual countdown starts the automatic cooldown without having created an alert; automatic alerts are then blocked for ten minutes |
| `SosLastWord` | `AllClearIsTheLastWord` | the watchdog loads the alert before a cancel commits; a contact hears "I am safe" and then the SOS |
| `SosMarkedSafe` | `MarkedSafeIsOver` | two dispatches commit around a `/safe`; the alert is sent and marked safe, and further `/safe` calls change nothing |
| `SosDoubleTap` | `CooldownHolds` | two simultaneous triggers pass the guard, the cooldown being marked after the insert |
| `SosLostWatchdog` | `UnattendedIsSent` | a restart takes the watchdog with it |
| `SosCleanup` | `UnansweredIsCancelled` | the alert is sent by its watchdog, long before the cleanup of `routes/sos.py:232` would cancel it |
| `ProtectionStatus` | `StatusTellsTheTruth` | between commit and cache write a disarmed user is reported as protected |
| `ProtectionStatus` | `ArmedIsNeverMissed` | after a restart the cache is empty, the read of the settings fails, and an armed user is answered as unprotected |
| `ContactPrimary` | `SetPrimarySticks` | setting the primary contact as primary again leaves no primary contact: the bulk UPDATE demotes it and the assignment that follows changes nothing in the session |
| `ContactLimit` | `WithinLimit` | two simultaneous additions exceed the limit |
| `ContactCodes` | `OneLiveCode` | two simultaneous codes are both valid |
| `ContactNumber` | `VerifiedNumberConfirmed` | a verified contact's number is changed and it stays verified |
| `ContactAlerted` | `OnlyVerifiedAlerted` | an alert addresses contacts that were never verified, against `MILESTONES.md:114` |
| `AccountProfile` | `NumberInUseOnce` | two accounts have one number: uniqueness is that of `phone_hmac`, which is of the number at registration |
| `AccountProfile` | `FoundByItsNumber` | for the same reason an account is not found by its present number |
| `AccountProfile` | `GrantedByPresentNumber` | and it is verified, and gets a new password, by codes sent to its old number |
| `AccountOldCode` | `RegistrationStartsClean` | a reset code outlives the account it was asked for and is good for the next account of the number |
| `MigrationTwin` | `Completes` | two accounts have one e-mail address in two spellings; every run of the script is refused at the second. A number registered anew beside its plaintext row does the same |
| `MigrationLookups` | `LookupsWork` | after a downgrade and an upgrade the rows are encrypted and get no index any more |
| `MigrationOverwrites` | `NoWriteLost` | a row changed after the SELECT of its table is written back as it was fetched |
| `HandsetEdge` | `ReplacedWaitsAgain` | the delay runs out between the two looks at `is_eligible`; the login asks anew, the eligible request stays behind, and after being replaced the handset is let in again at once |
| `SessionLogout` | `LoggedOutIsRevoked` | a logout whose commit fails answers success and leaves the token live |
| `SessionKinds` | `OnlyLoginsBeginLines` | the access token of a login is exchanged: the login has two live refresh tokens, although `revoked_token.py:8` and `dependencies.py` take rotation to be about refresh tokens |
| `ButtonRace` | `NothingFoundNothingComing` | a double tap finds nothing while the alert of its first press is being created |

## Proofs

For every number of handlers, alerts, contacts, codes, rows and tokens, and every
length of the timers in the order assumed. Each theorem rests on an inductive
invariant; what it adds to the property, and why, is this.

- `SosAlertsProofs`: `Typing`, `SentIsTold`, `MarkedSafeIsTold`,
  `CountdownGuarded`. A status is written from what a thread remembers, so
  `SentToldEveryone` alone is not inductive. `DispatchesHoldTheirAlert` adds
  that a dispatch has told everybody it no longer has to tell, and that a
  handler about to commit "marked safe" read an alert that had been sent;
  `told` never shrinks. For the guard, `WatchdogsKnowTheirAlert` adds that an
  alert about to be armed has no watchdog yet and one handler only.
  `ImplementsLifecycle`, `CancelledStays`: every step on an alert maps to one
  action of `AlertLifecycle` or to a stutter, a dispatch under way being a thread
  at "sending". `ClosersHoldAnAlert` is what the mapping needs: no commit of
  "cancelled" makes an alert out of nothing. `AllClearFollowsSos`: whoever is
  about to hear "I am safe" about an alert of a silent kind was told its SOS
  (`NotifiersFollowTheSos`).
  Under `Lone`, one handler at a time: `OneCountdown` (`SoleCountdown`), because a
  handler at "insert" has seen no countdown and one at "stale" is about to end
  the only one (`TriggersAlone`), whatever watchdogs and housekeeping do;
  `CooldownKept` (`CooldownHolds`), for the same reason and because rows get
  their kind from their insertion (`UncreatedHasNoKind`); and
  `LatestInCountdown`: the alert in countdown is the newest one, since alerts are
  numbered as they are inserted (`InsertionOrder`) and no dispatch is of an alert
  that does not exist (`UnderwayIsCreated`).
- `DeviceButtonProofs`: `ButtonIsAClient`, with a second instance of
  `SosAlertsProofs` whose clients may trigger by button and cancel as well: every
  step of the button is a step of that instance or leaves its state alone.
  It needs that a press under way is of a handler that does nothing else
  (`PressIsIdle`). All that is proved of alerts is then cited for the button:
  `ButtonKeepsPromises`, `ButtonKeepsCancelled` and, under `Lone`,
  `ButtonOneCountdown`. `ButtonTypes` adds the button's own variables.
  `DoubleTapDisarms` (`DoubleTapLeavesNoCountdown`, under `Lone`; about countdowns,
  not about dispatches under way) is about the
  cancel of a double tap, which takes the newest alert still open: as the only
  alert in countdown is the newest of all (`CountdownIsLatest`), either it is the
  one taken, or there is none, and none appears until the tap is answered
  (`TapInv`).
- `AutoProtectionProofs`: `NoAlarmWhenDisarmed`, `NoMissWhenRead`. The
  strengthening is that for a call under way `steady` is never the opposite of
  the column's present value, so that the fresh check, or the database read
  behind an empty cache, decides rightly when it succeeds. Nothing about the cache is assumed:
  this is why it may be as wrong as it likes.
- `TrustedContactsProofs`, any number of handlers: `ContactTypes` (attempts never
  pass the limit although they are counted by a late write) and `Overshoot`.
  A handler that has passed the check of the limit counts as if its contact
  existed (`AddersCounted`). Under `Lone`, one handler at a time: `LimitAlone`,
  `OnePrimary`, `OneCode`, `FewGuesses`, `VerifiedOnce`. `PromotesAlone` says that a
  handler about to promote has marked every primary contact; `IssuesAlone` and
  `ChecksAreFresh` that a handler about to issue has marked every unused code of
  the number, and that a code under check is still unused with the attempts that
  were read; `UnverifiedUnproved` that a contact not verified has no code to its
  name.
- `AccountsProofs`: `AccountsTypes`, `OneLiveCode`, `AcceptancesBounded`,
  `GrantsNeedTheirCode`, `SpentCodesStay`. A handler about to issue has marked every
  unused code it issued itself (`IssuersMarkTheirOwn`), and only itself can add
  one; a handler that checks holds a code of the number and purpose it was
  called for, spent from "grant" on (`ChecksHoldTheirCode`); and a handler that
  has read a code as right counts as an acceptance to come
  (`AcceptancesCounted`). `FewGuesses` (`GuessesBounded`), for any number of
  handlers: a handler about to count a wrong guess stands at the count it read
  when that is lower than the one in the table, every other handler at the one in
  the table (`Level`). A guess takes one handler up and lets others go on from
  there, so that at the lowest count where the spread changes fewer stand than
  before, and no way of spreading the handlers occurs twice (`BehindGrows`,
  `OneMoreBehind`); there are no more guesses than spreads left behind
  (`GuessesCounted`). `FewGuessesAlone` and `OneLiveCodeAlone` are what is left
  of the bounds for one handler: the limit itself, and one code.
- `SessionsProofs`: `SoleLiveToken` (`OneLivePerLine`), `SoleSuccessor`,
  `LogoutIsFinal`, for any kinds presented and any failures. While a refresh token
  is being exchanged its line has no live one, no other exchange and none that a
  logout entered, and no token is being exchanged twice
  (`ExchangeIsExclusive`); a token with a successor is revoked and was not entered
  by a logout; lines go back to answers given earlier (`LinesExist`).
- `HandsetBindingProofs`: `DelayIsKept` (`TransferWaits`) from `TransfersAreRipe`:
  a transfer under way holds a request of its own handset whose delay is over;
  time and other logins leave such a request as it is. `FewDelays`
  (`DelaysBounded`): for every request k, the delays begun after k and the
  handlers that will ask again when k is over are together no more than the
  handlers there are (`AskingBounded`). It needs that all delays are the same,
  so that when one is over all earlier ones are (`LaterIsLonger`).
- `FieldMigrationProofs`: `MigrationTypes`, `NothingLeftPlain`, `ReadsBack`,
  `PassedAreFound`, `NeverPlainAgain`, from an invariant about each row: one still
  to be updated is as it was fetched unless the application wrote it since
  (`Awaits`), one in the open transaction holds the encryption of what is
  committed (`Pending`), one the script is done with is encrypted (`Dealt`), as
  are all of the tables passed. Crashes and refusals only empty `todo` and
  `dirty`, which is why running the script again is safe.

What the counterexamples depend on. For some of the properties that the code
violates a theorem says which operation it takes, all others being allowed in any
number and order:

| Theorem | Property | Without |
|---|---|---|
| `SosAlertsProofs!OnlyPredictionsBlock` | `OnlyAutoBlocksAuto` | the sensor paths, which mark the cooldown a second time |
| `SosAlertsProofs!OnlySendNowReopens` | `MarkedSafeIsOver` | `POST /sos/send-now`, so that each alert has one dispatcher, its watchdog, which is over once the alert was sent (`OverInv`) |
| `AccountsProofs!OnlyProfilesUnlink` | `FoundByItsNumber`, `NumberInUseOnce`, `GrantedByPresentNumber` | the number in `PUT /user/profile` |
| `AccountsProofs!OnlyDeletionsLeaveCodes` | `RegistrationStartsClean` | deletion of accounts: reset codes are issued for numbers that have one (`ResetsHaveAccounts`) |
| `TrustedContactsProofs!OnlyUpdatesUnconfirm` | `VerifiedNumberConfirmed` | `PUT /contacts/{id}`: what handlers hold is of the number their contact has (`OfItsNumber`) |
| `SessionsProofs!OnlyOtherKindsBranch` | `OnlyLoginsBeginLines` | access and sos tokens presented to `/auth/refresh` |
| `DeviceButtonProofs!NothingOvertaken` | `NothingFoundNothingComing` | a second handler |

Assumptions: `BoundsAssumption`, `TimesAssumption`, `ClientsAssumption`,
`RequestsAssumption`, `SessionAssumption`, `HandsetAssumption`, `ContactBounds`,
`ButtonAssumption`, `AccountsAssumption` and `MigrationAssumption` of the modules, evaluated by TLC
in every run. Handlers are finitely many where a property counts them.
`Len(Tables) \in Nat` is in `MigrationAssumption` because `Tables` is a
`SelectSeq`, whose recursion the provers do not see through. The theorems under
`Lone`, and those that leave an operation or a kind of tokens out, say so in their
statement.

Only model-checked: liveness (`CountdownEnds`, `UnattendedIsSent`,
`CompletesWithoutTwin`), which is out of the prover's reach, and the closed form
of the bound on guesses (`SpreadsAreMultisets`), since the binomial coefficient is
a recursive definition. Every other property of a run that passes is stated by a
theorem.

## Plan

The core is done: alerts with their abstract specification, the arming flag,
contacts, accounts and their codes, sessions, handset binding, button events and
the migration, with proofs of all that the runs check but liveness. What would add
most beside them:

1. Account deletion in `SosAlerts`: watchdogs and dispatches that find their
   alert gone, and an action `Delete` in `AlertLifecycle`.
2. Contacts that change during a dispatch: `TrustedContacts` composed with
   `SosAlerts`.
3. `HandsetBinding` composed with `Sessions`: which tokens of the old handset
   survive a transfer.

## Not modelled

- Location sharing: an append-only history and a flag on its last row; that the
  broadcast never leaves a worker thread, which has no running loop, is a fact
  about asyncio and not about a sequence of steps.
- Message delivery: pure output, failures only reported.
- Authentication of requests (`dependencies.py`), set-up, schema migrations other
  than that of the encryption, support tickets, time zones, validators, read-only
  scripts: no state whose order matters.
- Of modelled components: the deletion of an account under its sleeping
  watchdogs; plaintext that resembles a ciphertext in the
  migration, two copies of the script at once, and the locking of SQLite, its
  default database; the connection flag of the button; codes of a contact's number that two
  users share; expiry of tokens, which neither refresh nor logout looks at;
  cryptography.

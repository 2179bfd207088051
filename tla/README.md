# A TLA+ model of the ROKIT Locator QR add-on

The add-on sits between a code reader, which reports the id of a QR code and
where the lens saw it, and Bosch Rexroth's ROKIT Locator, which knows where the
vehicle is. It learns where the codes are, tells ROKIT about the ones an
operator has enabled, and keeps a log. This directory models its control: the
threads and what they share, the statements that change its databases, and the
files it rewrites. Paths below are relative to the repository.

## 1. Inventory

| Part | State | Operations | Where |
|---|---|---|---|
| Receiver thread | `localPackage`, `idRecord`, the connection on port 9080 | accept, receive, drop a repeated id, publish | `src/thread_pool.cpp:127-202` |
| Trigger (`dmTrigger`, main thread) | `xdX..`, `id`, `*dmPtr`, `*locStatPtr`, `*rokitPosePtr` | wait, capture the package, fetch a pose from 9008 or 9011 | `src/thread_pool.cpp:211-273` |
| Shared between them | `*deviInfo`, `myMutex`, `myCond` | lock, notify, wait without a predicate | `include/thread_pool.h` |
| Control-mode thread | `*modePtr` (no lock) | store RECORDING, LOCALIZATION or INIT as port 9004 reports it | `src/thread_pool.cpp:39-63` |
| Main loop body | `*dmPtr`, `*oriTriggerDmPtr` | retrieve, count, log, fit, call ROKIT, compare, update | `src/main_logic.cpp:147-246` |
| User database `DmList.db` | a row per code: pose, cnt, sloppyCnt, recommend, enable | select, insert, update; the operator edits `enable` | `src/database_controller.cpp:77-168` |
| Self database `SelfDmList.db` | a log of observations | insert (with the `keep_rows_size` trigger), mean of a code's rows | `src/database_controller.cpp:217-301` |
| Backup and `config.yaml` | `last_backup_time`, the backup copy | read the settings, compare the date, rewrite the file, copy | `src/database_controller.cpp:305-391`, `include/main_logic.h:113-153` |
| Account and session | `account.yaml`, `*accountPtr`, `*sessionIdPtr`, the static `RpcClientSessLogIn::sessionIdPtr` | ask for an account, log in before each call | `src/main_logic.cpp:35-85`, `src/rpc_client.cpp:352-471` |
| RPC calls | none of their own | add an observation, set a seed, compare a pose with the stored one | `src/rpc_client.cpp:39-347` |
| Binary interface client | a socket | connect with 101 attempts, read exactly n bytes | `include/binary_interface_client.h` |
| Diagnostics | `diagSockFd` | accept on 9081, send a bit set | `src/thread_pool.cpp:65-125` |
| Start and stop | the process | start threads, open databases; `q`, SIGINT, SIGTERM | `src/main_logic.cpp:87-144`, `src/user_command_processing.cpp` |

The receiver hands a package to the main thread through `*deviInfo`, under
`myMutex`, and signals with `myCond`. The main thread holds the mutex while it
captures the package and while it handles it, but not in between. The mode
thread talks to it through `*modePtr` only. The main thread alone touches the
databases and calls ROKIT; the operator edits the user database from outside. The
four threads that own sockets take their descriptors from one table, and an
exception in any of them ends the process.

What is hard here, and what makes each part correct:

* **Handoff.** Lost and spurious wakeups, overwritten packages, data read before
  an unlock and used after it, a mode that moves between two tests, a mutex held
  over blocking reads. Correct means: a package is taken whole, a wakeup means
  news, a mode that holds still means one decision, nobody is kept out for good.
* **Ledger.** Two databases written one after the other, with a process that may
  die in between; statements whose failure is only logged; a log that evicts; an
  operator who edits between a read and a write. Correct means: counts are backed
  by the log, means are means of what was seen, a row that is enabled after a step
  has the pose it had before, a code seen often enough is recommended.
* **Backup.** Date arithmetic, and a file emptied before it is written.
  Correct means: no backup older than a month, none overwritten early, a file that
  can be read whatever happens.
* **Sockets.** Messages that arrive in parts, connections that come and go, retries
  over several addresses, a descriptor variable without a lock, descriptors that run
  out. Correct means: every change of code is published, a message is put together in
  order, a descriptor is closed by the client that opened it, nothing is sent into
  somebody else's connection, a connection attempt ends.
* **Session.** Answers that are lost or come in pieces, a static that outlives
  them, a file that people edit by hand. Correct means: no call under an older
  trigger's session, no account written that never worked.

Every hazard is listed at its line in `PROJECT.json`, with the properties that
cover it or the reason why none does.

## 2. Modules

| Module | Models | Lines of code that correspond |
|---|---|---|
| `TriggerMailbox` | abstract: a one-place mailbox with a doorbell | what `recCustomerPack` and `dmTrigger` promise together |
| `TriggerHandoff` | receiver, main thread, mode thread | `thread_pool.cpp:39-63, 127-273`, `main_logic.cpp:147-246` |
| `CodeCatalogue` | abstract: the catalogue of codes the operator reads | what the loop body makes of `DmList.db` |
| `ObservationLedger` | loop body and both databases | `main_logic.cpp:122-246`, `database_controller.cpp:77-301` |
| `BackupSchedule` | the start, config.yaml and the backup | `database_controller.cpp:305-389`, `main_logic.cpp:122-137` |
| `RokitSession` | account dialogue, logins, calls | `main_logic.cpp:35-85, 165-172`, `rpc_client.cpp:361-471` |
| `Descriptors` | the table of descriptors the threads share | the kernel, as `socket`, `accept` and `close` use it |
| `CustomerSocket` | the receiver and the code reader at 9080 | `thread_pool.cpp:127-202` |
| `DiagChannel` | `diagSockFd` between two threads | `thread_pool.cpp:108-125` |
| `BinaryInterface` | `BinaryInterfaceClient` and its two users | `binary_interface_client.h:28-184`, `thread_pool.cpp:39-63, 224-270` |
| `Sockets` | the three above, composed | `main_logic.cpp:103-246` |
| `MC...` | the values TLC uses | |
| `...Proofs` | theorems for every value of the constants | |

### TriggerHandoff

`recPc` and `mainPc` name the statement each thread is at; an action is what a
thread does between two points where another may interfere. `owner` is the holder
of `myMutex`. `RecCopy` and `RecInvert` are separate, as are `ReadDeviation` and
`ReadId`, so that a torn package would be seen. `MainWait` takes and gives up the
mutex in one step, as `condition_variable::wait` does; `RecNotify` wakes main only
if it is waiting; `SpuriousWakeup` is what C++ permits. A read of a pose stream
brings data, an error, or 0 at the end of the stream (`ReadOutcomes`), and after a 0
only more of them (`Reads`): an error may pass, persist, or be a reset, which the end
follows. At 9011 there is one read per round: an error leaves the loop, a 0 spins.
At 9008 there are six, and only a 0 of the last three is looked at: `continue`, with
nothing but zeros to come. An error among them is written over by the next result,
so that the loop is left with a pose that is whole, or cut, or not at all
(`RecordingReads`). Not at all is the program counter `spin`, with the mutex held. A
connection that is refused throws in a thread that catches nothing and ends the
process (`terminated`). Where a pose came from is a tag (`src` of `dm`); coordinates
play no part. A deviation is one number standing for
x, y and yaw. `HandleRecording` and `HandleLocalization` say only what matters to
the handoff (code 0 is never found in the user database, so nothing is posted for
it); the databases are in `ObservationLedger`. `MaxId` is `UINT32_MAX`, and the
instance has a code of that id.

The refinement to `TriggerMailbox` maps a package that is copied and not yet
turned to its turned form, counts main as rung from the copy on (the notification
follows under the same lock), and the capture as done when the id has been read.

### ObservationLedger

A trigger picks a code, a pose and the branch the mode selects. Every SQL statement
is a step. `MayFail` says which statements may fail in an instance, as
`sqlite3_exec` may, with the code going on; `Crashes` lets the process die and
start again at any point. `KeepRowsSize` is what the `keep_rows_size`
trigger does: the sub-select of up to 100 rows is compared as a scalar, so one row
is deleted per insert. `Fitted` is the sum of the rows found over the number asked
for, rounded to the unit of the database text (`std::to_string` keeps six
decimals), a tie falling on either side. `EndBranch` lets the localization branch
run for the same trigger, which happens when the mode changes during the recording
branch. `OperatorDecides` is the operator's edit; nothing in the program sets
`enable`. One number stands for x, y and yaw, so `Judge` compares on a line.

Three histories make the exceptions of the properties exact: `logged` and `lost` count
the rows of a code that went into the log and those that did not, `localized` holds
the codes the localization branch has retrieved.

The refinement to `CodeCatalogue` keeps of a row what the operator sees (`Entry`). In
the catalogue a code is learned once, counted one observation at a time, moved only by
a recommendation made while it is not enabled, and keeps its recommendation. `Observe`
leaves the enabled flag open, because `updateDataBase` writes back the one it
read before the calls to ROKIT: an edit of the operator in between is undone.

### BackupSchedule

`today` is the calendar, `written` and `whole` are config.yaml, `copied` is when the
backup was filled, or `Never`; `named` is whether the copy config.yaml names was made.
At first it was not: the config.yaml of the repository names a day in the past, and
no backup comes with it. The three
comparisons of `checkDate` are `Due`; the three identical rewrites are
`OpenConfig` (the `ofstream` empties the file) and `WriteConfig`. A start is over
within the day; the clock does not go back.

### RokitSession

`pc` names what a login is for and how far it got. `Granted` is ROKIT opening a
session: the answer may be lost, or come in pieces, which `writeCbLogIn` parses one
by one and does not understand; in both cases `answered` stays as it was. `NotGranted` is
a refusal or no connection. `Cut` is the emptied account.yaml, from which no start
is possible; it is the same order of writes as in config.yaml. `FileEdited` is the
manual edit of account.yaml after a password change (`main_logic.cpp:79-82`), which is
not verified; it may happen at any time, also between the two writes. `byHand`
remembers it, so that `StoredAccountWasGood` can speak of what the program itself
left there.

### Sockets

`Descriptors` hands out the lowest free number, as the kernel does, so that a number
closed by one thread is the next one another gets; `Fds` are those left for
connections (the listening sockets have theirs for good). `up` is the process:
`runtime_error` is caught by no thread.

`CustomerSocket` keeps a package's id. `ReceiveWhole` is a `recv()` that returns a
package, `ReceivePart` one that returns a part of one or the end of one and the front
of the next; what stands where the id should be is then any id of the instance or the
0 of the cleared buffer (`AnyCode`). Either way `Take` is what the loop makes of it.
`NoCode`, the `UINT32_MAX` that stands for no id yet, may be among the ids of the
reader: as the first one on a connection it is not noticed, and `ChangePlaces` says
so. `CustomerAcceptFails` sets `sockFd` to -1, after which no
action of the receiver is possible: `recv(-1)` fails, is logged and called again.

`DiagChannel` separates the test of `diagSockFd` from its use, and lets the use see
either value (`SendsOn`), as an unlocked variable may.

`BinaryInterface` has a client per user. `Failed` is what follows an address that did
not do: the next one (`walk`), another round (`Retries`, while `Index++ < retryAttempts`) or
the exception. `Socket` leaves `rc` and `Error` alone when `socket()` fails, as the code
does. The parts of a message are numbered, so that `ReadIsWhole` can say that each
ends up in its place. What `read()` fills is one message for `listenMode` and at 9011,
and one of six fields at 9008: after it `dmTrigger` reads on or is done with its client
(`ReadRest`), and after an error as well (`ReadError`). The `sleep(1)` between rounds takes no step of its own.

`Sockets` puts them side by side. Main either sends a diagnosis or has a pose client,
never both (`Diag`, `Binary`).

## 3. Runs

| Run | Question | Result |
|---|---|---|
| `TriggerHandoffSafety` | do the threads keep their promises in every interleaving, whatever the reads of a pose bring? | holds |
| `TriggerHandoffLiveness` | does a woken main get back to waiting, does a package get published, as long as no stream ends? | holds |
| `TriggerHandoffStreamClosed` | does a woken main get back to waiting when ROKIT closes or resets a stream? | violated |
| `TriggerHandoffPairing` | does an observation carry the deviation that came with its id, overtaken or not, in a mode that holds still? | violated |
| `LedgerFaults` | are counts, the log, fits, recommendations and enabled poses right over crashes, failures, eviction, code 0, both branches? is the user database the catalogue promised? | holds |
| `LedgerRepeatOnce` | is a code recommended once it was seen more often than `mapping_repeat_num`, if that is 1? | violated |
| `LedgerFitWithoutRows` | does a fit without rows leave the pose alone? (no process dies in this instance) | violated |
| `BackupCalendar` | from an installation without one: is a backup recent, and kept, over a year's turn, a leap day and a February without one? | holds |
| `BackupCrash` | can the program be started again wherever it died? | violated |
| `SessionSafety` | own sessions and good accounts, over lost answers, manual edits and crashes | holds |
| `SocketsSafety` | do the four threads get along with one table of descriptors, whatever arrives and however attempts end? | holds |
| `SocketsExhausted` | does the receiver go on whatever connections came before? | violated |

The violated runs are findings; each quotes in `PROJECT.json` the text it contradicts:

1. `thread_pool.cpp:229, 256`: an end of file on a pose stream spins for ever with the
   mutex held (README.md:85: no need to restart, whatever happens). At 9008 a reset
   does the same: the error is overwritten by the read after it, which returns 0.
2. `main_logic.cpp:170`: the observation posted pairs the id captured by `dmTrigger`
   with the deviation of a package that was published while the mutex was free; no
   change of mode is needed for it. `PairedUnlessOvertaken` says when this cannot happen: unless another package was
   published since the capture, or the mode changed, what is posted belongs together.
3. `main_logic.cpp:156`: with `mapping_repeat_num` 1 or 0 no code is recommended
   (main_logic.h:139: no boundary check is required): the second observation takes
   the count from 1 to 2 and past the number.
4. `database_controller.cpp:291`: zero rows are not an error of `sqlite3_exec`; the
   fit moves the code from where it was seen to the pose 0.
5. `database_controller.cpp:352`: config.yaml is emptied before it is written.
6. `thread_pool.cpp:174` (and 113): accepted connections are never closed; when no
   descriptor is left, `accept()` returns -1, and the receiver hears nothing any more
   (README.md:85). The shortest way there is by diagnostics connections, each of which
   overwrites the descriptor of the one before; code readers that leave do likewise.

### Bounds

* Handoff: two codes, one of them `UINT32_MAX`, beside the zero package; two
  deviations (one for liveness), so that a package can differ in either part. All
  outcomes of a read in `TriggerHandoffSafety`, `data` and `error` for liveness, and the
  `end` besides where a stream closes. The
  counters of the program are not in this model; no other bound is needed.
* Ledger: an ordinary code seen up to three times and code 0 seen once (`MaxObs`, 4 each
  in the two violated runs): more than the repeat number, so that the ordinary code is
  learned, fitted, enabled and seen again, and code 0 shows its special treatment. Two
  places. `MaxRow` 3, so that the log evicts after the fourth row; it stays the same over
  restarts, and the log starts empty, which `LogIsComplete` depends on. `LocErr` is 0: the
  two places are in or out of it. `MapRepeat` 2 is what config.yaml ships; `LocRepeat`
  is 3 (it ships 4), so that the modes differ.
* Backup: 30 days around a turn of the year, a leap day and months of 30 and 31 days,
  both ends of each month, and the February of a common year, over which a backup is
  overwritten soonest: made on January 31st, due on March 1st. The date config.yaml
  names at first is any of these days that is not in the future, without a backup. So
  29 days is the exact bound of `BackupIsKept`; with 30 it is violated.
* Session: two accounts (interchangeable, hence the symmetry) and four sessions; an edit
  by hand at any time.
* Sockets: two descriptors for four threads in `SocketsSafety`, so that every one of
  them finds the table exhausted; two addresses and one retry, so that each branch of
  the loop conditions is taken with a next address, a next round and neither; messages
  of two parts; two codes, one of them `UINT32_MAX`, and two packages a connection, so
  that a code changes, repeats, and comes back on the next connection. `SocketsExhausted` has six
  descriptors, two more than the four threads use at a time. The theorems hold for any
  number of each.

`BackupCalendar` sets `CHECK_DEADLOCK FALSE`, because a program with a cut config.yaml
really cannot be started any more, and the two runs of `MCSockets`, because the
exception of `Connect` really ends the process. Elsewhere deadlock is checked.

### Fairness

`FairSpec` of `TriggerHandoff` assumes strong fairness of the main thread's steps and
of the receiver's publication. `std::mutex` promises no fairness, but each thread
leaves the mutex free again and again for as long as it takes the other to get it:
main inside `wait()`, if it gets there, and the receiver inside `recv()`. That a thread which finds the
mutex free infinitely often gets it some time is the assumption. Nothing is assumed of
what comes from outside: packages, modes and spurious wakeups may stop. That no
stream of poses ends or is reset is an assumption of `TriggerHandoffLiveness`, made
visible by `ReadOutcomes`: with the `end` among them main may spin, as
`TriggerHandoffStreamClosed` shows. That a read returns at all is part of the fairness
of main's steps, and so is that libcurl's calls, which have no timeout, do.

`FairSpec` of `Sockets` assumes weak fairness of `Connecting`, that is of `socket()`,
`connect()` and the sleep of one second returning, and of nothing else: no message,
no connection from outside and no `read()` need ever come.

## 4. Proofs

All theorems are proved for every value of the constants, from the assumptions
named in the modules (`HandoffAssumption`, `LedgerAssumption`, `ScheduleAssumption`,
`SessionAssumption`, `DescriptorAssumption`, `CustomerAssumption`, `BinaryAssumption`),
which type the constants (and tell `NoCode` from the 0 of a cleared buffer, and `Nobody`
and `Cut` from accounts).

* `TriggerHandoffProofs`. `HandoffInv` is inductive. It says that the mutex is owned
  exactly in the critical sections (without it nothing else survives a step); that the
  buffer is a package and equals `*deviInfo` while it is being turned; that the
  deviation captured is still the one in `*deviInfo` when the id is read; that a
  publication under way is news; and, for each program counter of main, what a mode
  that has not moved implies about `dm` and the branches taken. From it follow
  `WakeMeansNews`, `OneDecisionInSteadyMode`, `PackageStableUnderLock` and, step by
  step, the refinement `ImplementsMailbox`. `PairedUnlessOvertaken` needs two parts
  of its own: until there is news, what was captured is what `*deviInfo` holds
  (`CaptureStands`), across the gap in which the mutex is free, and nothing is posted
  before the loop body (`PostedInBody`). Of the six reads of a 9008 message only the
  three ways they can end matter (`RecordingReadsCases`).
* `ObservationLedgerProofs`. `LedgerInv`: `RowsCoverCount` speaks of rows only, and is not
  inductive, because `Update` writes back what `*dmPtr` carries. `LogCovers`,
  `SloppyBelow` and `AsStored` say of `*dmPtr`, for each program counter between
  the retrieval and the update, what the update needs. They hold over `Crash`, over
  failing statements and over `OperatorDecides`. `AsStored` says that what `*dmPtr`
  carries continues the row it was read from (`Continues`: one observation more, no
  recommendation lost, another pose only when it is recommended and not enabled): with
  it each `Update` is an `Observe` or a `Recommend` of the catalogue, and each `UserAdd` a
  `Learn`. `FitHasItsRows` follows from the counters: `logged` and `lost` together cover
  what the fit divides by. `LogIsComplete` ties the counter to the rows themselves and
  is inductive by itself: `RowsOf` is the set of places of a code in the log, an append
  adds one place to one code (`AppendedPlaces`), and `KeepRowsSize` takes a row away
  only when that leaves the log full. Together they give `MeansAreOfObservations`: as
  long as the log is not full and has refused none of its rows, the mean of a code is
  taken over as many rows as it is divided by. `CountedIsRecommended` needs
  `MapRepeat >= 2` and `RecommendedInTime`, which carries the promise through `*dmPtr`.
* `BackupScheduleProofs`. `NotDueIsRecent` is the arithmetic: a date that `Due` passes
  over is at most 31 days back, by cases on the months and the leap day.
  `DateTellsTheTruth` says that config.yaml names the copy, except between the two
  writes or when the copy was missed. `BackupIsKept` is the arithmetic turned round:
  a date of this year that is `Due` is at least 29 days back (`DueIsLongAgo`), and what is
  due by a date is due by every earlier one of the year (`DueSooner`). The second is
  needed because starts may have died between the writes: the backup may be older than
  the date it was found due by, never younger (`DatesInOrder`), which holds at first
  because `Never` is before every date (`NeverIsFirst`).
* `RokitSessionProofs`. `AnswersAreNew`: an answer that is known is younger than the
  login and belongs to the account that logged in. `LogIn` establishes it by
  forgetting the answer before. What is about to be written to account.yaml is
  therefore proven, and an edit by hand takes no part in it.
* `SocketsProofs`. `SocketsInv`: `ClientsHoldTheirs` needs `HandleWhileConnected` (a client
  that reads or closes has a descriptor), which needs that a failed attempt resets
  `Handle`. `DiagStaysOnDiag` becomes inductive without its premise (`DiagNamesDiag`):
  `diagSockFd` and what main has seen of it name diagnostics connections at all times,
  because nobody closes one. That is also why they leak (finding 6). `PartsInPlace`
  says that what arrives next belongs behind what was read; `ReadIsWhole` follows.
  `PublishesEveryChange` asks for an increasing map from what was published onto the
  places where the received code changes; a repeated package leaves the map as it is and
  a new one extends it, because `idRecord` is what was received before, or `NoCode`
  before the first (`RecordIsLastReceived`). No assumption on the ids is needed. `AttemptsRunOut`: each step of a client that goes on
  connecting moves it up in the order (round, address, `socket` before `connect`), and
  rounds are bounded (`RetriesWithinLimit`), so that `Connect` makes at most
  `(RetryAttempts + 1) * Addresses` attempts.

Only model-checked: the three liveness properties, as fairness and ENABLED are out of
the prover's reach. `WokenIsHandled` and `PublicationGoesThrough` have no proof of
any kind; of `ConnectEnds`, `AttemptsRunOut` is the part that needs no fairness, and what
remains is that `socket()` and `connect()` return. That the finite order `Before` makes
every run of attempts end is an induction, which is not carried out either. The findings
are counterexamples of TLC. Every invariant and action property of a passing run is a
theorem.

## 5. Not modelled

* Set-up calls that fail (`bind`, `listen`, `setsockopt`) and end the process.
* The bits of the control mode and of a diagnosis: any mode may be reported, any
  diagnosis sent.
* The choice between an enforced and an uncertain seed (`rpc_client.cpp:258-275`): it is a
  function of `*locStatPtr` and `*rokitPosePtr`, and what can go wrong with it is that
  these belong to an earlier trigger, which `TriggerHandoff` tracks (`rokitId`).
* The JSON text; missing members of an answer, on which rapidjson asserts.
* The geometry: adding deviations to poses and negating them is taken as it stands.
* Columns of the self database that are never read back (cnt, sloppyCnt, recommend,
  enable, haveSloppy).
* Signal handling; it appears as a process that dies at any step. The handler runs
  `exit()` beside running threads, which has no defined outcome to model.
* Standard input, logging, third-party libraries.

## 6. Plan

Done, in the order of importance: the handoff with its abstract mailbox, the ledger
with its abstract catalogue, the backup, the session, the sockets and their
composition; the safety properties of each proved. Next:

1. Proofs: the corollaries of invariants already proved that a reader would ask for:
   what a recommendation is worth once a code has been localized with, and which of
   the mailbox's promises survive a pose stream at its end.
2. `SeedDecision`, if the freshness of its two inputs is to be followed beyond the code
   they were read for.
3. `AddOn`: handoff, ledger and session composed for one trigger, with what must hold
   from the package to the row.

Runs answering related questions about new modules will share an instance, as
`LedgerFaults`, `BackupCalendar` and `SocketsSafety` do.

# Expenses control: a TLA+ model of the app and of its SQLite Cloud client

The repository is an Android app that records shared expenses (`app/`), and the
client library it uses to copy them to a remote database (`sqlitecloud/`: Kotlin
over JNI over a C SDK). The modules here model the parts whose correctness
depends on order: calls that interleave, replies that come late, writes that
are interrupted. Paths below are relative to `src/`; `cpp/` stands for
`sqlitecloud/src/main/cpp/`, `SC` for `sqlitecloud/.../SQLiteCloud.kt`.

## 1. The system

| Component | State it keeps | Operations | What is hard, and what makes it correct |
| --- | --- | --- | --- |
| Cloud connection (`SQLiteCloud.kt`, `SQLiteCloudBridge.kt`, `cpp/sqlitecloud.cpp`, `cpp/sqcloud.c`) | the bridge's `connection` pointer, one `SQCloudConnection` struct per connect (socket, error code, cached UUID) | `connect`, `disconnect`, `execute`, `getClientUUID`, `compileQuery`, the functions of `SQLiteCloudVM` | No request ids: a reply is paired with the last command written. Timeouts and dropped sockets leave replies owed. Errors are kept in the struct and read back later. Correct: answer and error belong to the call, nothing uses a freed struct. |
| Pub/sub (`SC` 243-280, 500-620, `cpp/sqcloud.c` 347-442, 710-725) | second socket, a native thread, `channels`, `observers` | `listen`, the reader thread, its callback | A thread that dies leaves `pubsubfd` set, a set-up that fails half way too; observers are iterated on the native thread while callers add to them; the thread shares the error of the struct with the callers. Correct: observers hear each handled notification once and in order, and the end of the thread is noticed. |
| Native result objects (`cpp/sqcloud.c` 747-1348, 2474-2629) | the unfinished rowset `_chunk`, the arrays and buffers of its chunks | parse, concatenate chunks, read cells | Nested calls own the buffers that the unfinished rowset points to; errors between two chunks and in the middle of one. Correct: a rowset has the rows of one answer, arrays do not overflow, memory is freed once. |
| Virtual machine (`SQLiteCloudVM.kt`, `cpp/sqcloud.c` 3243-3672) | rowset, row index, finalized flag, last error | compile, bind, step, read a value, close | The struct mirrors a statement of the server, answers get lost, the struct is read after it was freed. Correct: steps walk the rows one by one, the mirror never believes a live statement finalized, a close leaves none behind. |
| Blob streaming (`SQLiteCloudBlobReadWrite.kt`, `SQLiteCloudBlobStructure.kt`, `SQLiteCloudBridge.kt` 276-463, `cpp/sqcloud.c` 3676-3800) | a handle of the server, offsets, sizes | sizes, read, update | Several commands per row, each of which can fail, with other clients between them; the offset of each chunk. Correct: it behaves like a table of byte strings, and leaves no handle open. |
| Upload and download (`DataHandler.kt`, `cpp/sqcloud.c` 1990-2130) | bytes read, progress | chunk callbacks | A callback's return value means abort or continue. |
| Configuration (`SQLiteCloudConfig.kt`) | connection parameters | parse a connection string | Pure parsing. |
| Local database (`data/`) | the Room `items` table | insert, update, delete, queries as flows | Lazy singletons; suspension points between queries. |
| Settings (`ui/home/JSonHandler.kt`, account and categories of the main screen) | `regularCategories.json`, the first-launch flag in shared preferences, `data`, WorkManager's record of the job | start, save, add category, set up account, schedule | The file is rewritten in place and the flag written late; the process can be killed at any step. Correct: what the user sees while the app is idle is in the file, and a later launch gets the last completed save. |
| Synchronisation (`ui/sync/Sync.kt`, `SyncWorker.kt`) | `connectionString`, two coroutines per run, the certificate file | `doWork`, `selectLatest`, `isRemoteEmpty` | Coroutines nobody waits for, which share a string and a file. Correct: each asks the database of its own run, and a run that fails has launched none. |
| Statistics (`ui/stats/StatisticsViewModel.kt`, the screens that call it) | per back-stack entry: sums, averages, category figures, periods, start date; shared: the list of categories | `updateStatistics`, `updateSelectedPeriod` | Coroutines that suspend at each query while others write the same state, the table or the list. Correct: derived figures fit the sums beside them, an undisturbed update shows the table, no order of calls throws. |
| Entry of an expense (`ui/home/MainScreenViewModel.kt`, `MainScreen.kt`, `NonRegularScreen.kt`) | input fields | type, choose, submit | Double taps, a list whose keys must be unique, validation before insertion. |
| Other screens, theme, navigation, dependency injection | none of their own | drawing | Not modelled: wiring and layout. |
| libressl, lz4, Gradle, resources | | | Third-party code and data, not modelled. |

The parts meet in three places. The main screen's view model asks WorkManager to
run `SyncWorker`. Its `doWork` gives the connection string to the singleton `Sync`
and calls `selectLatest` and `isRemoteEmpty`, each of which makes a `SQLiteCloud`,
launches a coroutine that connects and executes one query, and returns at once
(`Sync.synchronize` is not called: `SyncWorker.kt` 43 is commented out). The view models share the Room table
through flows. The cloud client's native threads call back into Kotlin.

## 2. Plan

Done:

1. `CloudConnection` (`MCCloudConnection`, `CloudConnectionProofs`): the
   request/reply core, because everything remote goes through it.
2. `Settings` (`MCSettings`, `SettingsProofs`): the only state the app writes
   itself, and what a kill leaves of it.
3. `Statistics` (`MCStatistics`, `StatisticsProofs`): the coroutines of several
   view models.
4. `RowsetChunks` (`MCRowsetChunks`, `RowsetChunksProofs`): how an answer in
   chunks becomes a rowset.
5. `CloudVM` (`MCCloudVM`, `CloudVMProofs`): a prepared statement and its native mirror.
6. `BlobStore`, the abstract table of byte strings, and `CloudBlob`
   (`MCCloudBlob`, `CloudBlobProofs`), which is shown to implement it.
7. `PubSub` (`MCPubSub`, `PubSubProofs`): the second socket, its thread and the observers.
8. `Synchronisation` (`MCSynchronisation`, `SynchronisationProofs`): the worker
   and its coroutines.

The modules meet at three interfaces. `RowsetChunks`, `CloudVM`, `CloudBlob` and
`PubSub` take from `CloudConnection` what it shows of a command: it is answered,
or fails and leaves an error that bars the connection from the calls that check,
and it clears the error when it begins. `Settings` says with which string the
work of `Synchronisation` is scheduled. `Statistics` reads the list of categories
that `Settings` saves.

Every passing run checks what the code does keep. Where the code breaks what one of
its comments promises, a run states the comment and TLC shows the behaviour that
contradicts it: `settings_torn`, `stats_new_category`, `blob_chunks` and
`pubsub_all_tables`. The other disagreements that came up while modelling are told in
the sections below, each at its line.

Worth adding: a connection specified as a queue of calls each answered once, and
uploads once their callbacks are defined.

## 3. CloudConnection

`connection` is the field of `SQLiteCloudBridge`. A *handle* is one
`SQCloudConnection` struct; `heap`, `err`, `link`, `wire`, `replies` and `uuid`
are its life, its error code, its socket (is the peer there, commands not yet
answered, replies not yet read) and its cached UUID. A *caller* is a coroutine
inside one suspending function; `pc` and `op` say where it is, `vm` the struct its
`SQLiteCloudVM` points to. A *ticket* is the position of a command in the order of
all commands written; the code keeps no such number, and that is the point: the
tickets let the properties say whose answer was returned. `outcome` records what a
call returned or threw, with the ticket it asked with and the ticket it got.
`reused` and `unready` are history: the structs on which a VM has written over a
network error, and those whose connection or configuration has failed.

| Action | Code |
| --- | --- |
| `BeginConnect`, `Open`, `Assign`, `ReturnConfig` | `SC` 145-201, `SQCloudConnect`, `internal_connect`, `internal_connect_apply_config` |
| `BeginGated`, `BeginRefused` | `ensureConnectedOrThrow` (`SC` 237) lets a call through or throws |
| `BeginVM`, `ReleaseVM`, `ReturnStep`, `ReturnBind`, `ReturnFinalize` | the functions of `SQLiteCloudVM`, which have no such check: `step`, `bindValue`, `bindParameterIndex`, `bindParameterName` and `close` |
| `Send`, `Receive`, `ReceiveFails` | `internal_run_command`: clear the error, write, read one reply; end of file or receive timeout |
| `CachedUuid`, `ReturnUuid` | `SQCloudUUID` |
| `ReturnExecute`, `ReturnCompile`, `ReturnPubSubOnly` | what each Kotlin function does with the result, error read back included |
| `Close`, `Clear` | `SQCloudDisconnect`, then `connection = null` |
| `Crash` | a native call dereferences a null or freed struct |
| `ServerReply`, `ServerDrop` | the server (external): answers each socket in order, possibly late, or closes it |

Replies: `ok` (any result), `sqlerr` (an error message), `malformed` (a header
the client rejects), `redirect` (`CMD_COMMAND`, a command the client must run at
once), `reconnect` and `unknown` (`CMD_RECONNECT` and a type the parser does not
know, `cpp/sqcloud.c` 1346-1347: NULL and no error). Reading one reply is one step:
the code reads the header byte by byte and then exactly the body. A timeout in the
middle of a reply is modelled as one before it. What then is left on the socket, a
whole reply or the rest of one, only the functions of a VM can come to read, since
the network error bars every other call; the properties below say nothing of a
struct on which they have. (`RowsetChunks` has the rests.)
When two callers read the same socket at the same time they could also split one
reply between them; the model leaves that out, which is why the run takes turns
(`Serialized = TRUE`).

### The run

`conn` has one caller with all nine operations, two structs, every reply kind,
configuration with AUTH, PUBSUB ONLY (`Readonly`), a receive timeout and five
commands. It shows:

| Property | Says |
| --- | --- |
| `AnswerMatchesCommand`, `ErrorIsOwn`, `UuidIsAnAnswer` | answers, thrown errors and the cached UUID belong to the command that asked |
| `StaleReplyIsFenced` | a socket that owes a reply is fenced by a network error |
| `OnlyVMsDangle` | only the functions of a VM can hand a freed struct to the native code |
| `FailedConnectLeavesNothing` | a `connect()` that throws has freed its struct and left no connection |
| `ConnectReportsFailure` | a `connect()` that returns has had no command fail |
| `EveryCallReturns` | every call ends |

The first four do not speak of the structs in `reused`. A function of a VM does not
look at the error that bars the connection (`SQLiteCloudVM.kt` 66-92, 174-179,
310-331): after a timeout it clears the error, writes its command and takes the late
answer to the earlier one, and from then on every answer may belong to another
command. With `\ reused` taken out, TLC finds this for each of `step`, `bind`,
`parameter` and `finalize`.

Two more things follow from the model and are stated by no property.
`disconnect()` throws and closes nothing when the last command failed
(`ensureConnectedOrThrow`), although `SC` 206 says that it closes the connection and
releases its resources; a later `connect()` overwrites the pointer, and struct and
socket are lost. And a `connect()` whose AUTH or PUBSUB ONLY is answered with
`reconnect` or `unknown` returns normally, since success is "no error":
`ConnectReportsFailure` speaks of errors and lost replies only.

Bounds. `MaxCommands` limits the commands ever written, `Handles` the structs
ever allocated. Two structs are enough for a reconnect after a failure, which is
the only way two structs matter; five commands are enough for AUTH and PUBSUB ONLY, a
timed out command, the one that meets its late reply, and one more. Calls stop when
the bounds are reached, and a plain socket without a timeout may wait for ever on a
silent server, so the run says `CHECK_DEADLOCK FALSE`.

Fairness. Weak fairness of the steps of a call that has begun: the IO pool runs
every ready coroutine, and the kernel delivers an end of file or a receive
timeout. The server gets none. `EveryCallReturns` holds because of the timeout,
and only on a plain socket: with TLS, `internal_socket_read_nbytes` reads again
on `TLS_WANT_POLLIN`, which is how libtls reports a receive timeout.

Turn taking is what the app does: each coroutine of `Sync` makes a `SQLiteCloud`
of its own, so each connection has one caller, one call after the other. The
library allows more: `SC` 18 says that it "acts as an actor", but nothing
serialises its functions, and with two callers and `Serialized = FALSE` TLC finds
one call returning the answer to another's command.

### Proofs

`CloudConnectionProofs` shows all the safety properties of the run for any
number of callers, structs and commands, any set of replies and operations, and any
configuration. Types (`TypeCorrect`) need no condition; the others hold
`OneAtATime`: calls are serialized, or there is one caller.

None of the properties is inductive. What survives whatever a VM does is the
structure `SInv`: at most one call is under way (`OneCall`), the bridge's pointer
leads to a live struct (`FieldIsLive`), VMs point to structs that were allocated
(`Built`), and each place of a call tells which struct it holds and whether it is
live (`Place`). It carries `VMsDangle` and `FailedConnectsLeaveNothing`. What a
receiver finds on the socket depends on what earlier calls left there, so `PInv`
adds that a struct which is not live has neither socket nor replies
(`DeadIsQuiet`), that a socket owes nothing, is barred by a network error or is
being read (`Fence`), and what is owed to a call and has been read by it
(`Pairing`), each but where a VM has written over an error: `AnswersMatch`,
`ErrorsAreOwn`, `StaleRepliesFenced`. `UuidInv` follows the ticket of the UUID from
the command to the cache (`CachedUuidIsAnAnswer`). `ReportInv` says that the struct
of a connecting call is its own, and holds the error once anything has failed
(`ConnectsReportFailure`).

Only model-checked: `EveryCallReturns` (liveness).

## 4. Settings

`file` is absent, torn or whole; `firstLaunch` is the flag on disk and `applied`
a write of it that is queued; `data` is `JSonHandler.data`, whose list the main
screen shares; `account` is what the main screen's view model holds; `work` is
WorkManager's record (external, it survives a kill) and `request` what has been
asked of it and not recorded. `saved` is a history variable: the data of the last
save that completed. `pc` is the place of the main thread, on which all of this runs.

| Action | Code |
| --- | --- |
| `Start`, `LoadAssets`, `LoadFile`, `LoadFails` | `JSonHandler.loadJsonData`, called by the constructor of the singleton |
| `Truncate`, `Write` | `saveToFile`: `FileOutputStream(file)`, then `write` |
| `ApplyFlag`, `FlushFlag` | `apply()` and the later write by SharedPreferences |
| `Compose` | `MainScreen` 76-89: `readAccountInfo` if an account is set up, `scheduleSync` with `KEEP` |
| `Enqueue` | a thread of WorkManager records the work (external): `enqueueUniquePeriodicWork` has returned long before |
| `NewMainScreen` | navigation to the main screen: a new view model |
| `TypeUser`, `TypeConnection`, `SubmitAccount` | the account dialog |
| `AddCategory` | `addNewRegularCat` |
| `Kill` | the process ends, at any step |

Between two steps of the code on the main thread only a kill, the flush of the
flag or the recording of the work can come, so a save is two steps and everything
else one. A write that was cut off in the middle is a torn file. The initial
categories are left out: they never change. `updateUserName` cuts long names, which
is why no user can be called `user1`. Of several requests that are waiting only the
first matters, since `KEEP` drops the others.

| Run | Shows |
| --- | --- |
| `settings` | the file equals the data whenever the user can act; the flag never precedes the file; a launch that reads the file gets the last completed save; the work is scheduled with nothing that is merely being typed |
| `settings_torn` | violation: `JSonHandler.kt` 48 writes the file "to internal storage for future use", and a kill inside a save leaves a file no later launch can decode |

`OnlyStoredIsScheduled` is about the drawing that asks for the work each time the
text field of the connection string changes. What saves it is the order of
requests and `KEEP`: the first request of a process is made before anything can be
typed, with the empty string or the account in the file. Hence, too, the work
usually is scheduled with the empty string, and keeps it: then
`SQLiteCloudConfig.fromString("")` throws and `doWork` returns failure. It gets the
user's string only when every request made before the account was stored was lost
to a kill, and the next launch draws the stored account.

One more thing follows and is stated by no property. `apply()` only queues the flag: a
kill before it is written makes the next launch a first launch again, which
overwrites what was saved with the assets. `FlagAfterFile` says what order does
hold, and `RestartKeepsData` speaks of the launches that read the file.

Bounds: two names, two connection strings (one of them the default, which keeps
the dialog open), two categories added, three kills: one in the first launch, one
in a save and one in a load. No run disables the deadlock check: the app can
always be drawn again or started.

`SettingsProofs` shows for all names, strings and numbers of kills types and the four
properties of `settings`. `FlagAfterFile` and `SavedWhenIdle` are not
inductive; `FileMatchesPlace` adds what the file holds at each place of the main
thread and that a whole file always holds `saved`. `OnlyStoredIsScheduled` needs
`Scheduling`: a process that has made no request, with no work recorded, has nothing
typed (`Unasked`), and a string that may get into the work is that of a stored
account which no later launch replaces (`Stored`).

## 5. Statistics

`stack` is the back stack of the navigation: every `navigate` pushes an entry, and
each entry has a `StatisticsViewModel` of its own. An entry holds the sums, the
category figures (`stats`), the periods, the first month and what its coroutines
are doing. `table` is the Room table, `writes` the insertions and deletions that
Room has not made yet, `categories` the one list all view models share by
reference (without the two entries the loops skip).

| Action | Code |
| --- | --- |
| `Sum` | one query of `updateStatistics` (341-364) with what is computed up to the next |
| `Category` | one query of a loop of `updateCategoryStats` (213-234, 261-284) |
| `SelectPeriod` | a chip of the statistics screen: `updateSelectedPeriod` |
| `Submit`, `Delete` | the buttons that insert and delete |
| `Commit`, `Drop` | Room makes the write; then `updateStatistics()`, or navigation from the other submit, if the screen is still there |
| `AddCategory` | `addNewRegularCat`, from the main screen |
| `Navigate`, `Back` | the navigation graph and the system's back |

A query and the resumption with its answer are one step; answers that overtake
each other are steps in the other order. An answer that was read before a write and
resumes after a newer one is left out; the properties that compare with the table
speak of view models during whose update there was no write. Leaving a screen cancels
the coroutines of its composition at once, those of the view model go on. Dates are
months, amounts naturals, and a quotient is kept as its two operands. The settings
screen is left out because it touches none of this state. The entries are a little
more liberal than the screens: the screen of all expenses has no
`StatisticsViewModel`, and offers no row to delete; the model gives it both, which
adds behaviours and takes none away.

| Run | Instance | Shows |
| --- | --- | --- |
| `stats` | two entries, one write, one new category, two coroutines each | types; derived figures fit the sums shown, however updates overlap; an undisturbed update shows the table; figures of two periods are never mixed |
| `stats_new_category` | three entries, one new category, one coroutine per entry | violation: `StatisticsViewModel.kt` 274 says "Create a new instance if it doesn't exist"; choosing a month on an older statistics screen, after a category was added above it, throws at line 267, before that line is reached |

The amounts are powers of two, so a sum tells which rows are in it. Three rows
cover the four queries' conditions (regular or not, income or not, this month or
before); three entries are needed to come back to a statistics screen after the
main screen was used above it. The other way a new category can end the app is a
`ConcurrentModificationException` at line 217: the list grows under a loop that is
suspended in a query. The app rests when the bounds are reached or it
has crashed, so these runs say `CHECK_DEADLOCK FALSE`.

### Proofs

`StatisticsProofs` shows all four properties of `stats` for any rows,
categories, number of coroutines, depth of the back stack and number of writes,
from `StatisticsAssumption`. Of the constants it asks what the app gives: the
table is finite, no row is of a month to come, `"Grocery"` is one of the asset's categories
(`assets/regularCategories.json`; every loop's map starts with it, lines 214 and 262), and
a view model can run a coroutine at all.

`DerivedAgree` speaks of settled view models only; the inductive invariant
`IInv` says what an unsettled one may still have wrong. A balance or
a sum of the regular rest disagrees only while some coroutine stands between the
query that changes the operand and the one that recomputes (`Fits`: no
coroutine at queries 3-4, at 6, at 2-7), and the coroutine of a selection never
stands at a query of the script (`Placed`). `Answered` carries this over each of
the seven queries; the other actions move no running query (`Undisturbed`).

The others rest on `FullInv`, which adds to `IInv` one conjunct per idea for
each entry (`EntryOK`), and what surrounds the entries (`Outer`, `Crashes`):

- `Known`: a loop under way goes over a list that has only grown since, and has a
  figure for each category it has passed; once an update has ended, every
  category of the asset has its figures.
- `Current`: what query `q` reads is what the table has, unless an update still
  stands at `q` or before it. With none left the seven sums are the table's, and the
  balances and rests are by `IInv`: `FreshShowsTable`.
- `Orderly`: a period can be chosen on the statistics screen only, and only after
  its one update, so a selection never runs beside an update of its own view model.
- `Mapped`: the map shown is of one period, and so is, up to its position, each
  map a loop is filling; a month's loop has copied averages that are right, whichever
  other selection replaces the map meanwhile: `OnePeriodShown`.
- `WritesOK`: a write whose coroutine will resume is that of the screen on top,
  which is not the statistics, so no second update starts there.

`FreshShowsTable` compares sums over sets of rows. `AmountSplits` (a sum is the sum of
a part and of the rest) is proved by induction over the subsets of `Items`, and
`FirstMonth` is shown to be a lower bound of the months of a table that is not empty.

## 6. RowsetChunks

A large answer comes in chunks. `internal_parse_rowset_chunck` (`cpp/sqcloud.c`
1023-1166) keeps the unfinished rowset in `connection->_chunk` and reads the next
chunk before it returns, so the calls of `internal_parse_buffer` nest, each with a
buffer of its own. When the innermost returns NULL, every call of the nest frees its
buffer (1319), and `_chunk` still points to them. `chunk` is that rowset with its two
arrays and their capacities, `frames` the buffers of the nest, `freed` and `twice`
what has happened to buffers. A packet knows the answer it belongs to; the code does
not, and the properties need it. `unfenced` is history: an unguarded command has been
made in spite of an error.

| Action | Code |
| --- | --- |
| `Command(guarded)` | `internal_run_command` from a function that `ensureConnectedOrThrow` guards, or from one of `SQLiteCloudVM`, which nothing guards |
| `FirstChunk`, `NextChunk`, `EndChunk` | `internal_parse_rowset_chunck` with index 1, a later index, the end chunk |
| `RoomForBuffers`, `RoomForRows` | the two "check if a resize is needed" (1099-1128) |
| `Overrun` | the rows of a chunk are written beyond the array of values |
| `ErrorReply`, `OtherReply` | `internal_parse_buffer` with `CMD_ERROR` or another type |
| `ReadFails` | `internal_socket_read` fails: end of file or receive timeout, between two packets or within one |
| `RestReply` | what a timeout has left of a packet is read as if it began a reply |
| `Connect` | a new struct |

The server (external) puts whole answers on the socket, which the client reads at its
own pace; a failed read may therefore leave any tail of an answer behind, and of the
packet it was in a *rest* without its beginning. In a rest the client sees a length
where there is none, so it may be taken for a value, a malformed reply or one of an
unknown type, and reading may stop anywhere behind it. That a cell looks like the
header of a chunk is left out. Failing allocations (`abort_rowset`) are left out.

The array of values is doubled once per chunk, whatever number of rows the server
announces (1122), so a later chunk with more rows than there is room for overflows
it. `Overrun` is that step; nothing can be said of what follows, so it is the last.

Run `chunks` (three commands, answers of up to three chunks of none or three rows,
first capacities of two buffers and one spare row, so that both arrays grow and the
second can overflow) shows:

| Property | Says |
| --- | --- |
| `InBounds` | the arrays have room, but for a chunk after the first of more than `DEFAULT_CHUNK_MINROWS` rows |
| `RowsetIsOneAnswer` | a rowset returned is exactly the answer to its command |
| `OnlyVMsReuseBuffers` | no buffer is freed twice and no freed memory returned |
| `PartialIsBarred` | a rowset cut off is barred by the error that cut it off |
| `NoStrayChunk` | the branch "this should never happen" (1039) never does |

All but the first stop at an unguarded command that has gone on over an error:
from then on rests and chunks of an earlier answer are read, freed rows can be
returned, and line 1039 is reached. The caller stops at the bound on commands or at
an overflow, so deadlock is not checked.

`RowsetChunksProofs` shows these and types for answers of any number of chunks of
any numbers of rows, any capacities and any number of commands. What the capacities
are worth against the chunks taken is `ChunkOK`; `OverrunOK` says that what
overflows is more than the smallest array has to spare. As long as no unguarded
command has gone on in spite of an error, the buffers of the unfinished rowset are
those of the nested calls and none is freed (`Fence`), and the socket holds nothing
but the rest of the answer that is awaited, or an error bars it (`Flow`). There
`FlowOf` says that the packets are in order (each chunk begins where the one before
it ends, an end chunk comes after as many rows as the answer has), and
`HeadOK` that the first packet begins the answer or goes on with the one whose first
rows, and no others, are in `_chunk`. That the server's answers have this shape is a
fact about the recursive functions `Before` and `Total`; it is proved by induction
over the number of chunks, in the form `Induction`, which says of a set what is
usually said of a predicate and follows from the well-foundedness of the naturals.

## 7. CloudVM

`SQLiteCloudVM` wraps an `SQCloudVM` struct, which mirrors a statement the server
keeps. `life`, `result`, `rowindex`, `finalized`, `verr` are the struct; `stmt` is
the server's side: `prepared`, `finalized`, or `adrift` when `VM COMPILE` was
answered with a rowset, which does not carry the index, so that the struct sends the
commands for this statement to another.

| Action | Code |
| --- | --- |
| `Compile` | `compileQuery`, `SQCloudVMCompile` (`cpp/sqcloud.c` 3330-3374) |
| `Bind` | the bind functions of `SQLiteCloudVM.kt` and `SQCloudVMBind...` |
| `NextRow`, `Step` | `SQCloudVMStep` on a rowset it has, or asking the server |
| `GetBlob` | `blobValue`, which wraps the memory of the result |
| `Close` | `close`, `SQCloudVMClose`, `vmError` |

Each command may be refused, or carried out with its answer lost. Run `vm` (seven
calls, rowsets of zero to two rows) shows that the row read is the one the steps
lead to, never one past the end (`RowsFollowSteps`); that the struct never calls a
statement finalized that the server still holds under its index, so a `close()` that
returns leaves none behind (`HeldIsFinalized`); and that a blob value outlives its
result only after an error or a close (`BlobOutlivedOnlyByFailure`). A close that
fails reads the struct after freeing it; what comes of that is the outcome
`undefined`. Seven calls are one compile, a rowset stepped past its end, a failure
and a close, after which the caller stops (`CHECK_DEADLOCK FALSE`). The other column
functions read the same cell as `GetBlob` and copy it.

`SQCloudVMStep` sets `finalized` whenever it gets rows (3421), and the model takes the
server to have finalized the statement then. About an `adrift` statement
`HeldIsFinalized` says nothing: its `close()` finalizes another statement or none and
returns, although `SQLiteCloudVM.kt` 166-167 says that it finalizes the VM.

`CloudVMProofs` shows all of these and types for
rowsets of any length and any number of calls. Beside them the invariant needs that
nothing has happened before there is a struct (`Blank`) and that without an error a
blob value belongs to the rowset the struct holds, which `step` keeps
(`BlobOfRowset`).

## 8. BlobStore and CloudBlob

`BlobStore` is the abstract specification: a table of byte strings, read and
replaced row by row by one call among other clients. `CloudBlob` has the commands:
each action is one of `BLOB OPEN`, `REOPEN`, `BYTES`, `READ`, `WRITE`, `CLOSE` or the
`UPDATE ... zeroblob()` of `updateBlob`, with the Kotlin and native code up to the
next. `cursor` is the server's handle (external): SQLite refuses reads and writes
through a handle whose row has been written since it was opened. Each command may be
refused, its answer may be lost, and where the code looks at the type of the answer,
it may be of another type (`"other"`), which leaves no error.

| Action | Code |
| --- | --- |
| `Begin`, `Refused`, `NoRows` | `blobFieldSizes`, `readBlob`, `updateBlob` of `SC`, and `SQLiteCloudBridge.kt` 276-463 |
| `Open`, `Reopen`, `Again` | `openBlob`, `reopenBlobIfNeeded`, the reopening in `updateBlob` |
| `Bytes`, with `WithSizes`, `ToRead`, `ToUpdate`, `ToWrite` | `blobFieldSize` and what each function does with the answer |
| `Expand` | `updateBlob` 399-417 |
| `ReadChunk`, `WriteChunk` | the loops of `SQLiteCloudBlobReadWrite.kt`, chunk sizes of `SQLiteCloudBlobStructure.kt` |
| `Close`, `CloseThrow` | `closeBlob` |
| `Reconnect` | `connect()` after an error |
| `Other` | another client |

The refinement mapping takes `store`, `results` and `outcome` as they are, `seen` is
the field of the handle, and `work` is the call under way. Under it most commands
stutter; `Open` is a look, `Expand` a clear, the last `WriteChunk` a put. The mapping
shows the *plain* calls only, the reads and updates whose rows are no wider than the
threshold, so that no field is cut into chunks; while any other call runs, the
abstract table sees no call.

| Run | Instance | Shows |
| --- | --- | --- |
| `blob` | four rows of up to three bytes, ten calls, with and without chunks, for buffers, files and missing files | `ImplementsStore` (the refinement); `ChunksAdvance`: each round of the loops moves bytes; `HandlesAreClosed` |
| `blob_chunks` | a field above the threshold | violation: `SC` 730 says of `readBlob` that it "returns the BLOB data", but `nativeReadBlob` passes offset 0 for each chunk (`cpp/sqlitecloud.cpp` 497), so a blob read in two chunks is its first chunk twice |

`HandlesAreClosed`: while the connection can be used, the server holds no handle of
an earlier call. Nearly every exception skips `closeBlob`, but the error that was
thrown bars the connection as well. Three exceptions leave no error behind, and with
them a handle on a usable connection: reading into a file (a channel opened for
reading only cannot be mapped for writing), an update from a file that is not there
(`SQLiteCloudBridge.kt` 394, after `BLOB OPEN`), and a read whose `BLOB BYTES` or
`BLOB READ` was answered with another type (355-358). The property names them
(`Fragile`, `odd`) and holds of every other call.

The chunks advance when the threshold is at least the number of parts, which is so in
the code (1 MB and 20). The calls of the run have a threshold of two bytes, two parts
and a field of three bytes, which takes several rounds with a shorter last one. The
calls stop where nothing more can be begun, so deadlock is not checked.

What the model shows and `BlobStore` does not promise: `updateBlob` makes room with
the size it has read a command earlier, so when another client writes a longer value
in between, the `UPDATE` cuts it to the data's length. What the documentation
promises and the code does not keep:

- `blobFieldSizes` returns -1 for a row whose `BLOB BYTES` failed or was answered
  with another type, although `SC` 705-711 promises the sizes or an exception. Calls
  for sizes are therefore not among those the abstract table knows.
- `updateBlob` with data shorter than the field leaves the field's tail, although `SC`
  773 says that the data is replaced. The rows of `blob` that are updated are no
  wider than the data, which is the condition `Fills` of the theorem.

### Proofs

`CloudBlobProofs` shows for any table, calls and bytes (`Octets`) the types, which
include that the loops of `readRow` and `readFromBuffer` stay within their buffers
(`TypeCorrect`), `UsableHandlesAreClosed` and `LoopsAdvance`, whatever the sizes of
the blobs. The invariant adds where a call is in its rows (`Progress`), that the
handle is that of the row the call is at (`OnRow`), and which handles may be open at
each place (`HandlesHeld`). `WholeBlobsImplementStore` is the refinement as a theorem:
if no field is ever wider than its row's `Width` and every update is plain and fills
its rows (`Fills`), every step of `CloudBlob` is a step of `BlobStore` or a stutter.
The condition makes each loop of a plain call take one round (`OneRound`), and it is
necessary: run `blob_chunks` is the counterexample beyond it.

## 9. PubSub

`pubsubfd` and `reader` are the second socket and its thread, `err` the error code
both threads write, `observers` the list of `SC`, `loop` the iteration of the
callback over it. `wire` and `handled` are the notifications; `masked` is history: a
command has cleared an error of the reader.

| Action | Code |
| --- | --- |
| `Connect`, `Disconnect` | `SC` 145-235, as far as pub/sub is concerned |
| `Listen`, `ListenFails`, `AlreadySetUp`, `Setup`, `SetupSilent`, `SetupFails`, `AddObserver` | `listen`, `execute`, `internal_setup_pubsub` (`cpp/sqcloud.c` 710-725) |
| `OtherCommand` | every other command, checked or not: it clears the error too (678) |
| `ReadMessage`, `ReadTogether`, `ReaderEnds` | `pubsub_thread` (347-442): one message, more than one in a read, the end |
| `CallObserver`, `CallbackReturns`, `Modification` | the callback of `setupPubSubCallback` and its `forEach` |
| `Crash` | undecodable payloads, the callback on a foreign `JNIEnv`, an orphaned thread in freed memory |
| `Publish` | the server (external) |

Undefined behaviour is a choice: the process ends or goes on. So it is with the
overflow of 410-419, when a read that brings more than one message is copied to a
buffer of the length of the first. `SetupSilent` is a `listen()` that succeeds without
a reader: PAUTH is answered with something other than OK, and that result is returned
(718), or `pthread_create` fails and nobody looks (719).

| Run | Shows |
| --- | --- |
| `pubsub` | `ObserversHearAll`: between two callbacks every observer of a channel or a table has got each notification of it that was handled since it was added, once and in order. `EndIsNoticed`: when the reader has ended, the next checked call is refused, unless a command has wiped the error out |
| `pubsub_all_tables` | violation: `SC` 528-530 says of the table `*` "you'll start receiving notifications from all the tables inside the current database"; the callback compares the observer's name `*` with the name of the table that was written, so such an observer is never called |

Both with two callers, a channel, a table and all tables, two notifications, two
subscriptions and two connects. Two connects are one reconnect, two callers are enough
for a `listen()` under way while the reader iterates, two notifications for one
handled and one together with another. Callers and channels are interchangeable
(`Interchangeable`). The program stops when it has ended or the bounds are reached, so
deadlock is not checked.

What wipes the error of the reader out is any command: one that was checked before
the reader ended, a `listen()` or an `execute()`, or a function of a VM, which never
is. No property says that what arrives is read: a reader that gets a
second message with the first goes on reading and delivers nothing any more
(`"stuck"`), and under TLS, the default, the rest of a notification longer than the
2048 bytes of one read stays in libtls while the thread waits in `select()`. Nor does
one say that a subscription has a reader, because of `SetupSilent` and of a
`listen()` after `SetupFails`.

`PubSubProofs` shows for any callers, channels, observers and messages: types,
`EndsAreNoticed` and `EveryObserverHearsAll`. `LoopHasMessage` keeps the callback
typed; `EndIsRecorded` says that the error the end has left is the reader's own until
a command clears it. For `ObserversHearAll` the invariant `HeardOK` says what the
observers have got while a callback is under way: those whose turn is still to come
lack the last notification, those that were added meanwhile begin after it, and the
iteration never skips one of the first without ending the process. What is heard is a
recursive function (`Heard`) of the notifications handled; its recurrence is proved by
induction as in section 6.

`notify` and `unsubscribe` are not modelled: `notify` is one more command, and
nothing calls `unsubscribe` with an observer it could find. A `connect()` over a
struct whose reader still runs is left out.

## 10. Synchronisation

`SyncWorker.doWork` stores the connection string in the singleton `Sync` and calls two
functions of it, one after the other. Each parses the string, makes a `SQLiteCloud`,
whose constructor writes the root certificate to a file unless the file exists,
launches a coroutine on `Dispatchers.IO` and returns. `at` is the function `doWork` is
at, `task` and `config` the coroutines of each run and the strings they were made
with, `verdict` what each run has reported.

| Action | Code |
| --- | --- |
| `StartWithout`, `Start` | `SyncWorker.doWork` without and with a connection string, `setConnection` |
| `Launch`, `LaunchThrows`, `WritesCertificate` | the parts of `selectLatest` and `isRemoteEmpty` before and with their `launch`, `init` of `SC` (71-74), the `catch` of `doWork` |
| `Begin`, `Connected`, `Answered` | the two coroutines: a thread of the pool, `connect`, `execute` |
| `Fails`, `Killed` | an exception nothing catches, or the system, ends the process |
| `Restart` | a new process |

Run `sync` (three runs of the worker, two good strings, a bad one and none) shows that
a coroutine talks to the database of its own run, although a later run overwrites the
string they share (`OwnConnection`), and that a run that has reported has launched
both coroutines or neither (`AllOrNothing`). The second is not for free: `selectLatest`
has launched its coroutine when `isRemoteEmpty` begins, which parses the same string
and makes another `SQLiteCloud`. It can fail only where the first has failed, because
the certificate file exists by then. Neither says that anything comes of the
coroutines: `doWork` reports success before they have run. Three runs give a
failure, a success and one whose coroutines are overtaken by the next. The worker
stops at the bound on runs, so deadlock is not checked.

`SynchronisationProofs` shows the two properties and types for any number of runs and
any strings (`OwnConnections`, `BothOrNone`, `TypeCorrect`). `NotBegun`, that a run
which has not begun has launched nothing, is what a new run needs to know of the
coroutines it launches; `Underway` ties the shared string to the run under way, and
`Progress` says which coroutines exist, and that the certificate does, between its two
functions.

Nothing says that a coroutine ends. The connection string sets no timeout unless the
user writes one, and then nothing ends a read; `isConnected` moreover blocks its
thread (`runBlocking`, `SC` 86) until another thread of the same pool has run the
check. The threads of `Dispatchers.IO` belong to the library and are not modelled.

Section 4 says with which string the work is scheduled: usually with the empty
one, with which every run fails.

## 11. What is not modelled

- Third-party code: libressl and lz4 under `cpp/` are 99 of 100 lines of C in
  the repository. TLS and decompression are external here.
- Upload and download: the native functions cast the Java callback object to a
  function pointer and call it (`cpp/sqlitecloud.cpp` 433-457), so every transfer is
  undefined from its first callback on.
- The packing of array commands and the parsing of connection strings and cells:
  pure functions of their input.
- Room and SQLite themselves, WorkManager's retries and constraints. The lazy
  singletons are made once by Hilt's `@Singleton`.
- The threads of `Dispatchers.IO` (section 10), and the contents of the certificate
  file: `SC` 71-74 writes it only when it does not exist, so a write that was cut off
  leaves an incomplete one for good.
- `Sync.synchronize`, which nothing calls.
- Layout, navigation animations, the text fields and their validation,
  `StatisticsViewModel.categoryAverage`, which writes one field from one query.
- Failing allocations; two callers of one connection splitting a single reply
  between them (section 3).

Only model-checked: `EveryCallReturns`, the one liveness property, and the four
violations. TLAPS has no rules for fairness or ENABLED. Its library's induction
theorems take a predicate as a parameter, which the backends cannot instantiate; the
proofs that need induction use sets instead (sections 5, 6 and 9).

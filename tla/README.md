# CIC Judging: TLA+ models, checks and proofs

CIC Judging helps the judges of a competition: a judge signs in with a phone
number, is given a list of at most three teams of the judge's affinity group,
scores them, and gets a replacement for every team scored. It is an iOS app
(Swift, `src/CIC Judging/CIC Judging/`) and two Firebase cloud functions
(`src/CIC Judging/functions/index.js`) around one Firebase Realtime Database.
Nothing locks anything: the functions read the database root, compute, and set
a whole subtree; the app reacts to events and answers in the order they come.

Below the app, and kept in the repository under `Pods`, lie leveldb, in which the
Firebase SDK keeps pending writes and cached data on the device if persistence is
turned on, the protocol-buffer codec it speaks with (nanopb) and the base64
conversion of its web socket. Their C and C++ sources are all there and are modelled too.
The app never sets `persistenceEnabled`, which `FRepo.m:127` asks before it makes a storage
engine: its own database keeps pending writes in memory only, which is what `Scoring` assumes, and
what is said below of leveldb is about the engine as it stands in the repository, not about
something the app as configured does at run time.

## 1. The system

| Part | State | Operations | Talks to |
|---|---|---|---|
| Cloud functions (`index.js`) | `judgingQueue`: every judge's list and `judgeAssigned`, team to judge | `assignTeams` (read, top up, set), `removeAssignedTeam` (read, filter, set; read, top up, set) | database |
| `TeamListVC` | arrays `teams`, `filteredTeams`; the rows on the screen | calls `assignTeams`; observes the judge's list; one read per team; row selection; sign-out | functions, database, `AppConfigurations` |
| `ScoringVC`, `ScoringCell`, `NotesCell` | the form: four marks, notes | open, mark, write notes, load previous scores, submit | database (two writes), `removeAssignedTeam`, both singletons |
| `JudgedTeams`, `AppConfigurations` | entries of one judge; two switches | created on first use, then updated by an observer | consulted by every screen |
| `FilterTeamsVC` | all teams or judged teams, filtered by a search text | search, row selection | database, both singletons |
| Session (`SceneDelegate`, `LoginVC`) | signed-in user, `hasRunBefore`, verification id | launch, registration check, one-time code, sign-out | Auth, database |
| `NotificationVC` | the array of messages, which is the table | observes `messages`: replace, sort, reload | database |
| Logo cache, `TeamDetailsVC`, layout | what is shown | display | storage |
| leveldb: writing (`db_impl.cc`, `log_writer.cc`, `write_batch.cc`) | queue of writers, log, two memtables, background error | `Write`, `MakeRoomForWrite`, `BuildBatchGroup` | log file, background thread |
| leveldb: recovery (`db_impl.cc`, `version_set.cc`, `log_reader.cc`) | logs, manifests, `CURRENT`, tables | `DB::Open`, `Recover`, `LogAndApply`, flush, garbage collection | file system |
| leveldb: versions and compactions | levels of files, versions in use, snapshots, files being written | flush, size and manual compaction, `Get`, garbage collection | background thread |
| leveldb: tables, iterators, caches, memtable | blocks, index, filters; cursors; handles; links | build, seek, step, look up, insert, evict | files |
| leveldb: environment (`env_posix.cc`) | write buffer; locked names; permits; work queue | append, flush, sync; lock; open; `Schedule` | kernel |
| leveldb: repair (`repair.cc`) | the directory of a store | find, convert logs, scan and rebuild tables, write a descriptor | file system |
| Firebase database, connection (`FPersistentConnection.m`) | connection state, listens, outstanding puts, answers held back | open, interrupt, lose; `listen`, `putData`; restore after a reconnection | database, tokens |
| nanopb, `fbase64.c` | a stream, a struct; a text | encode, decode | the SDK |

What is hard here:

- Two function calls that overlap: each sets a subtree computed from a snapshot
  that the other has replaced. `removeAssignedTeam` is two such rounds.
- The handlers return before their work is done, so the platform may stop a call
  anywhere; the client only prints an error.
- The score write and the removal that follows it travel on different
  connections and arrive in either order.
- The two `while` loops advance only past a team they push.
- Screens change the array behind a table before the table is reloaded, and
  answers of an earlier round of reads arrive in a later one.
- Two writes of a submission are kept in memory only; the app can be killed in
  between.
- A record that does not decode is printed and passed over, without a reload of the table.
- The singletons outlive the session of the judge they were created for.
- Nothing is disabled while a phone number is checked, a code is sent or a sign-in
  is under way: attempts overlap, and answers reach screens that are covered by an
  alert, a list or a newer login screen.
- The process or the machine can stop between any two steps of the store, and takes
  with it what no sync has covered.
- The store's mutex is released while a group is logged, while a compaction writes
  and while a stalled writer waits: everything read before may have changed after.
- Readers of the memtable take no lock at all.
- Files, messages and texts end anywhere, and whoever reads them has only their bytes.

What makes each part correct is what section 3 checks; PROJECT.json lists under
`hazards` the lines at which it could go wrong.

## 2. The modules

| Module | Models | Kind |
|---|---|---|
| `Assignment` | `processAssignedQueue`, `filterAssignedQueue`, `compare` on one snapshot | operators |
| `AssignLoop` | the two loops of `processAssignedQueue`, iteration by iteration | state machine, checks `Assignment` |
| `JudgingQueue` | overlapping calls of `assignTeams` and `removeAssignedTeam`, and the client steps that start them | state machine |
| `QueueContract` | what the functions promise; `MCFunctions` checks that `JudgingQueue` implements it while calls do not overlap | abstract specification |
| `AssignmentLemmas` | what picking, filtering and removing return, for any snapshot | proofs |
| `FunctionsProofs` | theorems about `JudgingQueue` for all constants, that serial calls implement `QueueContract`, and that the loops of `AssignLoop` compute the closed form, for any snapshot | proofs |
| `Sift` | a loop that keeps some elements of a list, as the code has in many places | operator |
| `ListLemmas` | what `Sift` and the first and last element of a list give; least and greatest number of a set | proofs |
| `TeamList` | `TeamListVC`: events, reads, table, taps, logos | state machine |
| `FilterList` | `FilterTeamsVC`: both modes, search text, table, taps | state machine |
| `Notifications` | `NotificationVC`: its observer, sorting, dates, messages that do not decode | state machine |
| `Session` | `LoginVC`, `SceneDelegate`, sign-out | state machine |
| `ScreensProofs` | theorems about `Session`, `TeamList`, `FilterList` and `Notifications` for all constants | proofs |
| `Connection` | `FPersistentConnection`: connecting, listens, writes and their answers across lost connections | state machine |
| `Scoring` | `ScoringVC` and cells, the two singletons, sign-in and sign-out, launch | state machine |
| `ScoringProofs` | theorems about `Scoring` for all constants | proofs |
| `WriteQueue` | `DBImpl::Write`, group commit, stalls, background errors | state machine with fairness |
| `DurabilityProofs` | theorems about `WriteQueue`, `PosixFile` and `BackgroundQueue`, for any writers, bytes and items | proofs |
| `Recovery` | logs, manifests, `CURRENT`, tables, crashes, `DB::Open` | state machine, refines `StoreContract` |
| `StoreContract` | what a store promises about its writes | abstract specification |
| `RecoveryProofs` | theorems about `Recovery`: what a crash cannot take, and that every step keeps `StoreContract` | proofs |
| `VersionFiles` | which files a read consults, where a flush goes, what a compaction takes and writes | operators |
| `Compaction` | memtables, versions, flushes, compactions, snapshots, readers, garbage collection | state machine over `VersionFiles` |
| `LogFormat` | `log::Writer` and `log::Reader` on damaged files | state machine |
| `Records` | edits of the manifest and write batches as bytes | state machine |
| `Checksum` | `crc32c::Extend`, `Mask`, `Unmask` | state machine |
| `SSTable` | `TableBuilder`, `BlockBuilder`, `FilterBlockBuilder`, block and two-level iterators, `Table::InternalGet` | state machine |
| `ReadPath` | `MergingIterator` and `DBIter` | state machine |
| `TableCache` | `LRUCache` under concurrent look-ups | state machine |
| `SkipList` | the memtable's list, one writer and lock-free readers | state machine |
| `Bloom`, `Arena` | the filter policy, the memtable's allocator | state machines |
| `PosixFile` | `PosixWritableFile` with partial and failing writes | state machine |
| `FileLock` | `LockFile`, `UnlockFile`, threads and processes | state machine |
| `FileLockProofs` | theorems about `FileLock` | proofs |
| `OpenFiles` | `NewRandomAccessFile` and its two limiters | state machine |
| `BackgroundQueue` | `Schedule` and the background thread | state machine with fairness |
| `Repair` | `RepairDB`, killed and run again | state machine |
| `Nanopb` | `pb_encode`, `pb_decode` and below | state machine |
| `Base64` | `f_b64_ntop`, `f_b64_pton` | state machine |
| `MC...` | instances for TLC | |

Definitions whose comment says "Seeded defect" are wrong on purpose. They stand
before the definition they are a variant of and nothing uses them; each shows
that some property notices the defect when it takes the place of the original.

### Assignment and JudgingQueue

A subtree is a record of `queue` (judge to list) and `judgeAssigned` (team to
judge or `Nobody`); the database stores no empty list, and the code reads a
missing one as empty. `KeyOrder` is the order in which the code lists a set of
teams: ascending keys, then `sort(compare)`, which compares a field that team
records do not have and so returns 0 throughout. Only that the order lists each
team once is assumed. `FirstPicks` and `SecondPicks` are what the two loops push
when they get through, `Spins` says when one of them stands still; `AssignLoop`
checks these closed forms against the loops.

An action of `JudgingQueue` is one callback of a call: `ReadToAssign`,
`ReadAndSpin` and `ReadToRemove` are the arrival of the root snapshot and all the
computing up to the next `set`; `WriteAssignment` and `WriteRemoval` are the
database applying that `set`. `assignTeams` and `submitScores` start calls,
`ScoreStored` is the arrival of a score write, `Abandon` ends a call at any point
(failed request, failed read or set, instance stopped). A call is for any
registered judge; a removal may be for a team not on the judge's list, because a
team can be opened from the search list too.

### TeamList, FilterList and Notifications

`events` holds the values of `judgingQueue/<phone>` on their way to the observer,
`fetches` the reads of teams not answered, `filteredTeams` the array, `shown` the
array at the last `reloadData`. The last row of the table is the search button.
`teams` and `filteredTeams` are equal throughout on the judge's list. `images` is what
the cells show, `logos` the process-wide dictionary of `LogoImages`, `downloads`
the requests under way with the cell each of them is for. A record that `JSONDecoder` refuses is printed,
and neither array nor table changes (`TeamUndecodable`; the other branch of the same callback is
`TeamFetched`). `dropped` records for the properties which teams the latest round of reads lost in this way: they
stay away until the next event.

`FilterTeamsVC` shows all teams (one read) or the judged ones (an observer
of the judge's entries and a read for each entry; there is an entry per
submission, so a team may have several). `Matching` is what the search finds for
a text; the empty text finds everything. An answer is added to both arrays
whatever the text is by then. Here too a record may fail to decode: among the judged teams it costs this team
(`TeamUndecodable`), among all teams, which one `do` block decodes, it leaves the list empty (`AllTeamsUndecodable`).

In `Notifications` a message is its timestamp, which may be in a format that
`parseISODateString` does not take (`Garbled`, the year 1970), or `Malformed` if
`MessageData` cannot be decoded from it. `messagesData` is the array and the table: the two
change together. The order of messages of one date is left open.

### Session and Scoring

A person is the last ten digits of a number, the key of `judges/`. An attempt is
one submission of a number and goes through `checking` (registration), `verifying`
(Auth is asked to send a code), `sent` and `redeemed`; its number serves as the
verification id. A sign-in carries the stored id and a code. `screen` tells
`LoginVC` instances apart: signing out presents a new one, and an answer for an
older one presents nothing. `user`, `hasRunBefore` and `authVerificationID` survive
`Kill`; `Init` also allows a user kept in the keychain by an earlier installation.
`overlapped` remembers that something was submitted before the last answer came.

In `Scoring`, `outbox` is the queue of database writes the device has made: they arrive in
order, are visible to the device's own observers at once, and are lost with the
process. `boundTo` is the judge whose entries `JudgedTeams.shared` observes: the
judge who was signed in when the singleton was first used, until the app is
started again. `cfg` is what `AppConfigurations` last heard, both switches on
before that. The four marks are one value, notes one text. `form.open` records for the properties whether
the gates (`disallowEdits` at opening, the marks' cells at each tap, the notes' cell when it
appears) have ever let the judge change this form. The count in the list's header is only displayed and left out.

### Connection

One path is written and observed. A write is its number; `server.history` is the
sequence of values the path has had, `cache` the position the device has heard of.
`up` and `down` are the two directions of the socket: a lost connection takes the messages
to the device, while requests may still be handled until the next handshake, for which the
server ends the last session (the client names it). What the server does is external:
it handles requests in order, takes its time to load a path, and tells who
has loaded it of a change before it answers the change. `answers` is what the callers
of `putData` were told, in order; a write is shown as pending until then. Retries
have no delays. Transactions, merges, queries and `onDisconnect` writes, which the app
does not use, are left out.

### WriteQueue, BackgroundQueue, PosixFile

A step of `WriteQueue` is what a thread does while it holds `mutex_`; `pc` says
where each writer is, `signalled` which waits have been ended, `queue` is
`writers_`, `group` what the leader is logging with the mutex released.
`mem`, `imm` and `level0` are counted in units of the write buffer, as that is all
that `MakeRoomForWrite` looks at. `Background` is one run of `BackgroundCall`, which
may fail while `MaxFailures` lasts. `BackgroundQueue` is the thread below it:
`Schedule` signals only if the queue was empty, `Take` and `Run` are the two halves
of the thread's loop. `PosixFile` numbers the bytes: `buf`, `file` and `synced` say how
far each has come, `promised` what a successful sync has covered.

### Recovery and StoreContract

A file is what was written to it and how much of it is synced. `Crash` takes from each
log and manifest some suffix, perhaps empty, of what was not synced: the empty one is what a
killed process leaves, the others a stopped machine. `DB::Open` is as
many actions as it has steps that a crash may separate: create a database (`NewDB`), read
`CURRENT` and the manifest, replay every log that the edit does not rule out, write level-0
tables, write and sync a new manifest, move `CURRENT`, collect garbage. A manifest is a
sequence of edits. A failed append leaves a `Torn` stretch in the log whether or not bytes reached the file,
because the log writer advances its place in the block in any case (`log_writer.cc:106`), and what is written
behind one may be dropped with the rest of its block: each such write is kept or torn as well, and is remembered
in `exposed`. A reader passes over torn stretches and goes on behind them (`Readable`).
That creating, renaming and deleting files is durable at once is assumed of the
file system (the code syncs the directory for manifests). `StoreContract` knows
neither logs nor tables: it has writes that are acknowledged, promised or not, and
crashes that lose only what was not promised. `Recovery` implements it with the visible
writes, those that the next open would find, as the contract's state.

### VersionFiles and Compaction

An entry is a user key with its sequence number, a file its number, bounds and
entries, a version a function from levels to sequences of files. `VersionFiles` holds
`PickLevelForMemTableOutput`, `SetupOtherInputs`, `AddBoundaryInputs`, `GetOverlappingInputs`,
`IsBaseLevelForKey`, `CompactionOutputs` (what a merge keeps, drops and cuts into files) and
the search of `Version::Get`. In `Compaction`, one background thread works with the
mutex released and taken again: `Begin` fixes the inputs and the smallest snapshot,
`WriteOutputs` makes the files, `InstallCompactionResults` puts them into a version, and
in between writers write, snapshots and readers come and go, and the same
thread flushes the immutable memtable. The merge is one step because what it drops
depends only on what `Begin` fixed. `Earlier` are keys that an earlier run of the program has written,
each in a file of level 1, so that a behaviour need not begin with an empty store. `gapFlush` records that a memtable
was flushed between the inputs of a manual compaction.

### Tables, iterators, caches, memory

`SSTable` builds a table entry by entry with the code's rules for restarts, index
separators and filters, and then moves an iterator over it. A key is a sequence of
bytes, because prefixes and shortened separators are what can go wrong. In `ReadPath` a
cursor of a child is an entry or none; `Next`, `Prev`, `Seek` and their changes of
direction are those of `merger.cc` and `db_iter.cc`, with a memtable that grows.
`TableCache` has a method of `LRUCache` as a step, `SkipList` a load or store of a link,
with `max_height_` relaxed: a reader may get any earlier value. `OpenFiles` has the two
atomic operations of a `Limiter` as steps. `FileLock` knows that the kernel's lock
belongs to a process and goes with any descriptor of the file, and that `UnlockFile` returns early when
`fcntl` fails, with the name still locked and the descriptor open (`UnlockFails`). `Repair` can be killed between any two
steps, a copy of a table included (`ArchiveFile`, `FinishCopy`, `RenameCopy`).

### Formats

`LogFormat`, `Records`, `Nanopb` and `Base64` encode, do something to the bytes (cut, alter,
repeat, add fields of a newer schema) and decode with the code's own control
structure. A byte is a continuation bit and a few value bits, widths are parameters:
what matters is where a number crosses a group, a width or a field, and that happens
with small ones. In `LogFormat` an append may fail in the header, in the payload, or at the trailer of a block, where
the code ignores the result (`TrailerFails`). `Checksum` is the arithmetic of `crc32c.cc` with the polynomial,
the register and the strides scaled down.

## 3. What is checked

Parts that share no state are checked together in one run. A variable `part` says which
of them a behaviour is one of; the others stand still, so the states of the run
are the union of the parts', not their product. A property of such a run
is the conjunction of what it says about each part; every conjunct has a seeded
defect in the module of its part.

| Run | Properties | Shows |
|---|---|---|
| `functions` | `TypeOK`, `ListsAreLegal`, `OwnersAgree`, `NobodyLeftShort`, `ReturnNeedsLateScore`, `SerialCallsKeepContract`, `LoopsComputeClosedForm`, `LoopHaltsUnlessSpins` | Overwriting whole subtrees loses updates but never corrupts them. A team on a list that `judgeAssigned` gives to nobody has one cause, another judge's removal. A removal puts its own team back only while the score is late. Calls that do not overlap keep the contract: full list or everything left, free teams before taken ones, one judge at a time. From every legal snapshot the loops compute the closed form, and stand still exactly where `Spins` says. |
| `scoring` | `TypeOK`, `JudgedMatchesSheets`, `UntouchedFormIsStored`, `ClosedGatesHold` | The order of the two writes of a submission keeps `judgedTeams` behind `scores` through a kill; a form left alone holds the latest sheet. While the device knows that edits are closed, no sheet is replaced, stored or on its way, unless `JudgedTeams` could not know of the entry or a kill had parted sheet and entry; and a form that the gates never opened is sent as it was, marks and notes, though each gate is asked at another moment. |
| `screens` | `PartsTypeOK`, `SignedInIsRegistered`, `ScreenMatchesUser`, `ListsAreTrue`, `WritesKeepOrder`, `AllArrives` | Only registered judges get in; who waits for answers sees the list exactly when signed in, and the own one. However rounds of reads, typing, events and answers overlap, no team of a list is lost but those whose record does not decode, and no match is hidden; a tap opens the team shown, a row shows the logo of its own team or of none, and what is in a list and decodes comes to be shown. Messages are shown newest first, those without a date last, all of them or, while one does not decode, none of the new ones. However often the connection is lost, the writes of a device reach the server in their order, their callers are told once and for good, and no observer on the device sees a value from before a write that was answered. |
| `compaction` | `TypeOK`, `NeededFilesExist`, `ReadsSeeTheirSnapshot`, `OverlapNeedsGapFlush` | No file that a version, a reader or a running compaction needs is deleted; files of a level come to overlap only after a memtable was flushed into the gap between the inputs of a manual compaction, which does occur within the bounds; until then a read at any snapshot finds what was written before it, through every flush, drop and move. Nothing is claimed of reads begun after such a flush: they can go wrong (section 5). |
| `durability` | `PartsTypeOK`, `RecoveryIsSound`, `ServedInOrder`, `EnvironmentKeepsOrder`, `ImplementsContract`, `NothingAfterSyncError`, `StoreMakesProgress` | A store keeps its contract across crashes between any two steps; a log never loses a write in front of one it kept, except writes put behind a failed append; numbers are never given out twice; a store that was opened once can be opened again, and is. Batches are logged in the order of the calls; writers are acknowledged only for what is logged, and synced if they asked for it; after a failed sync nothing is; every write returns. Background work runs in order and is not forgotten. A file keeps the order of its appends whatever writes fail, and a sync covers all before it. |
| `engine` | `PartsTypeOK`, `TwoHoldersNeedStrayClose`, `HeldIsAlive`, `TableFindsAll`, `ShowsItsSnapshot`, `MemtableHolds`, `LogsReadBack`, `RepairKeepsAll`, `RecordsReadBack`, `MessagesReadBack`, `TextsReadBack` | A directory is open twice only after a stray close; handles in use stay, charges and permits balance; tables, filters and iterators find everything and only it, in both directions; lock-free readers see the list; memory pieces are apart; logs, edits, batches, messages and texts read back as they were written, and harmed ones never as something else; a repair that ends without a failed call lists all that could be read before the first one, unless a call failed on a log or a table or a kill came between the archiving of a table and its completed copy. |

Six runs look for, and find, behaviours that contradict what the repository
says of itself:

| Run | Violated | Behaviour |
|---|---|---|
| `calls_return` | `CallsReturn` | A judge with fewer unscored teams left than the list has room for makes `assignTeams` loop forever: the second loop meets a team that is on the list. No concurrency is needed. |
| `lost_update` | `OnlyOwnCallsAddTeams` | The set of judge B's assignment, read before judge A's removal was set, puts the removed team back on A's list. |
| `least_scored_first` | `LeastScoredFirst` | The README promises that all teams get scored equally often; `compare` reads a missing field, so a team with a sheet is given out before one with none. |
| `tap_is_safe` | `TapIsSafe` | An event empties the array without reloading the table; a tap on a row still shown indexes out of range. |
| `closed_edits` | `ClosedEditsStayClosed` | After another judge signs in on the device, `JudgedTeams` still observes the first one, and the closing of edits is not enforced. |
| `never_corrupt` | `NeverCorrupt` | `DBImpl::Recover` says that creating a store is committed only when the descriptor is created, but `NewDB` makes `CURRENT` name a manifest that was not synced. A crash of the machine leaves a store that is refused as corrupt ever after. `RecoveryIsSound` shows that this is the only way to get there. |

### Bounds

- `functions`: two judges (one of group A, one of group "None"), three teams
  of two groups, quota 2, three calls, all of which may overlap (and the same, one at a
  time, against the contract: that calls do not overlap is an assumption about
  the load, not something the code enforces; `lost_update` shows what happens without it).
  Two calls make a lost update, a third adds a removal in between or a next assignment on
  the damaged state. With quota 2 and three teams lists fill up, run dry and share
  teams. Calls are interchangeable, hence the symmetry. For the loops the code's quota of 3,
  four teams, all snapshots that satisfy the invariants of this run, and all
  combinations of score sheets of the judge.
- `scoring`: two judges, one team, two marks, two texts of the notes, two submissions (a first score and
  an edit, or one of each judge), one kill, one change of the configuration.
- `screens`: two people, texts in three formats (bare, with a country code, with
  separators), two attempts, two sign-ins, one sign-out: two attempts of different people
  suffice for every mix-up of ids and numbers. A judge's list is empty or has one or
  two teams, with one team in different places; two changes, so that up to three rounds of reads overlap; any read may fail
  to decode. The search has three teams; two texts that match two
  teams each (one in common), at most two entries (of one team or of two), two changes of the text; three
  messages of two dates, without a date or malformed, from every such subtree, and one change.
  Two writes, one listen, and two events from outside (a lost connection, a failure, a refusal,
  a write of another device, a change of the token).
- `compaction`: three keys, of which the first and the third were stored earlier, each in a file of level 1; two
  further writes of any key (deletions of the first), three levels, files of up to two entries, memtables that may go
  down to level 2, one snapshot or reader at a time, one manual compaction. Three keys leave room between two inputs:
  a key flushed there during a manual compaction lands in a level the output will span, so overlaps occur (seven steps).
  Two writes on top of the stored ones also give entries of one key in neighbouring files, tombstones above what
  they delete, two files at level 0, which start a compaction, and grandparents that cut an output.
- `durability`: two writes and three mishaps (crashes of process or machine, failed
  appends, syncs, edits), so that a recovery can itself be interrupted twice;
  three writers of the three kinds (plain, sync, and the null batch of a manual
  flush) with groups of at most two, every memtable switch a stall, one failure; a buffer
  of three bytes with appends smaller, equal and larger; four work items. Writers differ
  only in their kinds, so only kinds in ascending order are tried.
- `engine`: three threads in two processes; three threads, two keys of different charges
  and a capacity that one of them fills; four files with one mapping and one
  descriptor allowed; up to five entries of four user keys, two layouts of blocks against
  filter ranges; two children of an iterator, up to four sequence numbers; three keys of two
  heights and a reader; blocks of five bytes with headers of two, so that records end
  with every remainder a block can have; directories of two tables and up to two
  logs, whole or damaged, with two mishaps; edits with up to two fields of each
  kind; messages with a field of every kind, one or two set, or all; texts of up to four bytes.
  In the byte formats every position is cut and altered.

`CHECK_DEADLOCK FALSE`: the system may rest. All calls have ended, the loop has
reached its set or stands still (in the code: repeats a test), nobody touches
the app, every bound is used up, a store is corrupt.

### Fairness

`JudgingQueue!FairSpec` is weak fairness of each call's own steps: a call that
nobody stops keeps running. The list screens and `Scoring!FairSpec` have weak fairness of
the database connection (events, answers, stores; an answer may be one that does not decode); `Connection` of its own attempts, of the
server and of the delivery of messages, while the device is on line. `AssignLoop` is a
sequential program that keeps running. `WriteQueue` has weak fairness of the background thread and
of each writer's steps: threads are scheduled, and one that waits is enabled only
once it was signalled, so a missing signal is not hidden. `BackgroundQueue` has weak
fairness of the two steps of its thread. `Recovery` has weak fairness of `Opening`: who
calls `DB::Open` runs through it unless it crashes, and crashes are bounded.
Nothing is assumed of judges, organisers or of when somebody writes.

## 4. What is proved

`FunctionsProofs` proves, for any set of judges, teams and calls, any quota,
any affinity groups and any key order: `TypeCorrect`, `ListsTheorem` (from `QuotaTheorem`,
`NoRepeatsTheorem`, `AffinityTheorem`), `OwnersTheorem` (from `OwnerTheorem`, `OrphanTheorem`).

Assumptions of these: the quota is a natural number, `Nobody` is not a judge, `NoTeam` is
not a team, `KeyOrder` lists each set of teams once and without repetition.

None of the invariants is inductive by itself. A call in flight carries a subtree
computed from a snapshot that may be gone, and will set it whatever the database
holds then. The inductive invariant `IInv` therefore says that every subtree is
legal (`LegalTree`: quota, no repetition, affinity, owners, orphans), the
database's and the one of every call about to write. Then

1. a read computes a legal subtree from a legal one (`AssignKeepsLegal`,
   `RemoveKeepsLegal`, from what `Picks` and `Without` return);
2. a write puts a legal subtree in place of another: it may lose an update, it
   cannot break a list;
3. starting a call can only add to what excuses an orphan (`LegalStays`).

The conjuncts need each other: no repetition rests on the loops' test (a call
that would repeat a team spins and never writes), ownership rests on no
repetition (removing a team leaves no second copy), and the orphan property rests
on ownership (a judge's own removal takes the team off the list as well).

It proves, under the same assumptions, `NobodyLeftShortHolds` and
`ReturnNeedsLateScoreHolds`. Both are statements about a subtree that was computed a while
ago, so both rest on the fact that score sheets are only added: what was left to score
when a call read is all that can be left when it writes. `AssignFills` says that the two
loops stop only at a full list or with nothing left, and `SheetSent` that a removal's
team has a sheet or one on its way.

`SerialCallsRefineContract` is the refinement: with one call in flight at a time
(`MaxInFlight = 1`), every behaviour of `JudgingQueue` is one of `QueueContract`. Reading and
writing are two steps, the contract's are one: the read stutters and the write is the
atomic step. What makes that work is `Fresh`: nobody but the call itself writes the subtree
between its read and its set, so a subtree about to be written is still the contract's
answer to the one that is there, though sheets may have come in since. With two calls it is false, which is what
`lost_update` shows. Where a set changes nothing the step stutters; the contract's steps
therefore say that they change something.

For the loops, `FunctionsProofs` proves what the closed forms of `Assignment` rest on, for any snapshot with
the types of the database, any judge and any quota: `LoopsSetClosedForm` (what the loops set is
`Picks`), `LoopsStickOnlyWhenSpins` (an iteration that changes nothing occurs only where `Spins`
holds) and `LoopsKeepContract`. Its `LoopInv` says that what was pushed so far is the
part of the candidates passed so far, each once, and that the local copy of `judgeAssigned` differs from the
snapshot in exactly these. `MCFunctions` checks the same on a small instance as
`LoopsComputeClosedForm`; that the loops halt otherwise is liveness and stays with TLC.

`ScoringProofs` proves, for any judges, teams, marks and notes and any number of
submissions, kills and changes of the configuration (assuming `ScoringAssumption`: that
`Nobody` is not a judge, the form's defaults are values, the bounds are natural numbers
and no sheet is the missing one): `JudgedMatchesSheetsHolds`,
`UntouchedFormIsStoredHolds`, `ClosedGatesHoldHolds`. Between the two writes of a
submission lies any number of steps, so its `IInv` looks into the outbox: an entry on its
way has its sheet in the database or further in front (`EntriesFollowSheets`), and
without kills a sheet, stored or on its way, has its entry, stored or on its way
(`SheetsHaveEntries`). For the form it is enough that storing the front of the outbox
changes no judge's latest sheet (`StoreKeepsLatest`). `ClosedGatesHoldHolds` is about every step that sends: only a
submission does (`OnlySubmissionsSend`). That it replaces no sheet while edits are closed (`SheetIsKept`) joins
the gate of the button with `SheetsHaveEntries`, which says that a sheet, stored or on its way, has an entry that a judge's own `JudgedTeams` has
heard of. That a form never opened is sent as it was (`ClosedFormIsSentAsIs`) needs a history: whatever
`JudgedTeams` or the configuration come to say, a form once let open remains so in `open`, and before that every
change to it is refused (`RegatedFacts`, `GatesKept`, by action), except that the previous scores arrive.

`ScreensProofs` proves, for any people, texts, attempts, sign-ins and sign-outs:
`SessionTypeCorrect`, `SignedInTheorem`, `CodeInputTheorem`, `ScreenTheorem`. It assumes that
`Nobody` is not a person, attempts are positive numbers, a text has a person and a
format, the bound on sign-outs is a natural number, and the empty field is not
a text. That the signed-in judge is registered is not inductive, since a sign-in
answers an attempt made long before; nor is the code input's id, since the input
turns when the code is sent and the id may have been stored by another attempt.
Its `IInv` adds that every attempt past the registration check has the number of a
registered judge (`AttemptsVetted`), that a stored id is that of an attempt whose
code was sent (`StoredIdSent`, needed because the id survives restarts), and that
the code input is shown only while an id is stored (`CodeInputStored`, with the
phone input wherever a launch begins). `ScreenTheorem` is about users who wait: `Waits` says
that as long as nothing overlapped, at most one answer is outstanding, and then the login screen
that asked is on top, without an alert (`OneWait`), so the answer presents on the screen it was asked from; and that
nothing is outstanding when the app starts.

For the lists and the messages it proves `ListsTheorem` (nothing is lost but teams whose record does not decode, see `dropped`), for any teams, lists, search texts, keys
and dates and any number of changes (assuming `ScreensParameters`: a list has a team once, the
teams and keys are finitely many, the empty text is a text and finds everything, dates are positive
numbers and differ from what is none, `NoLogo` is no team, and the bounds are natural numbers). Each of the three screens has an invariant of its own, as the parts
share nothing:

- `TeamListInv`: the value that arrives last is the list as it is (`LastEventIsQueue`), the array
  is what was last shown or has been emptied by an event (`TeamsEmptiedOrShown`, the state in which
  `TapIsSafe` is violated), and a download still has its row only if that row is of its team
  (`CellsMatchRows`). A reload forgets the rows of all downloads, which is why a late answer finds no cell of another team.
- `FilterListInv`: the same for the judged entries (`LastEventIsEntries`, `FoundEmptiedOrShown`).
- `MessagesInv`: the value that arrives last is the subtree (`LastEventIsMessages`); what the sort
  returns has each message once, in the order of dates (`SortedFacts`).

For the connection of a device it proves `WritesTheorem` (the property `WritesKeepOrder`), for any
number of writes, events and lost connections. That writes reach the server in the order of
`putData` is not inductive: a connection may break between any two steps, and what is outstanding is then sent
again. `CInv` therefore says of every state where each write and each listen is:

- the first request of a session is the restoring one, or its answer is the first on its way back
  (`Restores`), so nothing is sent before `restoreState`; once connected, every outstanding
  write is on its way there or its answer on its way back (`OnTheWire`), in the order of numbers (`Rising`);
- an answer on its way is true (`AnswersTrue`); before a write on its way all earlier ones are known to the server or
  further in front (`EarlierKnown`); what is no longer outstanding is known and older than what is
  (`SettledFirst`), and its caller was told, or will be, once (`ToldSettled`, `ToldOnce`);
- a listen that is not answered is counted once, wherever it is (`Counted`), and data on its way is newer
  than what was heard or told (`DataNewer`). An answer is held back until newer data than
  its write was heard (`HeldSafe`), so no observer hears of anything from before a write its caller
  was told of (`HeardTold`).

`PartsTypeCorrect` (the property `PartsTypeOK`) joins the invariants of the four parts of this module.

`FileLockProofs` proves, for any threads and processes: `OneHolderPerProcessHolds` and
`TwoHoldersNeedStrayCloseHolds`. The second is not inductive: that the kernel's lock is held
by the process of whoever has the store open has to be carried along, and is given up
only where a descriptor is closed that the code has not recorded.

`DurabilityProofs` proves, for any number of writers of any kinds, any size of the buffer and
of groups: `OneLeaderHolds`, `ServedInOrderHolds` and `NothingAfterSyncErrorHolds`. The first and the last need
that a leader is the front of the queue (`LeaderInFront`), that a writer who waits and was
not told a result is in the queue (`WaitersQueued`), that a leader's group is a front part of
the queue (`GroupIsFront`, so that those taken off it are those who are told), and that a
failed sync leaves a background error and nobody logging (`SyncErrorStops`). That batches are
logged in the order of the calls, and acknowledged only if logged and, where asked for, synced, relates
the log to calls that have long returned; `SInv` therefore adds the order in which the calls came:
the queue is its tail (`QueueIsTail`), the log a selection of the rest in this order (`LogFollowsCalls`),
the memtable has only what succeeded (`ResultsTrue`), and a group has no sync writer unless its leader is one
(`GroupSyncs`, the break in the loop of `BuildBatchGroup`).

For the environment below it proves `EnvironmentKeepsOrderHolds`: for any size of the buffer, any appends and
any results of `write()` and `fsync()`, the file has the appended bytes in order, without gaps until a
write failed, and keeps what a successful `Sync` covered; and background items run in the order they were scheduled in.
`FileInv` says where the bytes are that are not in the file yet: in the buffer, or in the
operations `Append` and `Flush` still have to do, in this order (`Coming`). `QueueInv` says that done, running and queued items together
are an initial segment of what was scheduled (`QueueInOrder`) and that a thread that
waits without a signal has an empty queue (`AwakeForWork`, which is `NeverSleepsOnWork`: it is why it is enough to signal
an empty queue only; without it the liveness that TLC checks would rest on luck).

`RecoveryProofs` proves `RecoveryIsSoundHolds` (the property `RecoveryIsSound`) and `ContractKept` (the
property `ImplementsContract`), for any number of writes, files, compactions, failures and crashes (assuming
`RecoveryAssumption`: the bounds are natural numbers). Nothing of what is claimed is inductive. A crash leaves
of the manifest any front that has at least what was synced, and of each log the same, so an earlier version may come
back together with logs that are longer or shorter than they were at the time of that version. `RecInv` therefore speaks of all versions that
a crash may leave (`Survivors`), not of the one in use:

- `VersionsSound`: each of them can be opened (its tables are there), has, logs included, every acknowledged write that no
  crash has cut off, has every synced one in its tables or in the synced part of its logs (both but for writes put into a log behind
  a failed append), and shows the same data as the last one (`Agrees`). This is what
  makes it safe to delete a log or a table only after the manifest was synced, and what
  would break if an edit were installed before.
- `LogsClosed`, `TablesClosed`, `MemClosed`: with an acknowledged write, the log, the table or the memtable (and every
  union that a version may read) has the earlier ones of the same log, again but for those behind a failed append. Without it, a hole could be made by a table
  that has the end of a log whose front was lost.
- `LogsIssued`, `TablesIssued`, `MemIssued`, `OwnLog`, `Unique`: ids are given out once, an acknowledged write is in no log
  but its own, and no two live writes have the same sequence number.
- `RecPhase`: what the process has read, written and named in each of its steps, with the edit that is on
  its way (`Phase`, `Recovering`, `Replaying`, `EditPending`, `ManifestWritten`, ...). It is why replaying the logs
  computes a sequence number that is above all that will be found, and why a failure in the middle of `LogAndApply` leaves
  a manifest that still describes the same data.

Each action of `Recovery` has a lemma that it keeps `RecInv` (`CrashKeeps`, `RecoverLogFileKeeps`, `SetCurrentFileKeeps`, ...).
For the contract, `FoundIsWhole` says that what can be read (`Found`) is what the refinement mapping of `Recovery` takes for the
contents of the store, and that all promised writes are among it; writes behind a failed append
count neither as contents nor as promised, since the code cannot keep a promise about them. It follows from `RecInv`. Then a write, whether
it succeeds, is torn or fails, is a step `Write` of the contract (`ContractWrites`), opening is `Start` (`BeginsContract`), a crash, a
close and a failed open are `End` (`EndsContract`), and the steps of an edit, a flush, a compaction or a recovery under way find the
same as before (`EditFindsSame`, `WorkFindsSame`), so they stutter.

`ListLemmas` has what several of these need: the equation of the recursive function in `Sift` and
what it keeps, that taking the first element off a list leaves the last one, what stands before what on a list to which
something is added or from which the first is taken, and that a set of
numbers has a least element and, if bounded, a greatest, from the library's theorem that < on the
naturals is well-founded.

Only model-checked:

- liveness (`AllArrives`, `LoopHaltsUnlessSpins`, `StoreMakesProgress`), which is out of the
  prover's reach, and the violated properties, which have counterexamples;
- what recursive decoders and encoders compute for every input (`LogsReadBack`, `RecordsReadBack`,
  `MessagesReadBack`, `TextsReadBack`, `TableFindsAll`, `ShowsItsSnapshot`): induction over data, and
  modules with RECURSIVE operators;
- the compactions (`NeededFilesExist`, `ReadsSeeTheirSnapshot`, `OverlapNeedsGapFlush`), which rest on the folds and
  recursive functions of `VersionFiles`; repair, caches and the memtable's list (`RepairKeepsAll`,
  `HeldIsAlive`, `MemtableHolds`), whose run also has the modules with RECURSIVE operators;
- the type invariants of `Scoring`, of `Compaction` and of the parts of the engine.

## 5. Seen on the way, without a run

- A removal handled before the score write can offer the same team again
  (`ReturnNeedsLateScore` delimits it).
- After overlapping reads the table can show a team twice, or one that is no
  longer on the list; after an event with an empty list the old rows stay.
- "Scored N Teams" counts entries of `judgedTeams`, and every edit adds one.
- Submitting before the previous scores have arrived replaces the stored sheet
  by the form's defaults.
- `logOutUser` clears `hasRunBefore`, so a judge who signs out and in again is
  signed out at the next launch.
- The registration check takes the last ten characters of a phone number that
  may contain separators.
- When attempts overlap, an alert can keep the team list from being presented to a
  judge who has just been signed in, and a late sign-in can change the judge under
  a list that is shown (`ScreenMatchesUser` is limited to users who wait).
- The judged list shows a team once per submission, and answers that arrive after
  the search text has changed are shown whether they match or not.
- An organiser who removes the last message makes the observer hand a null to
  `JSONSerialization` (`NotificationsVC.swift:50`), which raises: the app stops. One
  malformed message holds back all that are newer.
- A write whose answer is held back for a listen, when the connection is lost and the listen is
  removed before the next one, is not answered until the path or another is observed again
  (`FPersistentConnection.m:689`): later writes overtake it (`AnswersInOrder` delimits it). The app
  keeps observers that last, so this does not arise there.
- A write that is sent again after a lost connection is applied twice: other devices can see
  an older value come back for a moment (`AppliedInOrder` says that it is only ever a value whose
  successors are sent again too).
- A flush in the midst of a manual compaction picks its level by a version that
  the compaction is about to change (`db_impl.cc:911`, `version_set.cc:723`): files of a level
  above 0 can then overlap, which an assertion of debug builds would refuse
  (`version_set.cc:723-748`). In other builds reads do go wrong: `Version::Get` looks at one file of such a
  level, the one `FindFile` (`version_set.cc:367`) returns, and can miss the other. In the instance of the run, a key 2 that is
  flushed between the inputs 1 and 3 is no longer found once the compaction is installed. `OverlapNeedsGapFlush` says
  that this is the only way to an overlap, and `ReadsSeeTheirSnapshot` claims nothing of reads begun behind it.
- A team record that does not decode is missing from the judge's list, or among the judged teams, until the next event
  comes (`TeamListVC.swift:319`, `FilterTeamsVC.swift:133`); if it is the last answer of a round, the
  table is not reloaded either. In the search over all teams one such record, or a key that is no number, leaves the
  whole list empty (`FilterTeamsVC.swift:113`). `ListsAreTrue` and `AllArrives` are about the others.
- After a failed append, writes that are acknowledged later in the same log, even synced ones, can be lost
  with the rest of a block when the log is read: the writer counts the block as filled although the file is not
  (`log_writer.cc:106`). A group whose append fails sets no background error, so such writes are accepted
  (`exposed` in `Recovery`). The result of the append of a trailer is not looked at at all (`log_writer.cc:51`), with
  the same effect and no error to anybody (`TrailerFails` in `LogFormat`).
- A repair that is killed after it has moved a table to `lost` (`repair.cc:316`) and before its copy is complete leaves the table's
  data there only, where no later repair looks (`RepairKeepsAll` excludes just this, and calls that fail).
- When unlocking fails, name and descriptor stay taken until the process ends (`env_posix.cc:644`).
- A manual compaction asks for a new memtable with a null batch (`db_impl.cc:626`). If that batch is
  taken into the group of another leader, its call returns without a switch of the memtable
  (`WriteQueue`).
- The kernel's lock of a store goes when any descriptor of the lock file is
  closed; two processes can then have it open (`TwoHoldersNeedStrayClose`).
- A comment at `repair.cc:169` says that the log reader does checksumming, so that a
  corruption costs whole commits; the call below it passes `false`, so a damaged record
  that still parses is put into a table as it is read.
- A repair lists every table at level 0, so which of two entries is newer is left to
  their sequence numbers.

## 6. What is not modelled

In the app: `TeamDetailsVC` (display only), the list's header (name, group, number of scored teams), layout, texts,
fonts, the keyboard. In `Scoring` the sign-in is one step; its steps are
in `Session`. Judges, teams and score sheets are not deleted. A judge uses one
device at a time.

In leveldb: how many seeks a file is allowed (any read that looked at two files may ask for the
compaction of the first), compression, the C interface, dumps, histograms, string formatting and test helpers. Levels and keys
are in `Compaction`, crashes in `Recovery`: their composition is not checked, as its states are too many. A compaction in `Recovery` is not interrupted by a flush: that one edit fails and another follows in the
same manifest, which leaves a torn stretch that `VersionSet::Recover` refuses as corrupt, is not modelled. `RepairDB` is assumed to be able to
move files to `lost`.
In nanopb: callbacks, extensions, proto3 and fixed-count fields, which the SDK's schemas do not use.

The other pods are Firebase, GoogleUtilities, gRPC and FontAwesome. More than half of the
lines that count as C or C++ in the repository are interface headers of Objective-C
classes, which declare and do not compute; what the app relies on of them (ordered
writes, whole-value sets, observers that see local writes) is part of the app's models, and
`Connection` shows for one path that the SDK's connection provides it.

## 7. Plan

Done: the functions, the app's screens and session, the storage engine and its
formats, codecs; two refinements, both of them proved; eight modules of proofs.

What would come next:

1. Proofs: the caches, permits, memory and the memtable's list below the database, for any number of threads.
2. The device composed with the functions: a submission, the removal it starts and
   the list event that follows, from `Scoring`, `JudgingQueue` and `TeamList`.

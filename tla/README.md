# A TLA+ model of youdl

youdl downloads videos on request: a *controller* keeps a queue of jobs in
SQLite and the finished files in a directory, *workers* poll it, run yt-dlp and
ffmpeg and upload the results. This directory holds a TLA+ model of its job
processing, TLC configurations that check it on small instances, and TLAPS
proofs of what the controller, the whole system and its parts guarantee for
every instance: every invariant and action property of the passing runs is a
theorem, only liveness is not. Source references
are to files under `internal/` and `cmd/`.

## Inventory

| component | state | operations | what makes it correct |
|---|---|---|---|
| Job table and queue (`controller/db.go`, `queue.go`, `model/model.go`) | one row per job (status, mode, worker, retries, file), the stored formats | create, assign, update, requeue or fail, save formats, delete, count | the columns of a row fit together; work handed out can be worked on; no job fails before its retries are used up; a deleted job stays deleted |
| Worker-facing handlers (`handlers_worker.go`) | the row a request has read and means to write | poll, running, failed, metadata, upload (register, heartbeat, cookies, proxies) | no interleaving breaks the table |
| User-facing handlers (`handlers_ui.go`) | the same | submit, select, cancel, status (page, download) | only a ready job can be selected; a job that is over stays over |
| Upload directory | one file per job and name | create (truncates), copy, remove | a done job has its whole file; nothing outlives its job |
| Cleaner (`server.go:126-156`) | the rest of the list it read | query, remove file, delete rows | every expired job is deleted in the end |
| Worker (`worker/worker.go`) | the poll loop, one goroutine per job | poll, fetch metadata, download, check for cancellation, trim, upload, report | every download that ends is reported |
| Downloader (`worker/downloader.go`) | temporary files named after titles | metadata, download, trim | jobs do not take each other's files |
| Rate limiter (`controller/ratelimit.go`), upload throttle (`worker/ratelimit.go`) | counters and times | allow, read | the configured rate is kept |
| Workers table | cool_until, last_seen, ... | register, heartbeat, cool down | nothing reads it (`GetAvailableWorker` has no caller) |
| URL checks, cookies, proxies, configuration, authentication, pages | none that changes after start-up | | |

The components interact only through HTTP requests to the controller and
through its table and directory. What is hard:

* **Interleaving.** net/http serves every request in a goroutine of its own.
  The handlers use no transaction and no lock: they read a whole row, work on
  the copy, and write the whole row back. Any two requests on one job may
  overwrite each other, an upload shares its path with any other upload of the
  job, and the cleaner works on a list that gets old.
* **Failure.** Workers crash, the controller restarts, statements and transfers
  fail, requests and replies are lost, and a client's timeout (5 minutes) may
  strike while the handler goes on. Several errors are ignored on purpose or
  by omission.
* **Retries.** A failure requeues the job until `maxRetries` is reached, with
  a counter in the same row that everybody overwrites.

PROJECT.json lists each of these hazards at the line where it bites, with the
properties that watch over it or the reason why none does yet.

## Modules

| module | models | builds on |
|---|---|---|
| `JobRow` | a row, and what every handler makes of the row it read | - |
| `Controller` | table, directory, cleaner, all handlers, for arbitrary clients | `JobRow` |
| `JobStore` | the abstract table: rows are taken, and put back whole | `JobRow` |
| `Worker` | poll loop and job goroutines, requests as parameters | `JobRow` |
| `Youdl` | the whole system: workers and a user as the controller's clients, the network, crashes, timeouts | `Controller`, `Worker` |
| `RateLimiter` | the fixed-window limiter of submissions | - |
| `Admission` | the caps: several submitters, submissions at once | - |
| `UploadThrottle` | the rate-limited reader of one upload | - |
| `TempFiles` | a worker's directory, shared by its downloads | - |
| `FormatChoice` | from the formats yt-dlp lists to the streams that are downloaded | - |
| `MCController`, `MCYoudl` | constants of the checked instances | |
| `MCParts` | constants, and the sum of the five modules before | the five |
| `ControllerProofs` | the controller's inductive invariant, and that rows stay legal | `Controller`, TLAPS |
| `StoreProofs` | that the controller implements the abstract table | `ControllerProofs` |
| `UploadProofs` | that a done job has its whole file, and a described one its formats | `ControllerProofs` |
| `YoudlProofs` | the whole system: settled jobs, attended jobs, the abstract table, files, rows | `Youdl`, `UploadProofs`, `StoreProofs` |
| `LimitProofs` | the bounds of the limiter, the caps and the throttle | `RateLimiter`, `Admission`, `UploadThrottle`, TLAPS |
| `TempFilesProofs` | what is uploaded from a worker's directory | `TempFiles`, TLAPS |
| `FormatProofs` | reports, queued choices and the automatic choices | `FormatChoice`, TLAPS |
| `PartsProofs` | the types of the parts, as the sum of them is checked | `MCParts`, the three before |

### How state and steps correspond to the code

*Rows.* `Row` has the columns that some handler branches on. `Assigned`,
`Reported`, `AfterFailure`, `Described`, `Selected`, `Canceled` and `Uploaded`
are the assignments of the handlers between reading and writing, as functions
from row to row. Job identifiers are numbers in the order of `created_at`, by
which `AssignableJob` orders; because the time is taken before the insertion,
`SubmitInsert` may pick any unused number.

*Requests.* A request occupies a slot of `calls` from arrival to reply. `pc`
says which statement comes next, `row` is the copy of the row it holds. One SQL
statement (the database has a single connection, `db.go:23`) or one file
operation is one step, so the statements of different requests interleave as in
the program. `Hold` is a `GetJob` followed by assignments to the copy,
`UpdateJob` the shared last step of all handlers: it writes every column, and
nothing if the row is gone. `NotFound` is every handler's 404.
`DatabaseError` lets any statement fail where the handler looks at the error;
`CooldownWorker` and `DeleteJob` contain the errors the code ignores.

*Files.* Per job and name, a file is absent, partial or whole. `UploadCreate`
truncates; `UploadCopied` completes the file unless it was removed meanwhile
(an unlinked file is written but has no name) and leaves either state while
another upload still writes to it; `UploadBroken` removes the name.

*Cleaner.* `Expire` is the passage of `JOB_TTL`, counted from `created_at`
whatever the status: `old` are the jobs created before the cutoff, and like the
time of creation it outlives the row. `ExpiredJobs` is the query, the rows among
them; `Scan` takes its snapshot, `RemoveFile` and `DeleteJob` handle one item
after the other.

*Worker.* `loop` is `Run`'s select loop, `tasks` are the goroutines started by
`go w.processJob`. A goroutine alternates between local work, which succeeds or
fails, and one request whose answer it awaits. `Youdl` ties the two together,
as `SpecSystem`: the slots of `Controller` are the clients' own, one for each
worker, goroutine and the browser, and a few for strays. A request whose
client gave up (`TimesOut`) goes on in a stray slot, and one whose client
crashed goes on in place until `AnswerDropped`.

*Abstract table.* In `JobStore` a handler takes a row while it exists, decides
at that moment and from that row alone what to make of it (`Changes`), and puts
the result back whole, at most once, at any later time, if the row still
exists. `Controller` implements it with `held` as the rows that its requests
hold. Everything else (checks, formats, files, cooldowns, failing statements,
restarts) is invisible in the table. So is the client: in `Youdl` a handler
whose client gave up goes on in another slot, with the row that it holds, which
is the abstract `HandOver`; no step of `Controller` alone is one.

*Rate limiter.* A slot holds the time left until its reset; `Over` is
`now.After(reset)`, so the last instant still belongs to a window. `Tick` lets
time pass. The slots are in memory only (`server.go:37`), so `LimiterRestarts`
empties them, at any time. History: `ages` says how long ago each client's
latest requests were let through by the controller as it now runs, as many as
twice the limit, the youngest first (`Latest`).

*Caps.* `Submits`, `CountPerIP`, `CountTotal` and `InsertJob` are the steps of
`handleSubmit` between which other requests run. Jobs are only counted; they
end, and a stale write may make them active again (`JobRevives`), which
`Controller` shows to happen. `Total` is the number of active rows (`Counted`).

*Throttle.* One `Read` is one step, with or without the sleep; `gap` is the
time since `last`, `clock` the time since the upload began. How much a read
returns and how long it takes is open. Integer division stands for the
truncations in the code.

*Temporary files.* A name holds bytes of a download, whole or not, and a cut of
them, a piece of one, or neither. Everything that happens to two names takes two
steps, and `WorkerStops` (a crash, or the signal that also kills the children)
may come between any two. yt-dlp and ffmpeg are external: yt-dlp continues
working files (`YtdlpWrites`), makes the output of them (`YtdlpMakesOutput`: by
a rename, or by a merge or conversion that leaves them), then deletes them one
by one (`YtdlpTidies`), does not write an output twice (`YtdlpHasOutput`), and
may fail at any point; ffmpeg writes the cut beside its input (`TrimStarts`,
`TrimEnds`). What they write is not whole only if another child writes to the
same file meanwhile (`Disturbed`). `Download` ends in `TakeOutput` or
`MissOutput`, whatever yt-dlp's exit status. The rest is `downloadJob`:
`TrimSwaps` removes the input of a cut; every other `os.Remove` is the last
thing a goroutine does, after it has reported (`TrimFails`) or after the upload
has made the job done (`UploadFile`), so the goroutine `Leaves` the name to
`RemovesLate` and the next attempt may begin before. Which names a title's
pattern matches is a constant. History: `torn` are the downloads that stopped
with an output and streams side by side.

*Formats.* `Posted` is the loop of `FetchMetadata`, with `Take` for one round
and the identifiers seen so far. `FirstGreatest` is every loop for a best
format, with `Better` as its strict comparison: over `Heights` for the tallest
muxed format (`TallestMuxed`), over `Rates` for the audio stream of the highest
bitrate that fits a container (`Loudest`). Loops are recursive functions of the
number of rounds. `Describe` is the metadata handler; `SelectBoth`,
`SelectVideo` and `SelectAudio` are the three modes of
`handleFormatSelect`, `BestAudio` is `bestAudioItag`, on any order of rows that
`ORDER BY bitrate DESC` permits. The statements are one step here: their
interleaving is the subject of `Controller`. A video lists the same formats
whenever it is asked; if that changed, a queued choice could be outdated.

*Abstractions.* In `Controller` the honeypot, the rate limiter and the URL checks are one
nondeterministic refusal, the checks of itags and trim options another. Stored
formats are reduced to the three kinds of list that `handleWorkerJobMetadata`
distinguishes. Of the workers table only `cool_until` is kept.

*Bounds* (all are constants): `Requests`, `Sources`, `Choices` restrict what
clients send; `Timers` and `Faults` switch timers and faults on; `MaxFailures`
bounds the failure reports per job and, with them, everything that goes wrong
with it (a local failure, a broken transfer, a lost message); `Tasks` bounds
the goroutines, for the code does not; `Strays` the requests that outlive their
client's patience. `uploads` saturates at 2. In `Youdl` a worker polls only
when the table has a job for it: any other poll would change nothing when
served alone, and one that finds its job taken meanwhile is still possible.

## Runs

| run | instance | checks |
|---|---|---|
| `ctl_requests` | `Controller`, 1 job, 2 requests at a time (submit, poll, running, failed, metadata, select), 2 workers, failing statements, restarts | `RowsLegal`, `DescribedHasFormats`, `WorkIsClear`, `FailsOnlyAfterRetries` |
| `ctl_uploads` | `Controller`, 1 job, 2 requests at a time (submit, poll, failed, upload, cancel, status), cleaner, failing statements and transfers, restarts | `DoneFileWhole`, `DeletedStaysDeleted`, `ImplementsJobStore` |
| `workers` | `Youdl`, 2 workers with a goroutine each, a user who selects, broken transfers | `RunningIsAttended`, `SettledStaysSettled` |
| `progress` | `Youdl`, 1 worker, a user who selects and cancels, cleaner, fairness | `RunningEnds`, `PendingEnds`, `ExpiredIsDeleted`, `ImplementsJobStore` |
| `faults` | `Youdl`, 1 worker, crashes, loss, timeouts, broken transfers | `DoneFileWhole`, `SettledStaysSettled` |
| `parts` | `RateLimiter`, `Admission`, `UploadThrottle`, `TempFiles`, `FormatChoice` (see below) | `TypeOKParts`; `WindowBound`, `LimitedOnlyWhenFull`; `CapsBound`; `BurstBound`, `ThrottledUploadEnds`; `OwnContent`, `WholeAfterSuccess`; `ReportKeysUnique`, `QueuedIsDownloadable`, `AutoAudioIsBest`, `UnaskedIsTallest` |
| `throttle`, `titles` | `UploadThrottle`, `TempFiles` | one statement each, violated |
| `claim`, `done_file`, `crashed`, `orphans` | `Youdl`, smallest instances | one statement of the documentation each, violated |

What they show:

* `RowsLegal`: a stale write may bring back an old row, but never a mixture. A
  queued job always has a mode and no worker, a pending one no mode, a done one
  a file, and a failed one has used up its retries.
* `WorkIsClear`: `processJob` never meets a status it does not expect, and
  `Download` never an unknown mode.
* `FailsOnlyAfterRetries`: concurrent failures may be forgotten, never invented.
* `DoneFileWhole`: a job that was uploaded once has its whole file when it is
  done, whatever breaks, is canceled or restarted meanwhile (`ctl_uploads`), and
  also if its worker crashed or gave the upload up while the handler went on
  (`faults`). The condition is needed: see `done_file`.
* `DescribedHasFormats`: formats and row are stored by two statements without a
  tie between them, but until it expires a job that waits for a choice, or knows
  what to download, has its formats stored, whatever statement fails and
  wherever a restart comes between (`ctl_requests`). That the cleaner's failing
  deletions take them only from jobs past their time is part of the theorem, not
  of the run.
* `DeletedStaysDeleted`: a handler that still holds a deleted job's row does
  not bring it back (`ctl_uploads`), also when its client no longer waits for it
  (proved).
* `RunningIsAttended`: as long as no process dies, no message is lost and no
  statement fails, no job is left running without a goroutine that will report how its download
  ended, however polls, stale rows and reports cross.
* `SettledStaysSettled`: a job that is over, and for which no goroutine and no
  request is alive, stays as it is until it is deleted, with crashes, losses
  and timeouts too. While one of them *is* alive the code gives no such
  guarantee: a late report or upload does revive canceled, failed or done jobs.
* `RunningEnds`, `PendingEnds`, `ExpiredIsDeleted`: nothing stays running or
  pending for ever, and the cleaner gets every expired job.

* `ImplementsJobStore`: all of the handlers, with every interleaving and fault,
  amount to taking and putting whole rows. In particular the conditions that a
  handler checks (a job is ready, active, assignable) hold of the row it took,
  but nothing is checked when it is put. `progress` shows it of the system whose
  messages arrive; that it holds with crashes, losses and handlers that survive
  their clients' patience too is proved, for TLC takes too long with all of them.
* `WindowBound`, `LimitedOnlyWhenFull`: while the controller runs, a client gets
  less than twice the limit through in any stretch of a window's length, and
  twice the limit less one is possible; whoever is refused did use the limit up
  within the last window, and since the last restart. A restart empties the
  slots and with them the history: nothing is claimed of a stretch with a
  restart in it, and as many again do get through after each.
* `CapsBound`: each further submission at the same moment, and each job that
  comes back to life, may exceed a cap by one, and nothing else does.
* `BurstBound`: the rate that the throttle does guarantee, which is far from
  the configured one. `ThrottledUploadEnds`: the grant of at least one byte
  keeps every upload going, also below ten bytes per second, where the grant of
  a tenth of a second is none at all.
* `OwnContent`, `WholeAfterSuccess`: unless titles meet, what failed attempts,
  crashes, late removals and other downloads leave in the directory never ends
  up in an upload that should not have it, once yt-dlp itself succeeded.
  `WholeAfterSuccess` has two exceptions, both found as counterexamples and both
  real. One is `torn`: a kill, or a failure of yt-dlp, after it made `title.mp4`
  and before it deleted `title.f137.mp4` leaves both; the retry is content with
  the output, but the first name that matches is the stream, and the stream is
  uploaded. The other is about cuts: a failed merge leaves a single stream, which
  is taken and cut; the cut is left over when its upload fails, and the next
  attempt takes it for its output. A piece of a cut that a kill leaves behind is
  harmless: its name does not match, and ffmpeg overwrites it.
* `ReportKeysUnique`, `QueuedIsDownloadable`, `AutoAudioIsBest`,
  `UnaskedIsTallest`: whatever yt-dlp lists, the report can be stored, what is
  queued names stored streams of the right types, and the automatic choices are
  the best ones, with two exceptions that `QueuedIsDownloadable` names.

`MCParts` is a sum, not a product: the five parts share no state, so a
behaviour belongs to one of them, chosen at the start, while the others keep
their initial state. Its bounds: a limit of 3 in windows of 2 ticks (a border
between windows within a window's length, with requests on both sides); 3
submissions by 2 submitters under caps of 1 and 2 (both caps reached, each
exceeded by two); limits of 3 and 30 bytes per 100 ticks (a grant of none and
of 3, a refill of one byte after 34 ticks and after 4) with a shortest wait of
one tick, which a grant exceeds tenfold, where the code's millisecond makes that
a hundredfold, so that the run is milder than the code; a file that outlasts
the first second's bytes; one download of a single file that is cut and one of
two streams, with two attempts each (what one leaves is what the next finds,
so that two show every case; a third adds states and no new kind of them);
lists of up to 3 out of 11 formats of all types, with missing bitrates,
heights, notes, codecs and identifiers, and with repeated ones.

One job is enough for the properties of `Controller` and `Youdl`: handlers touch no row but their own,
and jobs compete only for workers (`Tasks`) and for the caps, which
`Admission` treats. Two requests at a time show every overtaking of one
handler by another between any two of its statements; the theorems below hold
for any number of both. Two retries instead of three keep a requeueing and a
final failure, the only distinct cases. `CHECK_DEADLOCK FALSE` appears in the
`Youdl` configurations because the system comes to rest there: the jobs are
done and workers do not poll in vain. In the `Controller` configurations,
requests keep arriving and deadlock is checked.

*Symmetry* is used for the slots of `ctl_requests` and `ctl_uploads`, which are
only compared for equality and where no liveness is checked.

### Fairness

`FairSystem` assumes weak fairness of every step of a handler that has started
(the Go scheduler, an open connection), of every worker and goroutine (a ticker
fires again, yt-dlp and ffmpeg end), of the dropping of answers nobody takes
and of the cleaner (a ticker in a goroutine that never returns). No job is
assumed to expire, so that `RunningEnds` and `PendingEnds` do not rest on the
cleaner. Nothing is assumed of the user: a job that is ready may wait for a
selection until it expires, and failures are bounded, not excluded.

`FairParts` assumes only that the HTTP client goes on reading the file it
uploads; a broken connection would end the reader as well.

### Disagreements with the documentation

* `claim`: `AssignJob` "claims" the job it finds (`queue.go:15`), but reads and
  writes in two statements; two workers are handed the same job.
* `done_file`: a done job's "file [is] available" (`model.go:11`), but a second
  upload of a job handed out twice truncates it.
* `crashed`: of a running job the "worker is downloading" (`model.go:10`), but
  the job of a worker that stopped stays running: only pending and queued jobs
  are assignable, and nobody watches the heartbeat.
* `orphans`: the cleaner "deletes expired jobs and their files"
  (`server.go:126`), but not the file of a job that expires during its upload.
* `throttle`: the reader "limits throughput to bytesPerSec"
  (`worker/ratelimit.go:8`), but waits a millisecond and then grants a tenth of
  a second's bytes, up to 100 times the rate (10 times in the scaled run).
* `titles`: after a success, "Find the output file" (`downloader.go:248`)
  searches with a pattern made of the title; with brackets in it, the pattern
  does not match the output.

## Proofs

All theorems hold for all values of the constants that the assumptions below
allow: any numbers of jobs, workers, goroutines, names and concurrent requests,
all kinds of request and, except for `NobodyRunsAlone`, all faults.

| module | theorem | states |
|---|---|---|
| `ControllerProofs` | `Invariance` | `Spec => []IInv` |
| | `TypeCorrect` | `Spec => []TypeOK` |
| | `RowsStayLegal` | `Spec => []RowsLegal` |
| | `WorkStaysClear` | `Spec => []WorkIsClear` |
| | `FailsLateEnough` | `Spec => []FailsOnlyAfterRetries` |
| | `DeletedIsForGood` | `Spec => DeletedStaysDeleted` |
| `StoreProofs` | `StoreImplemented` | `Spec => ImplementsJobStore` |
| `UploadProofs` | `DoneHasItsFile` | `Spec => []DoneFileWhole` |
| | `FormatsAreStored` | `Spec => []DescribedHasFormats` |
| `YoudlProofs` | `SystemInvariance` | `SpecSystem => []SystemInv` |
| | `SystemTypeCorrect` | `SpecSystem => []TypeOKSystem` |
| | `SettledForGood` | `SpecSystem => SettledStaysSettled` |
| | `NobodyRunsAlone` | `SpecSystem => []RunningIsAttended`, if `Faults \subseteq {"transfer"}` |
| | `SystemImplementsStore` | `SpecSystem => ImplementsJobStore` |
| | `DeletedStaysDeletedInSystem` | `SpecSystem => DeletedStaysDeleted` |
| | `SystemKeepsRows` | `SpecSystem => [](RowsLegal /\ WorkIsClear /\ FailsOnlyAfterRetries)` |
| | `FilesOfTheSystem` | `SpecSystem => []DoneFileWhole` |
| `LimitProofs` | `WindowIsBounded`, `LimitedJustly` | `SpecLimiter => []WindowBound`, `[]LimitedOnlyWhenFull` |
| | `CapsAreBounded` | `SpecAdmission => []CapsBound` |
| | `ThrottleBoundsBursts` | `SpecThrottle => []BurstBound` |
| `TempFilesProofs` | `UploadsOwnContent`, `UploadsWhole` | `SpecFiles => []OwnContent`, `[]WholeAfterSuccess` |
| `FormatProofs` | `ReportsCanBeStored` | `SpecFormats => []ReportKeysUnique` |
| | `QueuedCanBeDownloaded` | `SpecFormats => []QueuedIsDownloadable` |
| | `AutoAudioIsTheBest`, `UnaskedIsTheTallest` | `SpecFormats => []AutoAudioIsBest`, `[]UnaskedIsTallest` |
| `PartsProofs` | `PartsTypeCorrect` | `SpecParts => []TypeOKParts` |

### The controller

None of the properties is inductive by itself: a request may write the row it
holds at any later time, so the stored rows say nothing about the next state
unless the held ones are known too. `IInv` therefore says of every request
(`CallInv`) that the row it holds is legal, that it counts no more failures
than have been reported so far, that a poll's row can be worked on, and that
the arguments have the types the handler relies on (`ArgumentsFit`). Since the
number of reports only grows, a row may be held for as long as one likes: this
is why stale writes are harmless for these properties.

The argument has three layers. The lemmas `AssignedFits` ... `UploadedFits`
show that each handler's function maps legal rows to legal rows and leaves the
retries alone, except `AfterFailure`, which adds one. `AnswerKeeps`,
`AdvanceKeeps` and `HoldKeeps` show that the three ways in which a handler
changes its call keep the invariant of all calls. `ServeKeeps` and
`BackgroundKeeps` go through the actions one by one.

The refinement (`StoreProofs`) maps every step to an abstract one: a handler's
reading of a row to `Take`, the last `UpdateJob` to `Put`, or to `Leave` if the
row is gone, insertion and deletion to `Create` and `Delete`, and every other
step to a `Leave` of the handlers that answer, or of none. Five lemmas say how
a change of one call looks through the mapping (`AnswerLeaves`, `AdvanceStays`,
`HoldTakes`, `LeaveStep`, `SameHeld`); three say that what a handler holds is one
of the abstract `Changes` of the row it read. `IInv` supplies the types of the
requests' arguments. The cleaner needs an invariant of its own, `SweepInv`: its
list names each job once, and only jobs that still have a row (so that its
deletion is an abstract `Delete`).

### Done jobs and their files

`DoneFileWhole` relates a row to a file, and a handler writes the two in
different steps. `UploadsInv` says who may write which: a request that holds a
done row is an upload that was counted, and holds its own name
(`DoneByUpload`, `DoneIsCounted`); two uploads under way for a job have been
counted twice (`OneUpload`), so that the single upload of the property is alone
with its files; until it has copied, its job is not done, and afterwards its
file is whole (`UploadOnTime`). The cleaner removes files only of jobs that
are old (`SweptAreOld`), also from a list it read long ago. Canceling,
failing or reassigning the job meanwhile, an error or a restart change none of
this: they cannot make the row done, and a broken copy never reaches the row.

The same module proves `DescribedHasFormats`, by saying the same of every held
row as of the stored ones (`FormatsSaved`): a handler that has described or
selected a job, or holds a row that somebody did, finds its formats stored, but
for the metadata handler that is about to store them. A restart forgets the
latter's row, an error ends it before it writes.

### The whole system

`SystemInv` carries `IInv` over to the requests that clients really send, and
adds what every client keeps under all faults: the types of loops and tasks, a
task's job is a job, and only polls use a worker's slot.

`SettledForGood` needs no more. If nobody is at work on a job, no request holds
its row to write it; and a row that is done, failed or canceled is not taken up
again, for a poll looks for pending and queued ones, selection for ready and
cancellation for active ones, and every other handler is called by a goroutine
that works on the job. `SettledStep` goes through the system's actions with
this argument; the faults only take clients away.

`RunningIsAttended` is about the way from a poll to a goroutine and back, and
here the requests must be known to belong to their clients. `Coupling` adds to
`SystemInv` that every request under way is awaited by the client in whose slot
it is, and is what that client asks for at this point (`AllAwaited`), and that
only a poll or a report of "running" ever holds a running row
(`RunningIsMeant`). The lemmas then classify what one step does to a job:
`StatementKinds` says that a statement takes a row, goes on, answers or writes;
`WriterAttends` that whoever writes "running" is told so, or has been, and is
itself the one that attends the job; `AttenderGoesOn` that others do not
disturb an attender. Two workers may be handed the same job (run `claim`): each
of them attends it, and when the first one reports its end, the job is no
longer running, or the other's report of "running" that revives it comes from
an attender again. `AttendedInv`, the conjunction of all this, was
model-checked on the instance of `workers` before it was proved.

The theorem's condition on `Faults` is needed, not convenient: run `crashed`
leaves a running job behind. `transfer`, uploads that break, is the one fault
that the code recovers from itself.

What is proved of the controller under arbitrary requests does not carry over by
itself, because the system does something that `Controller` does not: a handler
changes its slot when its client gives up. `ControllerStep` lists what the steps
of workers, user and network come to in the controller (a request arrives, an
answer goes, a statement, the cleaner or a restart, nothing, or `TimesOut`), and
`StepsOfTheController` proves the list complete. The lemmas of `StoreProofs` and
`UploadProofs` then serve again, and only `TimesOut` is new: in the table it is
a `HandOver` (`TimesOutSimulates`), and of the uploads it renames one
(`TimesOutKeepsUploads`: whichever two are under way afterwards were two
before, so the only upload of a job stays the only one).
`DeletedStaysDeletedInSystem` is proved of the abstract table, which never takes
a deleted job back (`StoreForgets`), and read off the refinement.

### The parts

*Limiter.* `WindowFits` ties a slot to the history: the first request that a
running slot counts came exactly when its window began, and the request that
came `RateLimit` places before it lies more than a window back; once a slot is
over, fewer requests than the limit lie within the last window. `Ordered` (ages grow along the history, and clients only wait)
turns this into `WindowBound`.

*Caps.* A submission that has passed a count but not yet inserted is as good as
a job: `PerIPBound` and `QueueBound` bound the sum of both. Each count admits
one more only while the rows are below the cap, and at most all other
submissions are past it then. The proofs need sums over submitters, which
`Total` expresses as the cardinality of a set, so that the library's facts on
cardinality apply.

*Throttle.* The bytes sent and the bytes granted are together at most what
`Allowed` grants up to the *last read*; `gap` is the time since then. A refill
adds the elapsed time's share, and truncation only takes away from it. The lemmas
on integer division come first.

*Formats.* What a loop computes for every list needs induction over the list,
and a recursive function a proof that there is one. Both are obtained from a
least counterexample: `Rounds` says that a *set* of numbers that holds 0 and,
with each number, the next, holds all numbers up to the last round, because the
natural numbers are well-founded. With the set of rounds for which a course of
the loop exists, it yields the course (`TakeLoop`, `BestLoop`); with the set of
rounds after which an invariant holds, the result: the list taken has every
identifier at most once and none that was not seen (`TakeKeeps`), the best place
is the first of the greatest values so far (`GreatestFound`). From there on
nothing is inductive but the states: a report stores what any other report
would store (`Reported` in `IInvFormats`), so a choice that named stored
streams still does after a late report, and so do the facts on its bitrate and
height. `AutoAudioIsBest` is proved of every order in which the database may
return rows, sorted or not, for the loop does not rely on it.

*The sum.* `MCParts` lets one part move and the others rest, so each of its
behaviours is one of every part (the lemma `SumOfParts`): `PartsTypeCorrect`
is read off the parts' own type theorems.

*Directory.* `Own` says of a download whose names meet no other's that they
hold its bytes only, wherever they are left over from. `Orderly` says of one
that was never torn: an output is whole, and working files exist beside it only
while yt-dlp tidies up (`OutputAlone`); what the goroutine carries from step to
step is that output or its finished cut, or is gone (`OutputTaken`), for a late
removal of an earlier attempt may take it away but never replaces it. That every
goroutine stays within the names of its own download is a lemma apart
(`PathsFit`, `Untouched`), and the frame of every step.

### Assumptions

Identifiers of jobs are natural numbers and `NoJob` is none of them,
`NoWorker` and `NoFile` are no worker and no name, `MaxRetries` is
positive, every job has a submitter, every goroutine a worker, and the bounds
are sets of the right kind. The slots of `Youdl` are those of the workers, the
goroutines, the strays and the user, which are disjoint. There are finitely many submitters and
submissions at once (caps count them). The limiter's limit and window, the throttle's
rate, size and buffer are positive. An output is not one of its own working
files and a cut is another file than its source, as yt-dlp's and `TrimFile`'s
suffixes make them. Formats are records of the columns that matter, and a list
has any natural number of them at most.

### Only model-checked

* All liveness (`RunningEnds`, `PendingEnds`, `ExpiredIsDeleted`,
  `ThrottledUploadEnds`): it rests on fairness, which is out of the proof
  system's reach.
* The runs that expect a violation show what the code does not guarantee; there
  is nothing to prove of them.

## Not modelled

* Pages, downloads of finished files, cookies, proxies, configuration and
  authentication change no state that the modelled parts read; registration and
  heartbeats write columns that nothing reads.
* URL checks and the cleaning of URLs are string processing without state.
* The trim columns, labels, sizes and titles of rows: no handler branches on
  them. That a selection never clears an earlier one's trim columns is listed
  as a hazard.
* The internals of yt-dlp and ffmpeg are external.
* The size of a file against the client's timeout: `Youdl` lets the timeout
  strike at any time.

## Plan

1. *(done)* `JobRow`, `Controller`, `Worker`, `Youdl`, their runs, the inductive
   invariant of the controller.
2. *(done)* `JobStore`, the refinement and its proof; `RateLimiter`, `Admission`,
   `UploadThrottle`, `TempFiles`, `FormatChoice` and the run of the five.
3. *(done)* Proofs of every invariant and action property of the passing runs:
   of the controller, its refinement of the table, the files, the limits, the
   directory, the formats.
4. *(done)* The same of the whole system, with handlers that outlive their
   clients: the table is implemented, rows stay legal, done jobs have their
   files, deleted jobs stay deleted.
5. Open: a model of the trim columns, to show the stale cut that the hazards
   list; the size of files against the client's timeout.

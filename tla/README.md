# A verification project for crosscodex-ingestion

The ingestion service takes documents over gRPC, converts them to structured
JSON in a Docling subprocess, stores the result, signs an attestation, publishes
audit events and lets clients poll for the outcome. This directory holds TLA+
models of its control, the TLC configurations that check them on small
instances, and TLAPS proofs of what matters most for instances of any size.

Paths are given from the root of the repository; `worker.py` and the like stand
for `src/crosscodex_ingestion/worker.py`.

## The system

One Python process, one asyncio event loop, a pool of threads for blocking
calls, and one subprocess per conversion.

| Component | State | Operations | What makes it correct |
|---|---|---|---|
| gRPC service (`service.py`) | none of its own | ConvertDocument, GetDocument, ListDocuments | an accepted document gets an outcome; paging shows every document |
| Embedded dispatch (`dispatch.py`) | `_tasks`, `_queued`, an `asyncio.Semaphore` | dispatch, `_run_with_semaphore`, shutdown | slots are conserved, no wake-up is lost, what shutdown refuses never starts, shutdown ends |
| NATS dispatch (`dispatch.py`) | `_nc`, the connection the calls share; what the client of NATS keeps while it is lost | dispatch, `_connect`, shutdown | an accepted document is queued, no job lacks a record, connections are shared and closed |
| Conversion pipeline (`worker.py`) | how far each conversion is, its exception | run_conversion, record_failure | COMPLETED only with the result stored; one final outcome; it agrees with the audit trail |
| Document store (`state.py`) | records, in memory or in Redis | create, get, update, list_documents | updates are not lost or undone; pages cover the list |
| Object storage (`storage.py`) | files or S3 objects | upload, download, exists | what was reported as stored is there |
| Audit publisher (`audit.py`) | a NATS connection, or the log | connect, publish, close | an outcome is handed over once, a failure only after it was recorded |
| Docling subprocess (`converter.py`) | a temporary directory, a thread, a process group | convert_document | nothing is left running, no directory is left behind, a verdict is final |
| Process life cycle (`server.py`, `__main__.py`) | the phase of the shutdown | serve, the signal handler | every accepted document is settled when the process ends |
| Test PKI (`scripts/devpki.py`) | a directory of keys and certificates, a lock | ensure, verify | never a partial set, one set for N racing callers, kills are repaired |
| Element extraction (`extractor.py`) | within a call: the element list, the stack of open headings, what the current parser holds back | extract_elements | elements hang under the right headings, nothing is lost or doubled, the fallbacks run |
| Input validation and download (`security.py`) | within a call: the URL, the hops, the bytes written | validate_*, sniff_format, fetch_url | requests and bytes are bounded, what is cut short is explained |
| Attestation, TLS, configuration, metrics | none that changes | | |

How they interact: ConvertDocument creates the record and hands the document to
the dispatcher, which creates a task. The task waits for a slot of the
semaphore and runs the pipeline, which awaits the store, the download, the
subprocess, the uploads and the audit publisher. Everything that awaits can be
overtaken by any other coroutine at that point, and by a cancellation: the
shutdown cancels queued tasks, later running ones, and `asyncio.run` cancels
the rest. In distributed mode ConvertDocument awaits the store, the connection to
NATS, which concurrent calls race to open, and the acknowledgement of the job
it publishes instead. Threads and processes run beside the loop and do not stop when the
coroutine that waits for them is cancelled. Redis and NATS can fail, and a
write that was given up can still be applied.

That is where the hard behaviour is; `PROJECT.json` lists it as hazards, each
at its line.

## The modules

### Worker

`run_conversion` and `record_failure`, one coroutine per document, with the
calls on the store, the storage and the publisher.

* `pc[d]` is the call the coroutine is making; one action is the return of a
  call and all the code up to the next one, so what Python runs between two
  awaits is one step. `MarkedRunning`, `Fetched`, `Converted`, `Uploaded`,
  `Attested`, `Audited`, `MarkedCompleted` are the successes, `Raise` is the
  entry to the two `except` clauses, `FailUpdated` and `FailAudited` are
  `record_failure`.
* `loop` is the coroutine that holds the event loop. The in-memory store and
  the log never suspend, so their callers keep the loop (`Suspends`); this is
  what makes the in-memory configuration atomic and Redis not.
* `cancel[d]` is requested at any time and delivered (`CancelDelivered`) at the
  call the coroutine is suspended on. Inside a handler the exception escapes,
  as a second exception does in the source.
* `Abandon` is what a call leaves behind when it ends in an exception: a write
  to Redis may have been applied, or not, or be applied later (`stray`,
  `StrayLands`; only with `Outages`), an event may be on its way, an upload
  whose thread has not started is dropped. An upload that has started goes on
  (`ThreadEnds`); one that fails is recorded as invalid content after a
  ValueError, which `storage.upload` and `create_link` can raise, or else as
  an internal error (`Uploaded`, `UploadFailed`).
* `rec[d]` is the record reduced to status and error code, `file[d][f]` what
  became of an upload, `events[d]` the audit events handed to the publisher, in
  order. `audit.py:107` is a publish of core NATS: it returns when the event is
  written or, while the client reconnects, buffered, and the buffer goes with a
  connection that is given up or closed. So every event over NATS with
  `Outages` is `lost` or not (`Publications`); the log loses nothing.

Bytes, hashes, spans, metrics and messages are abstracted; format, URL and hash
checks are the nondeterministic errors of the actions that run them.

### Dispatch

EXTENDS Worker with ConvertDocument, EmbeddedDispatch and `serve()` from the
signal on. `tasks`, `queued` and `permits` are the fields of the same names;
`slot[d]` is the state of a task's future in the semaphore's queue and
`ahead[d]` its place in it. The semaphore is CPython's, modelled from how
`async with self._semaphore` uses it: `release` wakes the first waiter by
granting it a permit that the waiter takes when it runs, a waiter that was
granted and then cancelled hands the permit back, and one that wakes up wakes
others while permits last. `phase` is how far `serve()` has come. `server.stop` refuses new calls
only, so a call that was under way at the signal is accepted in `stop_rpcs` as
well (`Opened`), and what shutdown cancels includes its task. `Closed` is
`audit.close()`, which suspends, and `Returned` the end of `serve()`, at which
`asyncio.run` cancels what is left.
`drain[d]` the `record_failure` of a queued document within `gather`.
`Convert` composes: a step of `Resume` of Worker, and when it ends the slot is
released in the same step. A finished task leaves `_tasks` in that step too; in
the code its callback runs on the next turn of the loop, which only `shutdown`
could tell, and there `asyncio.wait` returns finished tasks at once.

### DocumentLifecycle

What a client that polls sees: absent, PENDING, RUNNING, then COMPLETED or
FAILED, at most `Capacity` RUNNING, refusals only while stopping, nothing
accepted any more then, and every accepted document reaches an outcome.
`Dispatch!Lifecycle` instantiates it with the status of the records, and with
`stopping` from the return of `server.stop` on: until then calls that are under
way are still accepted; `ImplementsLifecycle` is the refinement, for the
in-memory store, liveness included.

### Converter

One call of `convert_document`. The coroutine steps from await to await
(copy, spawn, communicate, reap) and then through its `finally` (sweep, rmdir);
the thread of `shutil.copy2` (`CopyStarts` and then the file it creates, which
nothing can call back), the worker, its helpers and the child watcher
are processes beside it. `communicate()` waits for the worker and for everyone
who holds its stderr (`holders`): a helper inherits it and may let go of it
without ending (`HelperRedirects`). Without a temporary directory the call ends
at once (`Begin`). `_kill_process_group` is the function of that name.
Worker sees this call as its `convert` and `reap`.

### Listing

A client paging through ListDocuments with the tokens it is given while
documents are created. `Page`, `NextToken` and `PageSize` are the arithmetic of
`list_documents` and its caller; a token is an offset, or `<<>>` for the empty
string, and offsets may be negative, as a slice of Python takes them. The two stores share the same text for offsets
and tokens; with `Repeats` the store is Redis, whose SCAN may return any keys
(`twice`) two times, so that every call cuts its page from a list of another
length. `dropped` records that a repetition of one call was gone in the next:
the one way in which a document is skipped, which `NoneSkipped` says.

### Source

Where the bytes of a document come from and the checks of `run_conversion` on
them: an upload, or `fetch_url`. One action is one request, read or check.
`validate_url` is an answer of the DNS, asked anew at every use, and `Get`
resolves the name once more and asks `_check_peer_is_public` before a byte is
sent. A body is counted in units and framed by a length, by chunks or by the
end of the connection, which may come early or with an error (`Cut`). `sniff_format` is the
function of that name on what bytes, header and extension look like; it runs on
the first chunk with the header of the answer and the last URL, and again in
`Checked` (`validate_format`) with the client's metadata and first URL.
`ReadOver` has the behaviour of `iter_content` that the first finding below is
about: breaking off a loop over a chunked body closes it.

### Extractor

`extract_elements`, turn by turn of the loop of the current parser: Docling
items, then the cascade of Markdown headings, a detected numbering and
paragraphs, each with its locals started afresh (`Start`). An item or line is
what the parsers ask of it: its label or level, whether its text is blank,
repeated or begins with an id of a candidate pattern, its number of words. The
regular expressions that answer these questions, the cleaning of text and the
page numbers are abstracted. Elements carry the items or lines their content is
taken from (`src`), which is what order and loss are stated with.

### NatsDispatch

The service in distributed mode: `Accept` to `Published` are ConvertDocument
between its awaits, begun before the signal or, for a call that was under way,
while `server.stop` waits; `Fails` the end of a call by an abort or an error, with
what it had sent done or not; `link` and `buffered` are the reconnecting client of
NATS; `Signal` to `Closed` are `serve()`. A connection is named after the call
that opened it, so the race of `_connect` is two calls in `connecting`. A
`Drained` of a connection that is being reestablished or was given up raises,
as nats-py does, and `serve()` ends there.

### DevPki

`ensure()` of `scripts/devpki.py`, called by several processes that may be
killed between any two steps. Sets of files are numbered; `whole` are those
completely written, `side` the directories beside the output.

## What TLC checks

Every run takes well under a minute. `MC<Module>` instantiates `<Module>`.

| Run | Instance | Checks |
|---|---|---|
| dispatch_memory | 3 documents, 2 slots, memory store and log | `TypeOK`, the accounting of the semaphore, `OutcomeRecorded`, `TerminalIsFinal`, `ShutdownSettles`, `ImplementsLifecycle`, `ShutdownEnds` |
| dispatch_redis | 2 documents, 1 slot, everything external and failing, symmetric | `RefusedNeverStarts`, `UnavailableOnlyAtShutdown`, `CompletedIsBacked`, `AuditOrder`, `AuditedFailureIsRecorded` |
| converter | 2 helpers, 2 cancellations | `WorkerNotLeftRunning`, `WorkerReaped`, `LeftoverOnlyFromCopy`, `ConversionEnds` |
| listing | 4 ids, page sizes default, 1, 2, SCAN repeats | `NoneSkipped`, `QuietWalkExact`, `RepetitionsBounded`, `WalkEnds` |
| devpki | 3 callers, 2 kills, 1 expiry | `NeverPartial`, `OneSet`, `ReturnsValid`, `FreshKept`, `CallsReturn` |
| source | uploads and answers of up to 5 units, limits of 3, chunks of 2, 2 redirects | `RequestsBounded`, `WrittenBounded`, `ShortContentExplained`, `SniffsAgree` |
| extractor | every document over small alphabets: up to 6 headers, 4 mixed items, 5 Markdown or numbered lines, 3 lines of prose | `HierarchyCorrect`, `SourceOrder`, `LossExplained`, `CascadeSound` |
| nats | 3 calls, outages | `AcceptedIsQueued`, `ConnectionsExplained`, `OrderlyExit`, `NatsShutdownEnds` |

The pipeline (Worker) is checked as part of the two dispatch runs, whose states
contain its own: with the memory store and every cancellation a shutdown can
cause, and with Redis, NATS and outages.

Why the bounds are enough. Conversions of different documents share nothing in
Worker but the loop and the publisher, so two show every interaction between them. Three
documents on two slots have, at one time, one converting, one granted or
converting and one waiting, the smallest instance in which a grant, a release and a
cancellation overlap and a later waiter could overtake; two on one slot suffice
where the store can be late as well. Cancellations of the pipeline are those of the
shutdown, and the proofs cover any; the Converter allows two because the second one can cut
short the wait that the first one caused, and a third finds nothing to
interrupt. Page sizes of 1, 2 and 50 on 4 documents give walks of one to four pages
with borders on and off the end. Two kills put one kill inside the repair of
another. In source the limit of 3 units is met, missed and passed by a body
that is read as 1 + 2 + 2, and three requests fill two redirects. In extractor
every limit (three repetitions of a heading, three ids, five words) can be
reached and missed by one; a stack of three levels can be popped by
one, two or all. Three calls make a race for the connection beside a call that
finds it set.

### Four disagreements

| Run | Source says | Code does |
|---|---|---|
| fetch_truncated | security.py:307, "Download *url* to a temporary file" | `fetch_url` leaves the loop over the first chunk with `break` (`security.py:379`), which closes a chunked answer; the second loop finds nothing, and at most 512 bytes are converted as the document |
| dispatch_cancelled | README.md:186, a conversion cancelled by the shutdown "ends `FAILED`" | with Redis, a cancellation that hits `record_failure` inside the handler of another exception escapes (`worker.py:397`), and the document stays RUNNING |
| worker_final | worker.py:11, "PENDING → RUNNING → COMPLETED/FAILED" | with Redis, a cancellation during the update to COMPLETED is handled after the update was applied (`worker.py:351`), and COMPLETED becomes FAILED |
| converter_group | converter.py:144, "the whole process group ... is SIGKILLed" | a worker that exited before the timeout has a return code, so its helpers are not killed (`converter.py:237`) |

Each of these runs checks one property, and TLC's shortest trace is the
scenario described. Two further weak spots are stated as the exact condition
under which they happen, in properties that hold: the temporary directory
outlives `convert_document` only if a cancelled copy ran on
(`LeftoverOnlyFromCopy`, against converter.py:146, "the temp directory is
removed either way"), and over Redis a walk ends without a document only if SCAN
repeated a key in one call and not in the next (`NoneSkipped`, state.py:130).

## Fairness

* A coroutine that can go on does (`WF` on `Resume`, `Task`, `Created \/
  CreateLost`, `Drain`, `Coroutine`): asyncio runs every ready callback.
* Threads end (`ThreadEnds`, `Copy`): uploads are file writes or boto3 calls,
  which time out. Redis and NATS answer or fail. The clients are built without
  a socket timeout, so for Redis this is an assumption on the network and not a
  fact about the code; with a silent Redis no liveness property holds.
* `MAX_PROCESSING_TIME` fires (`TimedOut` is part of `Coroutine`), and the child
  watcher reaps a dead child. A worker or a helper is *not* assumed to end by
  itself, and `ConversionEnds` holds nevertheless.
* A started shutdown goes on (`phase # "serving" /\ Serve`), but nothing makes
  a client call, a signal, a kill or a cancellation happen.
* In DocumentLifecycle the start of a document is strongly fair: slots come and
  go, and the first-in first-out queue of the semaphore must provide it.
* In NatsDispatch every await of a call ends (`NatsFairness`): the publish and
  the connecting of nats-py have timeouts, `server.stop` aborts what is left
  after the grace period, and `serve()` goes on. Nothing is assumed of the
  connection: it may stay lost for ever.
* A client that pages keeps asking; each call of `ensure` is scheduled. Under
  weak fairness of `Lock` alone a caller could be overtaken for ever, but every
  other caller returns once.

Deadlock is checked in every run. Where a system really ends (all conversions
done, process exited, call returned, walk ended) a stuttering disjunct says so.

## What is proved

`DispatchProofs` (the pipeline by itself, then the service around it),
`OutcomeProofs`, `NatsProofs`, `ConverterProofs`, `DevPkiProofs`,
`SourceProofs`, `ExtractorProofs` and `ListingProofs`, checked by TLAPS, for every set
of documents, every `MaxConcurrent`, every choice of backends, any number of
helpers, callers, calls, cancellations, kills and expiries, every document, body,
redirect and limit. Every invariant and action property that a passing run
checks is a theorem, and so is the safety half of the refinement. Assumed are only

* `WorkerAssumption`: `Free` is not a document, the switches are Booleans;
* `DispatchAssumption`: `MaxConcurrent` is a positive number, the documents are
  finitely many;
* `ConverterAssumption`: `MaxCancels` is a number;
* `DevPkiAssumption`: `Nobody` is not a caller, the callers are finitely many,
  the bounds are numbers;
* `NatsAssumption`: `None` is not a document, the documents are finitely many;
* `SourceAssumption`: the limits are numbers, a chunk is not empty, requests and
  bodies have the fields of theirs;
* `ExtractorAssumption`: the limits are numbers, a document is a sequence of
  items and lines, and its first line begins a paragraph;
* `ListingAssumption`: ids are numbers, finitely many, page sizes are integers.

Two kinds of theorem have a condition of their own. Recorded and final outcomes
and the refinement are about the in-memory store (`~Redis`; two of the disagreements
above show why). What is proved of pages is about clients that name no negative
page size: with one, offsets run below zero and the tokens need not end.

Most type invariants are proved and not among the properties of a run.

Of the pipeline and the dispatcher:

* `WorkerTypeCorrect`, `TypeCorrect`: the type invariants.
* `CompletionIsBacked`: `CompletedIsBacked` for the pipeline in any environment
  that starts and cancels conversions at will. By itself it is not inductive:
  a stray write of COMPLETED makes it true of the record before or after the
  fact. What it says of the audit trail is that the completion was handed to the
  publisher before; whether it arrives depends on the connection to NATS, and
  only there can it be lost. `BackedInv` adds `Progress(d)`: how far `pc[d]` has come tells what is
  stored and handed over, and COMPLETED is claimed, by the record or by a stray
  write, only when everything is in place and the conversion is past its last
  call. `ResumeBacked` has one step per action of the pipeline.
* `ServiceCompletionIsBacked`: the same for the whole service, by the lemmas
  about `Resume` and `Outside`, because a step of the dispatcher or the
  shutdown writes PENDING or FAILED only.
* `SlotsAreConserved`, `ConcurrencyIsBounded`, `WakeupsAreNotLost`,
  `QueuedHaveNotStarted`, `RefusedNeverStart`: all from one inductive invariant
  `IInv == TypeOK /\ Jobs /\ Permits /\ NoLostWakeup`. `Jobs` ties the task, its
  slot, its place in `_queued`, its pending cancellation and its pipeline
  together; a refused document never starts because as long as its task lives
  it has an undelivered cancellation. `LeaveEffect` describes what a permit
  handed back does to the queue, and `NoLostWakeup` is inductive only with the
  accounting of permits.

* `OutcomesAreRecorded`, `TerminalStaysFinal`: with the memory store. `Settling`
  says for every point of the pipeline what the record and the outcome can be, and
  `Settled` keeps it for ended conversions; it needs that such a store never
  suspends its caller, so no cancellation can fall between write and return.
* `AuditIsOrdered`: `Trail` gives the events that each point of the pipeline
  allows, also while an event may be on its way or its fate is unknown.
* `AuditedFailuresAreRecorded`: `record_failure` writes before it publishes.
  `Kept` says for every point of the pipeline and of the drain what a document
  whose failure was published has in its record and in its stray writes, and
  `Excused` which of them a late write may contradict: those that failed by an
  error of the service or a cancellation, over Redis with outages. The others
  have left no write behind but one that says FAILED, because only a call that
  raised or was cancelled leaves one.
* `ShutdownIsSettled`: `Shutting` ties the phases of `serve()` to what can still
  be running, and `Accounted` the documents accepted to their outcomes and events.
* `UnavailableAtShutdown`: `Blamed` traces an UNAVAILABLE, in a record or in a
  stray write, back to a cancellation, and those to phases of the shutdown.
* `RefinesLifecycle`: with the memory store every step of the service is a step
  of DocumentLifecycle or a stutter. `Shown` says which of its five states each
  point of the pipeline and the dispatcher shows to a client; that a start is
  always allowed (`RunningFits`) is `SlotsConserved`: who is RUNNING holds a
  slot.

Of the subprocess, from `CInv == ConverterTypeOK /\ Processing /\ Verdict /\
Copying`, which says for each await of `convert_document` what the processes,
the outcome and the copying thread can be:

* `WorkerIsNotLeftRunning`, `WorkerIsReaped`, `VerdictsAreFinal`,
  `LeftoversAreCopies`. That a verdict is final needs that the return
  code at hand is the one the worker exited with, so that a worker that was
  killed gives none (`Processing`), and the leftover directory that a thread can outlive the
  `finally` only if the call was cancelled at the copy (`Copying`).

Of the test PKI, from `PkiInv == PkiTypeOK /\ Locked /\ Stages /\ NeverPartial`:
`Locked` says that exactly the holder of the lock is inside `ensure`, `Stages`
what the step it is at implies about the sets:

* `NeverAPartialSet`, `FreshIsKept`, `ReturnsAValidSet`, and `RacersMakeOneSet`.
  The last one counts: `Explained` charges every set made, but the one supplied
  now, to an expiry, a kill or a failed call, each of which pays once.

Of the distributed service, from `NatsInv == NatsTypeOK /\ CallInv /\ LinkInv
/\ ExitInv`:

* `AcceptedAreQueued`, `ConnectionsAreExplained`, `ExitIsOrderly`. The count of
  connections is inductive only together with the calls that are connecting
  (`LinkInv`): once a connection is kept nobody starts to connect, so the
  connections and those calls are never more than `together`. That fewer than
  `together` connections stay open needs the one that the drain closed
  (`ExitInv`).

Of the download and the checks, from `SourceInv`:

* `RequestsAreBounded`, `WritesAreBounded`. `Hops` counts the
  requests by the redirects followed; only a request that was sent and not yet
  redirected is ahead of them. `Amount` says at each step how much was read, and that only a
  chunked body that was closed, or one whose end is that of the connection, is
  cut short.
* `ShortContentIsExplained` and `SniffsDoAgree`, which need `Detection`: the first
  look at an upload saw what the second will see, and the first look at a
  download whose first bytes tell its type believed them.

Of the element extraction, from `ExtractorInv`:

* `HierarchyIsCorrect`: `Nested` describes the stack of open headings. Places
  and levels rise along it, and every heading before is closed by one on the
  stack that comes no earlier and has no larger level; so what the loop leaves on
  top is the last heading above the new one, although it never looks at a heading it has
  popped.
* `ElementsFollowSource`, `LossIsExplained`: `Ordered` and `Kept` relate what the
  elements took from the document to the item or line that comes next and to
  what the parser holds back.
* `CascadeIsSound`: `Sectioned` gives every line that opens a section of a
  numbered document its heading, so that there are as many as the ids it was
  accepted for; a document without elements has been through the last parser (`Place`). Where a proof would go by induction over the lines, it takes the
  least line that is different (`LeastOf`), which needs no induction.

Of the pages, from `ListingInv == ListingTypeOK /\ ... /\ (~dropped => Between
/\ Ended /\ Quiet)`. `Ends(S, T, d)` is the index at which document d ends in
the sorted list of a call:

* `NoneAreSkipped`: `Between` says that a document that existed at the first request has
  been listed or ends after the offset. `EndsGrow` keeps that when documents are
  created or repeated, which only moves others back, and `RecordAtEnd` finds
  the document in the page that passes its end.
* `QuietWalksAreExact`: `Quiet`, what was listed is the beginning of one sorted list.
* `RepetitionsAreBounded`: by counting. The offset is the length of what was listed,
  and what precedes it in the list of the last call are documents listed before, new ones
  and repetitions (`UpToOffset`).

What the proofs found. `ListingTypeOK` bounded the offset by the number of
documents; with repetitions it goes up to twice that, and a token after a
negative page size is no end of the walk even if its offset is 0, so `token`
became an optional offset. Three definitions of Source and Listing were written with a
CASE of overlapping guards, of which TLA+ may take any; they are nested
conditions now, as the code has them.

Only model-checked: liveness (`ShutdownEnds`, `ConversionEnds`, `WalkEnds`,
`CallsReturn`, `NatsShutdownEnds`) and the fairness half of `ImplementsLifecycle`,
which are out of the prover's reach.

## What is not modelled

* The worker that takes the jobs from NATS: it is not part of the repository.
* `attestation.py`, `tls.py`, `config.py`, `metrics.py`: cryptography, file
  reads, declarations.
* The regular expressions of `extractor.py` and the patterns of tenant and
  document ids.
* Startup, telemetry, the mapping of records to protocol messages.
* Time: a timeout is an event that may come at any moment, so bounds in seconds
  (the README's grace period plus 2 s) cannot be stated.
* A kill of the service: with the in-memory store nothing survives it, with
  Redis the records stay as they are. A start reads and writes no record, so a
  model of it would have nothing to add.
* The delay of the process exit by a download whose coroutine was cancelled: its
  thread ends by the timeouts of the requests.

## Plan

Done: Worker, Dispatch, DocumentLifecycle, Converter, Listing, DevPki, Source,
Extractor and NatsDispatch, with the runs above, and the proofs of all their
invariants and action properties. What could follow:

1. The conditions under which the four disagreements cannot happen, as theorems:
   for instance that `OutcomeRecorded` holds over Redis for documents that were
   not cancelled.
2. The converse of the counting theorems (`OneSet`, `ConnectionsExplained`,
   `RepetitionsBounded`): that their bounds are reached.

## Running it

    tlc -config dispatch_memory.cfg MCDispatch
    tlapm DispatchProofs.tla

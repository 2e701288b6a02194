# RAG cleaning service: specifications and proofs

This directory holds TLA+ specifications of the document cleaning service in
`src/`, the TLC configurations that check them on small instances, and theorems
that TLAPS proves for every instance. Everything is written from the code; the
sentences of the repository's documentation appear only as properties the code
is compared with (section 7).

Contents: 1 the system, 2 its parts, 3 the modules, 4 the Kafka half, 5 the
Clean call and what happens to a document in it, 6 the lock, the cache and the state
machine, 7 where documentation and code differ, 8 what is proved, 9 what the models
assume, 10 what is not modelled, 11 plan, 12 running the checks.

## 1. The system

The service turns documents (PDF, DOCX, XLSX, PPTX, images, Markdown, text) into
Markdown and metadata for a retrieval pipeline. One process runs two halves.

* **The Kafka half.** `main.start_kafka_consumer` registers handlers for eleven
  topics with a `CleaningTaskConsumer`. A task moves from topic to topic:
  submission, preprocessing, unified input, element processing, general cleaning,
  completion; failures go to the retry topic or the dead letter topic. Each
  handler only sends the task on: the cleaning itself is not called from here.
  One background thread polls, calls the handlers one record at a time and
  commits each record by hand.
* **The gRPC half.** `CleaningServiceServicer.Clean` runs the whole pipeline
  inline: it downloads the file, preprocesses it, processes its elements, cleans,
  validates, and stores a Markdown and a metadata object in MinIO. A pool of
  threads (20 in `config/settings.yaml`) serves the calls.

The halves share the process and the modules' global objects (the element
registry, the state machine factory); no message goes from one to the other.

## 2. The parts

For each part: the state it keeps, its operations, what is hard about it, and
what makes it correct. "Modelled" says where.

| Part (under `src/src/`) | State | Operations | Modelled |
|---|---|---|---|
| `communication/kafka_consumer/task_consumer.py`, handlers in `main.py` | `_running`, `_committed`, assigned partitions, fetch positions; at the broker: logs and committed offsets | `start`, `stop`, `_consume_loop`, `_process_message`, `_commit_offset`, five handlers | TaskFlow |
| `communication/kafka_producer/event_producer.py` | none of its own | `_send` and the senders | TaskFlow |
| `common/constant/kafka_constants.py`, `scheduling/format_router.py` | tables | `route`, `is_supported` | CleaningTopics |
| `scheduling/retry_scheduler.py` | `_attempts` | `should_retry`, `record_attempt`, `calculate_delay`, `reset` | TaskFlow, without the delay |
| `scheduling/dlq_manager.py` | `_tasks`, `logs/dlq.jsonl` | `enqueue`, `re_submit`, `delete`, statistics | TaskFlow, `enqueue` |
| `communication/grpc_server/cleaning_service.py` | none of its own | `Clean`, `GetTaskStatus`, `HealthCheck` | CleanService, `Clean` |
| `pipeline/pipeline.py` | none | `run`, `run_and_generate` and the stages | DocumentPipeline; ElementRegistry and CleanService for what requests share |
| `preprocessing/` | none | `extract` of seven preprocessors | Extraction |
| `elements/registry.py`, `elements/base.py`, `elements/processors/image_processor.py` | `_global_registry`, its processors, `_seen_hashes` | `get_element_registry`, `discover`, `register`, `get_for_element`, `execute` | ElementRegistry |
| `elements/processors/table_processor.py`, its copy `elements/table_processor.py` | none | `process`, `to_markdown`, `quality_score` | Tables, TableProcessing |
| `infrastructure/minio/minio_client.py` | objects | `get`, `put_*` | CleanService, the two puts |
| `scheduling/state_machine.py` | per task: status, history, errors; factory: tasks | transitions, `create`, `get`, `remove` | TaskMachines |
| `elements/cache_manager.py` | two cache levels | `get`, `set`, `invalidate` | ElementCache |
| `infrastructure/redis/redis_client.py` | keys with expiry | lock, unlock, cache access | RedisLock, ElementCache |
| `cleaning/` | none | `clean`, `filter`, `fix`, `mask`, `validate` | TextCleaning, Cleaners with PageCleaning, Quality |
| `output/` | none | `generate` of both generators | DocumentPipeline |
| `infrastructure/llm/`, `common/` | none | HTTP, settings | no (section 10) |

How they interact, and what is hard about each:

* **Consumer.** Reads through kafka-python, whose fetch position and the
  broker's committed offset are two different pieces of state; the thread may end
  between sending a record on and committing it, commits may fail and are not
  repeated, `stop` may close the consumer under the thread. Correct means: no
  record is skipped, a record is committed only after its handler ran, a run of
  the process handles each record once and in order, and only failing sends can
  lose a task.
* **Handlers and producer.** `_send` can raise although the record was written,
  and can return although it was not. Correct means: each fault costs at most
  one task, a submission survives one raised send, no task is both forwarded and
  dead-lettered unless a send raised.
* **Retry and dead letters.** The attempts are in memory, the retry topic is
  not. Correct means: retries are bounded; a task is dead-lettered exactly when its
  budget is spent; the local list never knows of more dead letters than the
  topic.
* **Registry and processors.** Requests of a thread pool create and fill one
  global registry with no lock, through module imports that call back into the
  registry; processors keep state across requests. Correct means: the registry
  ends up complete, nobody waits for ever, an image is left out only if its twin
  was processed.
* **Clean.** Two objects are put under a path that all requests for a document
  share. Correct means: what is stored comes from a whole run, and Markdown and
  metadata from the same one, except where puts failed, overlapped or were cut
  short.
* **Preprocessors, processors, generators.** A document is rewritten by a dozen loops,
  each with its own filter, counter or cut, and recognition of a scanned PDF may
  stop half way. Correct means: all content is in the Markdown, once and in order;
  identifiers are unique; tables keep their cells; the metadata fit the Markdown.
* **Cleaners.** They rewrite the elements of a page one after the other, each from
  what the one before left. Correct means: nothing but noise is lost, texts keep
  their order, one pass of each is enough, nothing a pattern masks is left.
* **State machines.** Threads look for a machine and enter one in two steps, and check a
  transition, set the status and record it in three. Correct means: all work on one
  machine per task, success comes after a whole run, and no stage is passed over.
* **Lock.** The key expires by itself, answers get lost, commands may arrive late, and
  a release may come long after the lock has gone to another. Correct means: two
  clients never both hold a lock that has not run out, and no lock stays for ever.
* **Cache.** Two levels with lifetimes of their own; reading one and filling the other
  are two steps. Correct means: how old an answer can be has a bound.

`PROJECT.json` lists the hazards line by line with the properties that cover them.

## 3. The modules

| Module | What it is |
|---|---|
| CleaningTopics | the topics, the format tables and `route` as operators |
| TaskFlow | the Kafka half: broker, consumer, handlers, producer, retry, dead letters; extends CleaningTopics |
| AtLeastOnce | abstract specification: a reader with at-least-once delivery |
| TaskFlowProps | properties of TaskFlow, and the refinement mapping to AtLeastOnce |
| TaskFlowProofs | TaskFlow: types, offsets and commits; what is lost, and how many faults that takes; what one run of the process sends, retries and dead-letters; that it implements AtLeastOnce |
| ElementRegistry | the registry and the processors as concurrent requests use them |
| CleanService, CleanServiceProofs | `Clean` from acceptance to the stored objects; extends ElementRegistry; and theorems about it |
| Cleaners | ContentFilter and StructureFixer as operators on the elements of a page |
| PageCleaning, PageCleaningProofs | the two at work on any page; extends Cleaners; and theorems about it |
| Tables | TableProcessor as operators on a table |
| TableProcessing | the same step by step on one table, with what it raises; extends Tables |
| Extraction | the preprocessors as operators from a file to a document; extends Cleaners and Tables |
| Quality | QualityValidator as operators on a document; extends Extraction |
| DocumentPipeline, DocumentProofs | `run_and_generate` on one file; extends Quality; and theorems about it |
| TextCleaning | BasicCleaner, ContentFilter and SensitiveMasker on the tokens of one text |
| RedisLock, RedisLockProofs | the distributed lock, and theorems about it |
| ElementCache, ElementCacheProofs | the two-level cache, and a theorem about it |
| TaskMachines, TaskMachinesProofs | the state machine of a task and its factory, and theorems about them |
| Folding | what folding a sequence means, for the proofs about loops |

The properties of a component X are in XProps (those of DocumentPipeline in
DocumentProps, that of TableProcessing in the module itself), its TLC constants in MCX and
its `.cfg` files. MCPageContents is for three of them: it puts PageCleaning, TextCleaning
and TableProcessing side by side, which share no data.

Definitions whose comment begins with "Wrong:" (and the `Resume...` variants next to
`ResumeAt`) are not part of the specification: nothing refers to them. Each is a
plausible bug; putting it in place of the definition that follows it makes TLC
report the property named with it in `PROJECT.json` under "mutants".

## 4. The Kafka half: TaskFlow

### State

| Variable | In the code |
|---|---|
| `log` | the records of each topic; a record is its task, the kind of its body, and the offset whose handler sent it (kept for the properties only) |
| `committed` | offsets of the consumer group at the broker |
| `proc`, `starts` | the process: `_running`, `stop`, the join, the exit |
| `assigned`, `position` | what `start` assigned; kafka-python's fetch positions |
| `next`, `cur`, `stage` | where the poll thread is: the loops of `_consume_loop`, the handler, the commit |
| `localCommitted` | `CleaningTaskConsumer._committed` |
| `attempts` | `RetryScheduler._attempts` |
| `dlqTasks`, `dlqLines` | `DLQManager._tasks`, the lines of `logs/dlq.jsonl` |
| `raised`, `swallowed`, `commitFaults`, `published` | counts for the bounds |
| `mark` | where each log stood when the last run of the process ended |

### Actions

`Publish` is another system writing to an entry topic. `Start`, `Stop`,
`StopCompletes`, `JoinTimeout`, `Exit`, `Crash` are the life of the process.
`Poll` takes up to `MaxPoll` records over all ready topics; `Take` turns to one
topic of the batch; `Reject`, `HandleSubmit`, `DeadLetterSubmit`,
`HandlePreprocess`, `HandleElement`, `HandleGeneralCleaning`, `RetryAgain`,
`RetryExhausted`, `EnqueueDlq` are the handlers; `CommitReturns` and `CommitFails`
are `_commit_offset` with the step to the next record.

One action is one effect of the thread on the outside. A handler with two effects
(the dead letter event, then the local entry) is two actions and the process may end in
between; the code between two effects touches only what the thread owns and is one
step.

How a send may go: it returns and the record is written; it returns and the
record is not (flush does not look at the future of the record,
`event_producer.py:77`); it raises and the record is, or is not, written. How a
commit may go: it reaches the broker and returns; it raises, having reached the
broker or not; on a consumer that `stop` closed it always raises.

A body is `valid`, `malformed` (the three rejections of `_process_message`, which
commit and do nothing else), `undecodable` (bytes on which the value
deserializer raises inside `poll`) or `event` (what producers write to topics
nobody in the service reads).

### Runs

| Run | Instance | Question |
|---|---|---|
| `flow_loss` | a PDF and a file of no known format; 2 submissions, 2 starts, 2 raised sends, 1 silent loss, 1 failed commit | which tasks can be lost, and is reading at-least-once |
| `flow_retry` | a task on the retry topic and on an element topic; 2 starts, 1 raised send, 1 silent loss, 1 failed commit, 1 retry | order, budgets, dead letters, committed offsets |
| `flow_live` | three files, both entry topics, undecodable records, an empty first view; 1 start, 1 raised send, 1 failed commit | does everything that should end, end |
| `flow_complete`, `flow_reroute` | small | section 7 |

What the passing runs show:

* `NoLossWithoutFault`: while no send fails, every valid record below the
  committed offset has reached the topic its stage prescribes, whatever commits
  fail and whenever the process ends.
* `LossBudget`: handlers do commit records whose send failed, but never more than
  one record per failed send.
* `SubmitLossNeedsTwoFaults`: a routable submission is lost only if its forward
  and its dead letter both raised.
* `ForwardedOrDead`: without a raised send no record is both forwarded and
  dead-lettered in one run. (With one it can be, since `_send` may raise after
  the broker took the record.)
* `ImplementsAtLeastOnce`: the consumer refines AtLeastOnce. A record counts as
  read once its last send is done, not once it is fetched.
* `OrderedPerRun`: within one run of the process what is sent on behalf of a
  topic keeps its order, without repetition, even though failed commits are never
  repeated.
* `RetryBudget`, `DeadOnlyWhenExhausted`: at most `retry_max` rounds per task and
  run of the process; a restart grants a new budget, which is what the code does.
* `DlqTrailsTopic`: the local dead letters follow the topic, never the other way.
* `CommitMonotone`: committed offsets do not go back, although `_committed` starts
  empty with every process.
* `EveryRecordHandled`, `SubmissionsEnd`: see fairness.

### Bounds

Two records from outside with a batch of two give every position of a fault in
a batch: on its first record, its last one, on a record alone, and a commit that
covers an earlier failed one. Two starts give redelivery after each kind of end
of the process; a third start would repeat the second, since nothing but logs,
committed offsets and the dead letter file survives. One retry is the smallest
budget with both branches of `handle_retry`. The logs of the inner topics are
not bounded themselves: they grow only as records are handled. In `flow_loss` the
fault counts equal what the statements distinguish (none, one, two raised sends).

### Fairness

`Fairness` is `WF_vars(Thread)`: the poll thread, which loops without waiting
for anything but the broker, keeps taking steps while it has any. Nothing else is fair:
nobody has to publish, start, stop or restart, and no fault has to stop or
happen. The liveness properties assume `StaysUp` (from some point on the process runs)
and, where they speak of particular topics, that these are assigned. They do not
promise anything on a topic that holds an undecodable record: the fetch position never
passes it, and records fetched together with it may be held back too.

Deadlock is not checked: starts are bounded, and a stopped service may stay
stopped.

## 5. The Clean call, and a document in it

### ElementRegistry and CleanService

A request is a thread of the pool. Its steps are its accesses to what the
requests share:

* `Check`, `Create`, `Discover`, `Obtain`: `get_element_registry`, which tests the
  global, sets it, fills whatever the global is by then, and reads it once more to
  return it.
* `Import`, `Exec`: `import_module` for each processor module. Python runs a module
  once, under a lock of that module; its decorator calls `get_element_registry` and
  registers with the registry it got.
* `Scan`, `RegisterScanned`: `discover` looks at the classes of the module and
  registers those that are missing.
* `Lookup`, `Match`: `get_for_element` iterates over the dictionary of processors.
  If it grows in the meantime Python raises; the call stands outside the `try` of
  the element stage, so the request fails.
* `Process`, `ProcessImage`, `Remember`, `Describe`: `execute` and, for images, the
  look-up of the hash, its insertion, and what follows, as separate steps.
* `Accept`, `Finish`, `PutMarkdown`, `PutMetadata`: the rest of `Clean`. `Finish`
  stands for cleaning, validation and both generators, which work on the
  document of the request alone and may raise.
* `Crash`: the process ends, all requests under way with it, and a new process
  serves what comes next; objects stay.

### Runs

`clean_safe`: two first requests for one document, whose file changed between
them, each with two elements, an image that both versions show and an image
without content or a table; two processor modules; one crash. It checks

* `SettledRegistryComplete`: however many registries were created and replaced by
  each other, once nobody is in `get_element_registry` the global one has every
  processor. This needs the scan that follows each import; registering by the
  decorator alone would leave it incomplete.
* `DuplicatesHaveOriginal`: an image that was left out as a duplicate has a twin
  that is being processed, or was, or died with its process.
* `StoredAreWhole`: what is stored is the result of a run through all elements of
  that document, although look-ups raise.
* `PairsMatch`: Markdown and metadata are of the same run unless two runs stored
  them at the same time, or one was cut short in between.
* `EveryRequestEnds`: the waits for import locks are never circular.

`clean_dispatch` is in section 7.

Two requests suffice for the races between "creates" and "finds", for two
registries, and for a late and an early `put`. One module per kind is enough for
an import in progress to be met or not; two give a half filled registry.
A third request, tried without finishing the search, showed nothing new in
several million states. Fairness is weak fairness of each request's steps: the
threads of the pool are scheduled, and whoever holds an import lock goes on.
Accepting a request, and crashing, are not fair. Deadlock is not checked: all
requests may be final.

### PageCleaning

What happens to the elements of one page between the element stage and validation; in
CleanService this is part of the one step `Finish`, since it touches nothing that
requests share. The state is the page (`page`), the page the preprocessor made
(`source`) and the cleaners still to run (`todo`). An element is a record of what the
cleaners look at: its role, whether ContentFilter keeps anything of it, the length of its
text and how it starts and ends, a heading's level, a list item's marker; and
`parts`, the elements of the source it is made of. `FilterContent` is
`ContentFilter.filter`; `FixStructure` is `StructureFixer.fix` with its four
passes and the rebuilding of the page. A loop is a fold, and what it does to one element is
a named step (`OrContinued`, `OrMerged`, `Relevelled`, `Renumbered`); a loop that only
picks elements is `Selected`. ContentFilter looks at texts only, so `Kept` holds of all
else. A page at a time is enough, as no cleaner carries anything from one page to the next. (That also means that the
first heading of every page becomes an h1.)

The run `contents` tries all pages of up to four elements out of twenty kinds: paragraphs
of 30, 60 and 120 characters (long alone, in pairs, or only by threes and fours)
with both kinds of start and end, headings of four kinds, both kinds of list
items, noise, and an object. Four elements are enough for a merge that feeds
another, with something between. It checks

* `NothingLost`: all texts but noise, and all objects, are still there, once, in order;
* `OnlyParagraphsMerge`: what is merged is a stretch of paragraphs. (Tables and
  images between them do not count: two paragraphs around a table can be merged, and
  all texts of a page come before all its other elements.)
* `NothingLeftToMerge`: after one pass of each merge no broken sentence and no two short
  paragraphs are left, also where a page number stood between them; this is what
  running the filter first is for;
* `HeadingsOnlyRise`, `ListsCountFromOne`: the repair of levels and the numbering.

Deadlock is not checked: a page is cleaned once.

### DocumentPipeline, with Extraction, Tables, Cleaners and Quality

One file goes through `Pipeline.run_and_generate`. The state is the file, the
`Document`, the stage that comes next, how far recognition is, whether the
document passed, and what was generated. A file is given by what the library of its
format finds in it: lines of Markdown and text, body and pictures of a DOCX, shapes and
notes of slides, rows of sheets, tables, pictures, text blocks and recognisable
paragraphs of the pages of a PDF, paragraphs of an image. `Parse` applies the
preprocessor of the extension (one operator per format in Extraction), `ParsingRaises`
is its exception. A text is given by the lengths of its lines and by what ends them.
DOCX files may have pictures, but none is extracted, since reading one raises an
`AttributeError` that is swallowed (section 7). Whether a PDF is scanned is decided by
another library (`sample`) than the one that reads its text. `RecognisePage`, `RecognitionDone` and `RecognitionRaises` are the
third phase of the PDF preprocessor: a page at a time, found or not found on each, and
cut short anywhere. `ProcessElements` applies TableProcessor to the tables; `Clean`
applies the operators of Cleaners to the elements and rewrites the text of each page as
BasicCleaner does, without empty lines at its ends or in a row and without repeated lines
(which lines repeat each other is left open); `Validate` those of Quality; `Generate` both
generators. Loops are folds here too. Scores are integers, scaled so that every division
is exact for the documents tried.

`FilesAssumption` says which files there may be: any number of lines, items, pages, tables
and blocks of the types of Extraction (`IsFile`). It is what the theorems assume, and TLC
evaluates it on the files it tries.

`document` tries lines of seven kinds up to four, with both line ends; up to four items in a
DOCX; one or two slides, sheets or PDF pages; and PDFs with more pages than are read.
It checks

* `ContentShown`: what is content in the file is in the Markdown, and nothing else. What a
  Markdown file may lose is stated line by line (`MayBeLeftOut`): lines behind a
  heading, a quote or a closed code fence in the same block.
* `OrderKept`: behind the title line pages keep their order; among the texts of the document
  nothing comes twice and all is in order, and the same holds of its other elements.
  (Texts come before all others on a page.) Two repetitions are the code's, and allowed: the
  title line repeats the first heading of a Markdown file (`md_preprocessor.py:81`,
  `markdown_generator.py:49`), and the text layer of a PDF page its tables.
* `TablesWhole`: the header, the cut of long cells and the lines of the Markdown lose and
  move no cell.
* `IdsUnique`: also after recognition added elements to pages that had some.
* `MetadataAgrees`: flags, counts, page numbers and scanned marks agree with each other and
  with the Markdown. Lengths are not part of it: `char_count` of the document is counted
  at extraction, that of a page after BasicCleaner rewrote its text (section 7).
* `TotalCounted`: until then, the total is that of the pages, with what recognition has found
  and not yet added. Recognition that was cut short leaves text that is not counted;
  of a sheet only cells are, without what separates them.
* `PassIsMostlyText`: tables, pictures and code count as noise, so a short document passes
  only if texts are more than two of five elements.

Limits (pages, rows, columns) are 2 instead of hundreds; the code uses them in a
single `min` or slice each. Deadlock is not checked: a file is processed once.

### TableProcessing

`TableProcessor.process` and `to_markdown` on one table that a caller put together: `Expand`
or, for more rows than `row_count`, `ExpandRaises` (the pipeline logs the exception and
the table stays as it was), then `Normalize`, `Score` and `Render`. `contents` tries all
ways to divide a grid of 2 by 3 or 3 by 2 into cells, each with spans that end at the edge
or reach over it, with a cell too many in each row or none, with the rows counted right, one
too low and one too high, and with columns given or not. It checks `MergedCellsInPlace`: each
place of the grid shows the text of the cell that covers it. No preprocessor reports merged
cells today; the model is of what the processor offers.

### TextCleaning

The characters of one text, as tokens: blanks, both line end characters, control
characters, the two halves of an encoding artefact, exclamation marks, letters, the words
of page numbers, watermarks and legal phrases, copyright signs, stretches of digits, a host
name. The state is the text and the cleaners still to run. `Filter` removes a whole
text (`ShouldRemove`: digits, a page number with its word, a short text with a watermark word
in it) or copyright signs and legal phrases, one of which takes what stands between its words
on the same line. `contents` tries all texts of up to five tokens about lines, and of up to
four about numbers and about the filter. It checks `NothingSensitiveLeft`: no number or
address that a pattern matches between word boundaries is left, even where the filter
joins two halves of one; and where the text has no address and no watermark or legal word, all
letters BasicCleaner left are still there, except those of a page number.

Four tokens hold a number of two parts with a removed token between and a neighbour, and a
legal phrase in two parts with something between; five hold two equal lines with something
between that may vanish. Deadlock is not checked.

The three models of the run `contents` are sequential and share no data: a behaviour works on
one page, one text or one table.

## 6. The lock, the cache and the state machine

The lock, the cache and most methods of the state machine have no caller in the
service yet (Clean calls `create`, `GetTaskStatus` calls `get`); they are checked as
what they offer to callers.

### RedisLock

A client is a thread between `acquire_lock` and the end of `release_lock`. Each
command it sends is a message that the server carries out at some later time, or
never; the client may get its answer, or an error at any time (`AcquireRaises`,
`Released`), or crash. `Tick` is time: it shortens the life of the key (`ttl`) and the
lease of each client, which counts `LockTtl` from the sending of the `SET` that won.
`acquire_lock` does not tell its caller that moment: a caller that wants to use its
lease fully has to note the time before the call, and the retries make that earlier
than needed.

`lock` has two clients, three tokens, two tries and a lease of two ticks. It checks

* `LeaseExcludes`: two clients never both hold the lock within their leases;
* `LockFreed`: no token keeps the key for ever, also when its owner crashed, got an
  error for a `SET` that was carried out, or lost its release.

Two clients give a late release after the other took over; three tokens a token that was
abandoned at the server while two are in use; two tries an answer to the first try
that may not be taken for the second. The only fairness is `WF_vars(Tick)`: time
passes. Deadlock is checked (time always passes).

### ElementCache

One element, the local dictionaries of the processes and Redis. The steps of a thread
are its accesses to the dictionary and to Redis: `Look`, `TakeEnds`, `TakeOld`,
`DropEntry`, `ReadL2`, `MissL2`, `Fill` are `get`; `StartSet`, `StartInvalidate`,
`Written`, `WriteFails` are `set` and `invalidate`. A command whose caller got an error
may be carried out later (`CarryOut`). A call takes at most `CallTicks`; entries
disappear through `EvictExpired` and `Restart`.

`cache` has two threads, in one process or in two, three values, and lifetimes of two and
three ticks. It checks `BoundedStaleness`: an answer is of a value that left Redis, or
was never put there, less than `L1Ttl + CallTicks` ago. The bound is exact: with one tick
less TLC finds a longer one. Two threads are the reader that fills late and the
writer; three values are an old one, its successor and one whose write failed. Also
seen while modelling, and allowed by the property:

* the process that called `set` or `invalidate` may answer with the old value after it, since a
  thread that read Redis before may fill the dictionary after;
* when the entry disappears between the test and the access, `get` raises
  `KeyError` (its docstring says it returns None);
* a value that is false (`{}`, `0`) is written to Redis and counts as a miss when read.

### TaskMachines

Threads that create, look up and remove the machine of one task and move it. `create`
is two steps, the look and the insertion; a transition is three, as `transition` is: the check
(`Transition`, line 44), the new status (`SetStatus`, 51) and its entry in the
history (`AppendHistory`, 52). `tasks` has two threads, two machines and at most eleven
transitions, which is a run that fails and a whole run after it; when calls of `transition`
overlapped, no new one begins beyond six entries (`MaxMixed`). It checks

* `SuccessAfterWholeRun`: the history of a task that succeeded ends with a whole run since it
  was last routed, whatever failed before;
* `EveryStagePassed`: a machine at SUCCESS was at each of the five stages no task may leave
  out, and each is recorded or about to be, however the calls of threads overlap and in
  whatever order their entries come;
* `HandleIsRegistered`: all that created or looked up the machine have the registered one,
  unless two calls of `create` overlapped or the task was removed.

The first and the last have exceptions because the code has: overlapping transitions set a
status that does not follow, or swap entries, and two calls of `create` can return
different machines. The exceptions are exactly the overlaps (`mixed`, `raced`); they do
not cover the second.

## 7. Where documentation and code differ

Each of these runs checks one sentence of the repository and TLC finds an
execution that contradicts it.

| Run | The repository says | The code does |
|---|---|---|
| `flow_complete` | README, data flow: a submission goes through preprocessing, element processing and cleaning to completion | preprocessed tasks are sent to the unified input, which nothing consumes (`main.py:91`, `kafka_constants.py:40-52`) |
| `flow_reroute` | `main.py:116`: "Handle retry task → re-route to appropriate stage" | a task with budget left is sent to the retry topic again, and in the end to the dead letter queue; no stage gets it (`main.py:127`) |
| `clean_dispatch` | `pipeline.py:66`: "Dispatch every element to its registered processor(s)" | a request that finds the registry before it is filled skips its elements and answers SUCCESS |

Also noticed while modelling, and plain from the lines themselves:

* `task_consumer.py:21` says all cleaning topics are consumed; topics without partitions at
  `start` are never assigned.
* `format_router.py:39` calls the MIME type the fallback; for images it yields `image`,
  which `route` rejects and `is_supported` accepts.
* `structure_fixer.py:107` says heading levels do not skip; the repair compares with the
  level before repair (line 120): 1, 3, 4 become 1, 2, 4.
* `base.py:15` calls processors stateless; the image hashes survive the request, and
  a second Clean replaces every image by "[Duplicate image]".
* `md_preprocessor.py:23` says code blocks are preserved; the text is split at empty lines first
  (line 60), so a fenced block with an empty line in it becomes paragraphs.
* `docx_preprocessor.py:1` says images are extracted. Line 136 reads `rel.target_ext`, which
  python-docx does not have; the `AttributeError` is swallowed at line 141 for each picture.
* `content_filter.py:95` says a watermark is only removed if it is all of the text; line 98
  removes any text of less than 30 characters with a watermark word in it.
* `basic_cleaner.py:15` says the operations are idempotent. Bare carriage returns become
  line feeds last (line 59), so equal or empty lines between them are only seen by a second
  pass, and so is an artefact that appears when a control character in it is removed.
* `quality_validator.py:13` speaks of the cleaned document. The scores use the text of the
  page (line 87), in which what ContentFilter removed from the elements still stands.
* The `char_count` of a document and those in its `page_summary` do not add up: the one is
  counted at extraction (`xlsx_preprocessor.py:89` without separators), the others after
  BasicCleaner rewrote the pages (`basic_cleaner.py:37`, `metadata_generator.py:56`).
* `basic_cleaner.py:67-71` replaces "â" first, so the longer artefacts that begin with it
  are never found; `_remove_blank_lines` has nothing to do after `_remove_dup_lines`
  unless the text has bare carriage returns.
* `page_count` stays 0 for Markdown, text and DOCX. Nothing but tests sets
  `has_merged_cells`, so no extracted table is expanded. The text layer of a PDF page
  repeats its tables. Pages that are images in a PDF with text are not recognised.
* SensitiveMasker masks between word boundaries only: not a number next to Chinese
  characters or letters, not tables, and not the text of a page.
* FAILED is no terminal status, so `active_count` counts failed tasks.

## 8. What is proved

### TaskFlow

All constants of TaskFlow are arbitrary under `FlowAssumption`: any set of tasks, files,
entry topics, views, batch size, retry limit and bounds on faults, which is to say any
finite number of them.

* **`TypeCorrect`** (TaskFlowProofs): `Spec => []TypeOK`.
* **`CommittedNeverGoesBack`** (TaskFlowProofs): `Spec => CommitMonotone`.
* **`NoTaskLost`**, **`LossWithinBudget`**, **`LostSubmissionsRaiseTwice`**
  (TaskFlowProofs): `Spec => []NoLossWithoutFault`, `Spec => []LossBudget`,
  `Spec => []SubmitLossNeedsTwoFaults`.
* **`SentInOrder`**, **`ForwardedOrDeadLettered`**, **`DeadWhenExhausted`**,
  **`RetriesBounded`**, **`DeadLettersTrail`** (TaskFlowProofs): `Spec => []P` for
  `OrderedPerRun`, `ForwardedOrDead`, `DeadOnlyWhenExhausted`, `RetryBudget`,
  `DlqTrailsTopic`.
* **`Refinement`** (TaskFlowProofs): `Spec => ImplementsAtLeastOnce`.

*The inductive invariant.* `TypeOK` is not inductive: `Current` reads a record
of the log, which exists only if `next` is below the log's length. `IInv` adds
two parts. `Offsets`: for each topic
`committed <= next <= position <= length of the log`, and `_committed <= next`.
`InHand`: a record is in hand exactly when the thread is not idle, it lies in the
fetched batch, and the stages `dlq` and `enqueue` belong to the topics whose
handlers have them. Each action is one step of the proof and leaves each
part as it was or re-establishes it.

*Monotone commits* need `committed <= next`: what `_commit_offset` writes is
`next + 1`, and `LoseMemory`, which resets `next`, leaves `committed` alone.

*No loss* needs to know about records that are handled but not yet committed.
`LossInv` says, while no send has failed, that every valid record below the
`Cursor` of its topic (below `next`, or the current one when its last send is
done) has a record in a log it leads to. Logs only grow, so what is there stays;
the statement for committed records follows from `committed <= next`.

*Losses and faults.* The two budgets count committed records that led nowhere; a commit
can make many of them count at once, so the budgets are not inductive. What is counted in
the proofs is every record handled in vain, committed or not (`LostSoFar`, a finite set).
A step adds at most the record in hand, and only when its last send has just failed, so
`LostInv` says there are at most as many as sends that raised or were swallowed.
For a routable submission it takes two: the forward and then the dead letter.
`TwoFaultsInv` keeps the first of the two on account while the thread is in the
`except` clause (`Falling`).

*One run of the process.* `OrderedPerRun` and `ForwardedOrDead` compare pairs of records;
what makes them inductive relates each record sent in this run to where the reader is.
`SentBefore` says that it was sent for a record below `next` or for the one in hand, and
then at which stage: a record about to be sent is newer than all of them, except in the
`except` clause of a submission whose forward raised although it was written. Between
runs (`Between`) nothing is in hand and no retry is counted.

*Retries.* `attempts` counts them in memory and a restart forgets them, so `BudgetInv`
bounds the retries of a task by `MaxRetries` for each finished run and by `attempts` for the
one under way; `WithinRetries` bounds that by `MaxRetries`. Together with
`WithinRetries`, `DeadOnlyWhenExhausted` is inductive as it stands.

*Dead letters.* `LinesInv` adds to the lines of a task the one that is about to be written
(`Pending`) and says that as many events are on the topic, as long as no send was swallowed;
and that each task DLQManager holds has an event of this run.

*The refinement* maps the abstract `cursor` to `Cursor` and `produced` to the
lengths of the logs. Ends of the process map to the abstract restart, commits to
commits, the last send of a handler to reading, `Publish` and every send to
production (a handler of the retry topic does both in one step, which AtLeastOnce
allows); all other steps stutter.

### RedisLock

**`TypeCorrect`**: `Spec => []TypeOK`, **`LockExcludes`**: `Spec => []LeaseExcludes`
(RedisLockProofs), for any clients, tokens, lease and number of tries
(`RedisLockAssumption`). That two winners exclude each other is not inductive: it rests
on the key. `KeyKept` says that while the lease of a winner runs, the key holds its token
and lives at least as long as the lease: at the moment the server accepts a `SET` the key
gets its full time, and the lease began earlier. Nobody may delete it meanwhile, since
tokens differ (`TokensDiffer`) and a delete for a token is sent only by who is done with
it (`DeletesAreLate`); `RepliesAwaited` keeps the answer to an earlier call from being
taken for a later one.

### ElementCache

**`Staleness`**: `Spec => []BoundedStaleness` (ElementCacheProofs), for any processes,
threads, values and lifetimes. What is in Redis is current (`RedisCurrent`); what a
call has read is not staler than the call is old (`ReadsFollow`); so an entry, filled by a
call, is at most its age and the time of a call staler than current (`EntriesFollow`).

### TaskMachines

**`OneMachine`**: `Spec => []HandleIsRegistered` (TaskMachinesProofs), for any threads and
machines. While no calls of `create` overlapped and nothing was removed, who is about to
insert is alone and nothing is registered (`OneInserts`).

**`SuccessIsEarned`**: `Spec => []SuccessAfterWholeRun`. That a machine is at SUCCESS says
nothing of how it got there; `RunsRecorded` says for each status that the history of an
unmixed machine ends with one of the finitely many runs that lead there from the last
ROUTING. A transition is three steps, so the check has to be carried over and the entry that is
still missing has to be counted: on an unmixed machine at most one call is under way
(`CallsAlone`), what it is about to set may still follow the current status, and between the
two assignments the run ends with the entry to come (`Records`).

**`NoStageSkipped`**: `Spec => []EveryStagePassed`, without any exception. A call that checked
against a status long replaced, and sets its own over another, was still right when
it checked: so each status a machine has, or a thread is about to set, has behind it
the stages that lead there (`StagesPassed`), in the history or among the entries about to
be added, and neither is ever lost.

### CleanService

`RegistryAssumption` and `ServiceAssumption` leave the requests, their elements, the
processor modules, the documents and the number of crashes open; they say that each
request has a sequence of elements, that each kind of element has a module and that modules
differ.

* **`TypeCorrect`**: `Spec => []TypeOK`.
* **`RegistryCompletes`**: `Spec => []SettledRegistryComplete`.
* **`DuplicatesAreOfOriginals`**: `Spec => []DuplicatesHaveOriginal`.
* **`NothingHalfIsStored`**: `Spec => []StoredAreWhole`.
* **`PairsAreOfOneRun`**: `Spec => []PairsMatch`.

`TypeOK` needs to know what each request holds where it is (`Holds`: a registry, a
module, a processor's memory), and everything about results needs `InStep`: the results so far
are those of the elements before the current one.

*The registry.* A request that fills a registry has filled it up to its current module, and as
long as something is missing from the global registry, some request is filling that very one
or is about to look up the global one (`RegistryInv`). The second half is what
carries the case of two creators: the registry that loses is filled in vain, the one that
stays has somebody who fills it, because who creates a registry then fills whatever is global.

*Duplicates.* A hash is noted in one step and its image described in later ones.
`NotedInv` gives every noted hash its original: a request that has described it,
is about to, or died there.

*Storage.* What is stored was put there by a request with all its results, which only
grow; between its puts a request finds its Markdown in place or is on record as
overlapped (`StoredInv`).

### Loops: Folding

The cleaners, the preprocessors and the generators are loops over sequences of any
length. What a loop guarantees is shown by induction on the length, and the induction
theorems of the library take the statement as an operator, which no installed prover can
instantiate. Folding does the same with sets: if the numbers for which something fails are a set
that is not empty, it has a least member (`Least`), and that one contradicts the
step. `Numbers` and `Sequences` put it positively: a set that has 0 (the empty sequence), and with each
member the next (each sequence one longer), has them all.

From them it proves what a fold is: that of nothing is the base
(**`OfNothing`**), that of a sequence with one more element is one more step
(**`OfOneMore`**), and a fold whose steps stay in a set stays in it (**`OfType`**). The step
is a constant of the module: the modules below have one instance for each loop of the
code, and their lemmas apply `Sequences` to the set of sequences for which a loop does
what the lemma says.

### PageCleaning

`PageAssumption` leaves the pages open: any set of sequences of source elements. The
theorems are `Spec => []P` (PageCleaningProofs).

* **`NothingIsLost`** for `NothingLost`.
* **`OnlyParagraphsAreMerged`** for `OnlyParagraphsMerge`.
* **`NothingIsLeftToMerge`** for `NothingLeftToMerge`.
* **`HeadingsNeverSink`** for `HeadingsOnlyRise`.
* **`ListsAlwaysCount`** for `ListsCountFromOne`.

*The inductive invariant* `PageInv` (**`PageIs`**) says what the page is from what is still to
do: the source, the filtered source, or the repaired filtered source. The rest is about
the four passes, each a fold with an invariant of its own over the elements seen so far.
For the losses: the parts of the result are those of the elements seen, in order. For what is
left to merge: no two neighbours of the result can be merged, where the last element of the
result, which the next step may still grow, needs a stronger statement than the others;
and the second merge must not bring back what the first one removed, since it makes new
ends of paragraphs. For the levels and the counts: the fold's own memory (the last level
before repair, the number of the last item) is that of the last element of the kind.

### DocumentPipeline

`FilesAssumption` and the assumptions on the limits leave open the files, the number of
pages read, and the rows and columns of sheets and tables. The theorems are in
DocumentProofs.

* **`IdentifiersAreUnique`**: `Spec => []IdsUnique`.
* **`PassedIsMostlyText`**: `Spec => []PassIsMostlyText`.
* **`TotalIsCounted`**: `Spec => []TotalCounted`.
* **`MetadataIsTrue`**: `Spec => []MetadataAgrees`.

*The inductive invariant* `DocumentInv` (**`Invariance`**) has three parts. `PagesInv`
says for each stage what the pages are: before the element stage of the types the
preprocessors make, each element with an identifier of its own that carries the page's
number and says whether recognition made it (`InPlace`); then with tables that are done
(`Processings`); then also without noise (`Cleanings`). `OcrInv`: pages that recognition has yet
to reach hold nothing of it, which is why what it adds later is new.
`VerdictInv`: who passed did so with the document as it stays. Each of the seven
formats is a lemma from the file to such pages, and so are recognition, the element stage and
the cleaners. Merging keeps the identifier of the first paragraph, so identifiers stay
distinct (`Kin`, `From`). TLC cannot evaluate `DocumentInv`: it speaks of all
sequences over a type; it checks the properties themselves.

*The verdict.* With less than 10000 characters the completeness score is at most a fifth
(`ShortIsIncomplete`), coherence is at most nine tenths because its two rewards for
varied lengths exclude each other (`CoherenceIs`), and structure is at most one. Weighted as
the settings say, this leaves 22 of the 50 points that purity can give: 44 elements of a
hundred have to be texts, and after the cleaners a text is one that was kept.

*The total and the metadata.* `TruthInv` is inductive with `DocumentInv`: a document tells its
pages' number, whether any has a table, an image or was recognised (`Told`), and until the
cleaners have run its characters are those of its pages (`CharsInv`; sheets are left out,
whose separators are not counted). During recognition they are short by
exactly what is in `ocr.chars`: text is put on a page at once and added to the total after
the last page. If recognition is cut short it never is, and only "at most" remains. The
cleaners merge and drop elements, but keep a table or an image wherever there was one
(`CleanedHas`). The rest follows once the document is done: elements of a role are counted
over all pages joined, the Markdown is made page by page, and the two meet because a count
over sequences joined is the sum of the counts (`CountOfAll`, `MarkdownShows`); only tables
without rows are counted and not shown (`CountShown`).

### Only model-checked

* Liveness: `EveryRecordHandled`, `SubmissionsEnd`, `EveryRequestEnds` and
  `LockFreed`. They rest on fairness, and ENABLED is out of the prover's reach.
* `ContentShown`, `OrderKept` and `TablesWhole` of DocumentProps, `MergedCellsInPlace` of
  TableProcessing. They compare the Markdown with the file and need files that are well
  formed beyond their types: parts that are all different and in order, merged cells that
  divide their table.
* `NothingSensitiveLeft` of TextCleaningProps. The cleaners rewrite a text several times with
  patterns that look ahead, and a statement about all texts needs an invariant for each
  pair of rewritings.

All other properties the runs check, except the three of section 7 that the code violates,
are theorems.

## 9. What the models assume

* **kafka-python** (not in the repository). One partition per topic. `poll`
  returns consecutive records from the fetch position, of any ready topics, and
  never an undecodable one; a poll that raises returns nothing and moves
  nothing. Fetching resumes at the committed offset after a restart, and at offset
  0 without one (`auto_offset_reset="earliest"`). One consumer per group: no
  rebalance takes partitions away. `task_consumer.py:144` hands `commit` a plain
  integer as the offset; if the library refuses that, each commit fails, which is
  among the behaviours of the model when `MaxCommitFaults` is large: the safety
  properties and the theorems do not rely on commits that succeed.
* **Python.** An import is serialised per module. A dictionary that grows under
  an iterator raises at the next element. Other steps of different threads
  interleave freely. Imports of processor modules succeed (`discover` logs
  and skips those that do not).
* **MinIO.** A put may raise whether or not it was carried out; a put that
  returned is durable.
* **Redis.** One server that carries out commands one at a time, in any order as far as
  different connections are concerned, and does not lose keys before they expire (a
  fail-over to a replica might). Clients and server measure the same ticks.
* **Libraries of the formats** are what a file is given by: their results are the file. They
  may raise, except on text and images.
* **Texts** in DocumentPipeline are such that BasicCleaner and SensitiveMasker find nothing
  to do in the elements, and in the text of a page nothing but empty and repeated lines;
  what they do within a text is checked in TextCleaning. Prefixes of identifiers are reduced
  to four.
* **Regular expressions.** `re.sub` replaces all matches from left to right; word boundaries
  are between letters or digits and others.
* **Settings.** The tables are those of `config/settings.yaml`; `load_config` of the
  registry has nothing to set there.

Abstractions worth knowing: the sleeps before a retry are not modelled, as only
the poll thread sleeps and no property is about time. The early return of
`_commit_offset` never fires within a run, because offsets only grow there; it is
modelled all the same. `Views` is what the broker may say at `start`; the
empty view leads to the branch that subscribes to everything.

## 10. What is not modelled, and why

* `GetTaskStatus` and `HealthCheck` change nothing. (`GetTaskStatus` reads
  `current_state`, which `TaskStateMachine` does not have: it raises for each
  known task. That holds of every call alike and needs no model.) `CleanStream` is
  not implemented.
* `re_submit`, `delete` and the statistics of the dead letter queue, `reset` of the retry
  scheduler, `incr` of Redis, `register_instance`, `is_supported`, `generate_summary`: nothing
  calls them. The delay before a retry: no property is about time there.
* The dictionary of the local cache beyond one element: that its eviction (line 82 of
  `cache_manager.py`) iterates over it while other threads change it, and may raise.
* Stage, progress and error text of a state machine: no method decides by them.
* The formula, chemistry and circuit processors, and the Markdown of formulas, circuits,
  audio and video: no preprocessor makes such elements, and what they do is
  regular expressions on text.
* What third-party parsers compute from bytes; encodings tried on a file; attributes of
  elements that nothing looks at (runs, boxes, authors).
* The share of special characters in a text, by which QualityValidator takes it for noise.
* The LLM adapter: HTTP calls without state; in the models it is an outcome.
* Configuration, logging.

## 11. Plan

1. **Proofs**: files that are well formed as an assumption of DocumentPipeline,
   and from it `TablesWhole`, `OrderKept` and `ContentShown`; `MergedCellsInPlace` over
   `Expand`; then the rewritings of TextCleaning.
2. **An abstract lock** with a set of leases, which RedisLock implements.
3. **The dead letter queue's administration**, once something calls it.
4. **Several elements in the local cache**, for the eviction.

## 12. Running the checks

    tlc -workers 2 -config MCTaskFlow_loss.cfg MCTaskFlow
    tlc -workers 2 -config MCCleanService_safe.cfg MCCleanService
    tlc -workers 2 -config MCPageContents_all.cfg MCPageContents
    tlc -workers 2 -config MCDocument_all.cfg MCDocument
    tlc -workers 2 -config MCRedisLock_lease.cfg MCRedisLock
    tlc -workers 2 -config MCElementCache_stale.cfg MCElementCache
    tlc -workers 2 -config MCTaskMachines_tasks.cfg MCTaskMachines
    tlapm TaskFlowProofs.tla

and so on for the other `.cfg` files, the other modules whose name ends in Proofs, and
Folding. DocumentProofs takes about a quarter of an hour, the others less than five minutes. The
runs of section 7 end with a counterexample; all others, with two workers, take
between seconds and about two minutes.

------------------------------ MODULE TaskFlow ------------------------------
(***************************************************************************)
(* The Kafka side of the cleaning service: one CleaningTaskConsumer with   *)
(* the handlers main.start_kafka_consumer registers, the producer they     *)
(* send with, the RetryScheduler and the DLQManager.                       *)
(*                                                                         *)
(* A topic is an append-only log with one partition; the broker keeps, per *)
(* topic, the offset the consumer group committed.  Everything else the    *)
(* consumer knows lives in the memory of one process and is gone when that *)
(* process ends.  The poll thread takes a batch, handles its records one   *)
(* at a time and commits each; a step of the model is one effect of the    *)
(* thread on the outside, so the process may end between any two of them.  *)
(***************************************************************************)
EXTENDS CleaningTopics, Integers, Sequences, FiniteSets, Functions

CONSTANTS
  Tasks,         \* task ids
  File,          \* the file each task is about: [ext, mime]
  EntryTopics,   \* topics that systems outside the service write to
  Bodies,        \* what they write there (see Publish)
  Views,         \* sets of topics the broker may report partitions of
  MaxRetries,    \* settings.yaml task.retry_max
  MaxPoll,       \* max_poll_records
  MaxPublish, MaxStarts,                       \* bounds on inputs
  MaxRaised, MaxSwallowed, MaxCommitFaults     \* and on faults

ASSUME FlowAssumption ==
  /\ File \in [Tasks -> [ext : STRING, mime : STRING]]
  /\ EntryTopics \subseteq ConsumeTopics
  /\ Bodies \subseteq {"valid", "malformed", "undecodable"}
  /\ Views \subseteq SUBSET ConsumeTopics
  /\ MaxRetries \in Nat /\ MaxPoll \in Nat \ {0}
  /\ {MaxPublish, MaxStarts, MaxRaised, MaxSwallowed, MaxCommitFaults} \subseteq Nat

VARIABLES
  \* the broker
  log,             \* topic -> its records
  committed,       \* topic -> committed offset of the consumer group
  published,       \* records written from outside so far (bound)
  \* the process
  proc,            \* "down", "running", "stopping", "closed"
  starts,          \* how often it was started (bound)
  assigned,        \* the topics it reads
  position,        \* topic -> fetch position of the KafkaConsumer
  next,            \* topic -> the record to handle next
  cur,             \* the topic whose part of the batch is in hand, or NoTopic
  stage,           \* where the thread is with the record next[cur]
  localCommitted,  \* CleaningTaskConsumer._committed
  attempts,        \* RetryScheduler._attempts
  dlqTasks,        \* ids in DLQManager._tasks
  dlqLines,        \* task -> its lines in logs/dlq.jsonl, which survive
  \* what went wrong so far (raised: by a send or, before it, by get_dlq_manager), and
  \* where this run of the process began
  raised, swallowed, commitFaults,
  mark             \* topic -> length of its log when the last run ended

broker  == <<committed, published>>
reading == <<proc, starts, assigned, position, next, cur, localCommitted, mark>>
faults  == <<raised, swallowed, commitFaults>>
dlq     == <<dlqTasks, dlqLines>>
vars == <<log, broker, reading, stage, attempts, dlq, faults>>

-----------------------------------------------------------------------------
(* Records carry the offset whose handler sent them.  The program does not *)
(* store it; it is here so that properties can relate input and output.    *)

External == [topic |-> NoTopic, offset |-> 0]

Source == [topic : ConsumeTopics \cup {NoTopic}, offset : Nat]

Record == [task : Tasks, src : Source,
           body : {"valid", "malformed", "undecodable", "event"}]

Stages == {"idle", "handle", "dlq", "enqueue", "commit"}

Zero(S) == [x \in S |-> 0]

Init ==
  /\ log = [t \in Topics |-> <<>>]
  /\ committed = Zero(ConsumeTopics) /\ published = 0
  /\ proc = "down" /\ starts = 0 /\ assigned = {}
  /\ position = Zero(ConsumeTopics) /\ next = Zero(ConsumeTopics)
  /\ cur = NoTopic /\ stage = "idle" /\ localCommitted = Zero(ConsumeTopics)
  /\ attempts = Zero(Tasks) /\ dlqTasks = {} /\ dlqLines = Zero(Tasks)
  /\ raised = 0 /\ swallowed = 0 /\ commitFaults = 0 /\ mark = Zero(Topics)

-----------------------------------------------------------------------------
(* The outside and the life of the process.                                *)

\* A record arrives from another system.  "malformed" stands for the three
\* rejections that only commit (not JSON, a field from_json cannot convert, no
\* task or document id); "undecodable" for bytes that are not UTF-8, on which
\* the value_deserializer raises inside poll.
Publish(t, k, b) ==
  /\ published < MaxPublish
  /\ published' = published + 1
  /\ log' = [log EXCEPT ![t] =
               Append(@, [task |-> k, body |-> b, src |-> External])]
  /\ UNCHANGED <<committed, reading, stage, attempts, dlq, faults>>

\* start(): assign() the partitions of the topics the broker knows now; with
\* none at all, subscribe() to every topic.
Start(view) ==
  /\ proc = "down" /\ starts < MaxStarts
  /\ proc' = "running" /\ starts' = starts + 1
  /\ assigned' = IF view = {} THEN ConsumeTopics ELSE view
  /\ UNCHANGED <<log, broker, position, next, cur, localCommitted, mark,
                 stage, attempts, dlq, faults>>

\* Variants of ResumeAt that would be wrong: the whole topic again, only what
\* arrives from now on, the last committed record once more.
ResumeAtEarliest(t) == 0
ResumeAtLatest(t) == Len(log[t])
ResumeOneBack(t) == committed[t] - 1

\* Where reading resumes: the committed offset (auto_offset_reset is
\* "earliest", so offset 0 before the first commit).
ResumeAt(t) == committed[t]

\* The process ends and its memory with it.
LoseMemory ==
  /\ proc' = "down" /\ assigned' = {}
  /\ position' = [t \in ConsumeTopics |-> ResumeAt(t)]
  /\ next' = [t \in ConsumeTopics |-> ResumeAt(t)]
  /\ cur' = NoTopic /\ stage' = "idle" /\ localCommitted' = Zero(ConsumeTopics)
  /\ attempts' = Zero(Tasks) /\ dlqTasks' = {}
  /\ mark' = [t \in Topics |-> Len(log[t])]
  /\ UNCHANGED <<log, broker, starts, dlqLines, faults>>

Crash == proc # "down" /\ LoseMemory

\* stop() clears _running; the loop looks at it only between two polls.
Stop ==
  /\ proc = "running"
  /\ proc' = "stopping"
  /\ UNCHANGED <<log, broker, starts, assigned, position, next, cur,
                 localCommitted, mark, stage, attempts, dlq, faults>>

BatchDone == cur = NoTopic /\ next = position

\* The thread leaves its loop within the 10 s join and the process ends.
StopCompletes == proc = "stopping" /\ BatchDone /\ LoseMemory

\* The join times out: the consumer is closed under the thread, which goes on
\* with its batch until the process exits.
JoinTimeout ==
  /\ proc = "stopping" /\ ~BatchDone
  /\ proc' = "closed"
  /\ UNCHANGED <<log, broker, starts, assigned, position, next, cur,
                 localCommitted, mark, stage, attempts, dlq, faults>>

Exit == proc = "closed" /\ LoseMemory

-----------------------------------------------------------------------------
(* The poll loop.                                                          *)

\* Wrong: the last record of a log is left behind.
ReadyButLast == {t \in assigned : /\ position[t] + 1 < Len(log[t])
                                  /\ log[t][position[t] + 1].body # "undecodable"}

\* The topics a poll can return records of.  An undecodable record makes poll
\* raise, and the fetch position never passes it.  (What is fetched together
\* with it may be held back too: no liveness property counts on such records.)
Ready == {t \in assigned : /\ position[t] < Len(log[t])
                           /\ log[t][position[t] + 1].body # "undecodable"}

Poll ==
  /\ proc = "running" /\ BatchDone
  /\ \E n \in [Ready -> 0 .. MaxPoll] :
       /\ FoldFunction(+, 0, n) \in 1 .. MaxPoll
       /\ \A t \in Ready :
            /\ position[t] + n[t] <= Len(log[t])
            /\ \A i \in position[t] + 1 .. position[t] + n[t] :
                 log[t][i].body # "undecodable"
       /\ position' = [t \in ConsumeTopics |->
                         IF t \in Ready THEN position[t] + n[t] ELSE position[t]]
  /\ UNCHANGED <<log, broker, proc, starts, assigned, next, cur,
                 localCommitted, mark, stage, attempts, dlq, faults>>

\* The outer loop turns to the next partition of the batch.
Take(t) ==
  /\ cur = NoTopic /\ next[t] < position[t]
  /\ cur' = t /\ stage' = "handle"
  /\ UNCHANGED <<log, broker, proc, starts, assigned, position, next,
                 localCommitted, mark, attempts, dlq, faults>>

Current == log[cur][next[cur] + 1]

\* _process_message finds nothing to dispatch: it only commits.
Reject ==
  /\ stage = "handle" /\ Current.body = "malformed"
  /\ stage' = "commit"
  /\ UNCHANGED <<log, broker, reading, attempts, dlq, faults>>

-----------------------------------------------------------------------------
(* CleaningEventProducer._send: send, then flush.                          *)

Written(u, b) ==
  log' = [log EXCEPT ![u] =
            Append(@, [task |-> Current.task, body |-> b,
                       src |-> [topic |-> cur, offset |-> next[cur]]])]

\* _send returns.  flush does not look at the future send returned, so a record
\* the broker refused is lost without an exception.
SendReturns(u, b) ==
  \/ Written(u, b) /\ UNCHANGED faults
  \/ /\ swallowed < MaxSwallowed /\ swallowed' = swallowed + 1
     /\ UNCHANGED <<log, raised, commitFaults>>

\* _send raises ResourceException; the record may have been written all the
\* same.
SendRaises(u, b) ==
  /\ raised < MaxRaised /\ raised' = raised + 1
  /\ Written(u, b) \/ UNCHANGED log
  /\ UNCHANGED <<swallowed, commitFaults>>

\* A send whose exception ends the handler: _process_message catches it and
\* commits, as the handler does when the send returns.
SendThenCommit(u, b) ==
  /\ SendReturns(u, b) \/ SendRaises(u, b)
  /\ stage' = "commit"

-----------------------------------------------------------------------------
(* The handlers.                                                           *)

Handling(t) == stage = "handle" /\ cur = t /\ Current.body = "valid"

\* Wrong: the submission is committed although its routing failed, or goes on
\* to the dead letter queue although it was forwarded.
DropTask == "commit"
DeadLetterAlways == "dlq"

\* Where handle_task_submit goes once the task is sent on, and its except
\* clause, which dead-letters the task.
AfterForward == "commit"
AfterRoutingError == "dlq"

\* Wrong: files that need no preprocessing skip general cleaning as well.
UnifiedTarget(k) == IF RouteTarget(File[k]) = "GENERAL_CLEANING"
                    THEN "UNIFIED_INPUT" ELSE RouteTarget(File[k])

SubmitTarget(k) == RouteTarget(File[k])

HandleSubmit ==
  /\ Handling("TASK_SUBMIT")
  /\ LET k == Current.task
     IN  \/ /\ Routable(File[k]) /\ SendReturns(SubmitTarget(k), "valid")
            /\ stage' = AfterForward
         \/ /\ Routable(File[k]) /\ SendRaises(SubmitTarget(k), "valid")
            /\ stage' = AfterRoutingError
         \/ /\ ~Routable(File[k]) /\ stage' = AfterRoutingError
            /\ UNCHANGED <<log, faults>>
  /\ UNCHANGED <<broker, reading, attempts, dlq>>

\* The except clause: send_to_dlq, then commit.  An exception here leaves the
\* handler and is caught, and committed, one level up.
DeadLetterSubmit ==
  /\ stage = "dlq"
  /\ SendThenCommit("DLQ", "event")
  /\ UNCHANGED <<broker, reading, attempts, dlq>>

HandlePreprocess ==
  /\ \E t \in PreprocessTopics : Handling(t)
  /\ SendThenCommit("UNIFIED_INPUT", "valid")
  /\ UNCHANGED <<broker, reading, attempts, dlq>>

HandleElement ==
  /\ \E t \in ElementTopics : Handling(t)
  /\ SendThenCommit("GENERAL_CLEANING", "valid")
  /\ UNCHANGED <<broker, reading, attempts, dlq>>

HandleGeneralCleaning ==
  /\ Handling("GENERAL_CLEANING")
  /\ SendThenCommit("TASK_COMPLETE", "event")
  /\ UNCHANGED <<broker, reading, attempts, dlq>>

\* Wrong: off by one, either way.
ShouldRetryOnceMore(k) == attempts[k] <= MaxRetries
ShouldRetryOnceLess(k) == attempts[k] + 1 < MaxRetries

\* RetryScheduler.should_retry
ShouldRetry(k) == attempts[k] < MaxRetries

\* handle_retry, first branch: record_attempt, a sleep, send_retry.
RetryAgain ==
  /\ Handling("RETRY") /\ ShouldRetry(Current.task)
  /\ attempts' = [attempts EXCEPT ![Current.task] = @ + 1]
  /\ SendThenCommit("RETRY", "valid")
  /\ UNCHANGED <<broker, reading, dlq>>

\* Wrong: the failed send is only logged.
EnqueueAnyway == "enqueue"

\* An exception of send_to_dlq skips the local enqueue.
AfterRaisedDlqSend == "commit"

\* handle_retry, second branch, as far as send_to_dlq.  get_dlq_manager, called before the
\* send, makes a directory and may raise as well: the raise that leaves nothing written
\* stands for both.
RetryExhausted ==
  /\ Handling("RETRY") /\ ~ShouldRetry(Current.task)
  /\ \/ SendReturns("DLQ", "event") /\ stage' = "enqueue"
     \/ SendRaises("DLQ", "event") /\ stage' = AfterRaisedDlqSend
  /\ UNCHANGED <<broker, reading, attempts, dlq>>

\* DLQManager.enqueue; _persist swallows the failure to append a line.
EnqueueDlq ==
  /\ stage = "enqueue"
  /\ dlqTasks' = dlqTasks \cup {Current.task}
  /\ \/ dlqLines' = [dlqLines EXCEPT ![Current.task] = @ + 1]
     \/ UNCHANGED dlqLines
  /\ stage' = "commit"
  /\ UNCHANGED <<log, broker, reading, attempts, faults>>

-----------------------------------------------------------------------------
(* _commit_offset, and on to the next record of the batch.                 *)

\* Wrong: the commit covers all that was fetched.
FetchedOffset == position[cur]

OffsetToCommit == next[cur] + 1

\* Wrong: a failed commit repeats the record, or gives up the batch.
StayOnFailure(ok) == IF ok THEN next[cur] + 1 ELSE next[cur]
AbandonOnFailure(ok) == IF ok THEN next[cur] + 1 ELSE position[cur]

\* A failed commit is logged and the loop goes on.
AfterCommit(ok) == next[cur] + 1

\* The loop goes on with the record after n; the batch of cur may end there.
MoveOn(n) ==
  /\ next' = [next EXCEPT ![cur] = n]
  /\ IF n < position[cur] THEN cur' = cur /\ stage' = "handle"
                          ELSE cur' = NoTopic /\ stage' = "idle"

\* Skipped when _committed already covers the offset.
CommitSkipped == localCommitted[cur] >= OffsetToCommit

CommitReturns ==
  /\ stage = "commit"
  /\ CommitSkipped \/ proc # "closed"
  /\ IF CommitSkipped
     THEN UNCHANGED <<committed, localCommitted>>
     ELSE /\ committed' = [committed EXCEPT ![cur] = OffsetToCommit]
          /\ localCommitted' = [localCommitted EXCEPT ![cur] = OffsetToCommit]
  /\ MoveOn(AfterCommit(TRUE))
  /\ UNCHANGED <<log, published, proc, starts, assigned, position, mark,
                 attempts, dlq, faults>>

\* commit raises, with or without having reached the broker; on the consumer
\* that stop() closed it always raises.
CommitFails ==
  /\ stage = "commit" /\ ~CommitSkipped
  /\ \/ proc = "closed" /\ UNCHANGED <<committed, commitFaults>>
     \/ /\ proc # "closed"
        /\ commitFaults < MaxCommitFaults /\ commitFaults' = commitFaults + 1
        /\ \/ UNCHANGED committed
           \/ committed' = [committed EXCEPT ![cur] = OffsetToCommit]
  /\ MoveOn(AfterCommit(FALSE))
  /\ UNCHANGED <<log, published, proc, starts, assigned, position,
                 localCommitted, mark, attempts, dlq, raised, swallowed>>

-----------------------------------------------------------------------------
Handler == \/ Reject
           \/ HandleSubmit \/ DeadLetterSubmit
           \/ HandlePreprocess \/ HandleElement \/ HandleGeneralCleaning
           \/ RetryAgain \/ RetryExhausted \/ EnqueueDlq

\* The poll thread.
Thread == Poll \/ (\E t \in ConsumeTopics : Take(t)) \/ Handler
            \/ CommitReturns \/ CommitFails

Next ==
  \/ \E t \in EntryTopics, k \in Tasks, b \in Bodies : Publish(t, k, b)
  \/ \E view \in Views : Start(view)
  \/ Crash \/ Stop \/ StopCompletes \/ JoinTimeout \/ Exit
  \/ Thread

Spec == Init /\ [][Next]_vars

\* The poll thread keeps running while its process does; nobody has to start
\* the process, stop it or send it anything.
Fairness == WF_vars(Thread)

FairSpec == Spec /\ Fairness

=============================================================================

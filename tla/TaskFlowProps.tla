--------------------------- MODULE TaskFlowProps ---------------------------
(***************************************************************************)
(* What the Kafka side of the cleaning service guarantees.                 *)
(***************************************************************************)
EXTENDS TaskFlow

TypeOK ==
  /\ log \in [Topics -> Seq(Record)]
  /\ committed \in [ConsumeTopics -> Nat] /\ published \in Nat
  /\ proc \in {"down", "running", "stopping", "closed"} /\ starts \in Nat
  /\ assigned \subseteq ConsumeTopics
  /\ position \in [ConsumeTopics -> Nat] /\ next \in [ConsumeTopics -> Nat]
  /\ cur \in ConsumeTopics \cup {NoTopic} /\ stage \in Stages
  /\ localCommitted \in [ConsumeTopics -> Nat]
  /\ attempts \in [Tasks -> Nat]
  /\ dlqTasks \subseteq Tasks /\ dlqLines \in [Tasks -> Nat]
  /\ raised \in Nat /\ swallowed \in Nat /\ commitFaults \in Nat
  /\ mark \in [Topics -> Nat]

-----------------------------------------------------------------------------
(* Vocabulary.                                                             *)

\* Log u holds a record sent for the record at offset o of topic t.
Emitted(u, t, o) ==
  \E i \in 1 .. Len(log[u]) : log[u][i].src = [topic |-> t, offset |-> o]

\* Where the record m of topic t may lead when every send works.
Targets(t, m) ==
  CASE t = "TASK_SUBMIT"      -> IF Routable(File[m.task])
                                 THEN {RouteTarget(File[m.task])} ELSE {"DLQ"}
    [] t \in PreprocessTopics -> {"UNIFIED_INPUT"}
    [] t \in ElementTopics    -> {"GENERAL_CLEANING"}
    [] t = "GENERAL_CLEANING" -> {"TASK_COMPLETE"}
    [] t = "RETRY"            -> {"RETRY", "DLQ"}

\* A valid record that is committed, so never read again, and led to nothing.
Lost(t) == {o \in 0 .. committed[t] - 1 :
              /\ log[t][o + 1].body = "valid"
              /\ \A u \in Topics : ~Emitted(u, t, o)}

\* The records of log u that were sent for records of topic t about task k.
SentFrom(u, t, k) == {i \in 1 .. Len(log[u]) : /\ log[u][i].src.topic = t
                                               /\ log[u][i].task = k}

\* The records of log u the current run of the process sent.
ThisRun(u) == {i \in mark[u] + 1 .. Len(log[u]) : log[u][i].src.topic # NoTopic}

-----------------------------------------------------------------------------
(* Safety.                                                                 *)

\* As long as no send fails, every valid record below the committed offset
\* has been passed on to the stage its topic and format prescribe, whatever
\* commits fail and whenever the process ends (kafka_consumer, main handlers).
NoLossWithoutFault ==
  raised = 0 /\ swallowed = 0 =>
    \A t \in ConsumeTopics : \A o \in 0 .. committed[t] - 1 :
      log[t][o + 1].body = "valid" =>
        \E u \in Targets(t, log[t][o + 1]) : Emitted(u, t, o)

\* Handlers do commit records whose send failed, whether it raised, was refused
\* without a word or was not reached, but each failure costs at most one task:
\* lost records never outnumber the faults.
LossBudget ==
  LET all == UNION {{<<t, o>> : o \in Lost(t)} : t \in ConsumeTopics}
  IN  Cardinality(all) <= raised + swallowed

\* handle_task_submit falls back on the dead letter queue: unless the producer
\* loses a record silently, a routable submission is lost only when both its
\* forward and its dead letter raised.
SubmitLossNeedsTwoFaults ==
  swallowed = 0 =>
    LET routable == {o \in Lost("TASK_SUBMIT") :
                       Routable(File[log["TASK_SUBMIT"][o + 1].task])}
    IN  2 * Cardinality(routable) <= raised

\* One run of the process handles each record once and in log order: what it
\* sends to a topic on behalf of one source topic keeps the order of that
\* topic without repetition, although failed commits are never repeated.
OrderedPerRun ==
  \A u \in Topics : \A i, j \in ThisRun(u) :
    i < j /\ log[u][i].src.topic = log[u][j].src.topic
      => log[u][i].src.offset < log[u][j].src.offset

\* A record is forwarded or dead-lettered, not both, in one run in which no
\* send raised (handle_task_submit, handle_retry).
ForwardedOrDead ==
  raised = 0 =>
    \A u \in Topics \ {"DLQ"} : \A i \in ThisRun(u), j \in ThisRun("DLQ") :
      log[u][i].src # log["DLQ"][j].src

\* A task goes round the retry topic at most retry_max times per run of the
\* process: the counter is in memory, so a restart grants a new budget.
RetryBudget ==
  \A k \in Tasks : Cardinality(SentFrom("RETRY", "RETRY", k)) <= MaxRetries * starts

\* handle_retry dead-letters a task only when its budget is spent, and never
\* again retries a task it dead-lettered in the same run.
DeadOnlyWhenExhausted ==
  \A i \in ThisRun("DLQ") :
    log["DLQ"][i].src.topic = "RETRY" => attempts[log["DLQ"][i].task] = MaxRetries

\* The local dead letter log follows the DLQ topic: each of its lines, and each
\* task DLQManager holds, has an event of its own that handle_retry sent first.
DlqTrailsTopic ==
  swallowed = 0 =>
    \A k \in Tasks :
      /\ dlqLines[k] <= Cardinality(SentFrom("DLQ", "RETRY", k))
      /\ k \in dlqTasks => \E i \in ThisRun("DLQ") : /\ log["DLQ"][i].task = k
                                                     /\ log["DLQ"][i].src.topic = "RETRY"

-----------------------------------------------------------------------------
(* Steps, and the abstract specification.                                  *)

\* The committed offset of a topic never goes back, across restarts and
\* commits whose answer was lost, though _committed starts empty every time.
CommitMonotone ==
  [][\A t \in ConsumeTopics : committed'[t] >= committed[t]]_vars

\* Records handled in this run: next, and the current one once its last send
\* is done.
Cursor == [t \in ConsumeTopics |->
             IF t = cur /\ stage = "commit" THEN next[t] + 1 ELSE next[t]]

Produced == [t \in ConsumeTopics |-> Len(log[t])]

Abstract == INSTANCE AtLeastOnce WITH
  Partitions <- ConsumeTopics, produced <- Produced, cursor <- Cursor

\* The consumer implements at-least-once delivery: in order, nothing skipped,
\* commits only over handled records, restarts at the committed offset.
ImplementsAtLeastOnce == Abstract!Spec

-----------------------------------------------------------------------------
(* Liveness.                                                               *)

StaysUp == <>[](proc = "running")

\* Topic t holds a record on which poll raises; it and, fetched together with
\* it, the records around it may never be returned.
Stuck(t) == \E i \in 1 .. Len(log[t]) : log[t][i].body = "undecodable"

\* Records of topic t nobody has handled.
Backlog(t) == {o \in next[t] .. Len(log[t]) - 1 : ~Stuck(t)}

\* While the process stays up, every record of its topics is handled unless an
\* undecodable record is among them: none waits for ever behind failing sends,
\* failing commits, the other topics or records that keep coming back.
EveryRecordHandled ==
  StaysUp => <>[](\A t \in assigned : Backlog(t) = {})

Faulty == raised + swallowed > 0

In(u, k) == \E i \in 1 .. Len(log[u]) : log[u][i].task = k

Waiting(t, k) == \E o \in Backlog(t) : /\ log[t][o + 1].task = k
                                       /\ log[t][o + 1].body = "valid"

\* Where a submission of task k ends in this program.
LastTopic(k) ==
  IF ~Routable(File[k]) THEN "DLQ"
  ELSE IF RouteTarget(File[k]) = "GENERAL_CLEANING" THEN "TASK_COMPLETE"
  ELSE "UNIFIED_INPUT"

\* Every submission ends: Markdown and text files complete, files of no known
\* format are dead-lettered, all others reach the unified input.
SubmissionsEnd ==
  StaysUp /\ <>[](assigned = ConsumeTopics) =>
    \A k \in Tasks :
      Waiting("TASK_SUBMIT", k) ~>
        (In(LastTopic(k), k) \/ Faulty \/ Stuck("TASK_SUBMIT"))

-----------------------------------------------------------------------------
(* What the repository says of the program and the program does not do.    *)

\* README.md, data flow: a submitted task goes through preprocessing, element
\* processing and cleaning to the completion event.
SubmissionsComplete ==
  StaysUp /\ <>[](assigned = ConsumeTopics) =>
    \A k \in Tasks : Waiting("TASK_SUBMIT", k) ~>
                       (In("TASK_COMPLETE", k) \/ In("DLQ", k) \/ Faulty)

\* main.py:116, "Handle retry task -> re-route to appropriate stage": while no
\* send fails, a record handle_retry is done with led to a stage that tries the
\* task again, or to the dead letter queue.
RetryReroutes ==
  raised = 0 /\ swallowed = 0 =>
    \A o \in 0 .. committed["RETRY"] - 1 :
      log["RETRY"][o + 1].body = "valid" => \E u \in Topics \ {"RETRY"} : Emitted(u, "RETRY", o)

=============================================================================

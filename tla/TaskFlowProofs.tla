--------------------------- MODULE TaskFlowProofs ---------------------------
(***************************************************************************)
(* Theorems about TaskFlow.  The offsets of a topic are ordered (committed,*)
(* then handled, then fetched, then written) and the thread is always at a *)
(* step of the handler that fits the topic in hand: IInv.  Type            *)
(* correctness alone is not inductive, because the record in hand is one   *)
(* of the log only by these orders.                                        *)
(*                                                                         *)
(* Then what is lost, and the refinement of AtLeastOnce, which rest on the *)
(* same orders.  Last, what one run of the process sends, and how often.   *)
(* The invariant behind the order of what is sent (SentBefore) relates     *)
(* each record sent in this run to the record in hand: it was sent for one *)
(* handled before, or for the one in hand, and then the stage tells how    *)
(* far its handler came.  The retries and the dead letters are counted     *)
(* with finite sets: a step adds at most one record to each of the sets    *)
(* the properties count.                                                   *)
(***************************************************************************)
EXTENDS TaskFlowProps, TLAPS, FiniteSetTheorems

Offsets ==
  \A t \in ConsumeTopics : /\ committed[t] <= next[t]
                           /\ localCommitted[t] <= next[t]
                           /\ next[t] <= position[t]
                           /\ position[t] <= Len(log[t])

InHand ==
  /\ (cur = NoTopic) <=> (stage = "idle")
  /\ cur # NoTopic => next[cur] < position[cur]
  /\ stage = "dlq" => cur = "TASK_SUBMIT"
  /\ stage = "enqueue" => cur = "RETRY"

IInv == TypeOK /\ Offsets /\ InHand

-----------------------------------------------------------------------------
(* The topics and the router.                                              *)

LEMMA TopicFacts ==
  /\ ConsumeTopics \subseteq Topics
  /\ PreprocessTopics \subseteq ConsumeTopics
  /\ ElementTopics \subseteq ConsumeTopics
  /\ {"TASK_SUBMIT", "RETRY", "GENERAL_CLEANING"} \subseteq ConsumeTopics
  /\ {"UNIFIED_INPUT", "TASK_COMPLETE", "DLQ"} \subseteq Topics
  /\ NoTopic \notin Topics
BY DEF ConsumeTopics, Topics, PreprocessTopics, ElementTopics, ProduceTopics,
       NoTopic

LEMMA RouteInTopics ==
  ASSUME NEW file, Routable(file)
  PROVE  RouteTarget(file) \in Topics
<1> DEFINE format == FormatOf(file)
<1>1. format \in SupportedTypes
  BY DEF Routable
<1>2. FORMAT_TO_TOPIC[format] \in Topics \cup {NoTopic}
  BY <1>1 DEF FORMAT_TO_TOPIC, SupportedTypes, Topics, ConsumeTopics,
              PreprocessTopics, ProduceTopics
<1> QED
  BY <1>2, TopicFacts DEF RouteTarget

-----------------------------------------------------------------------------
(* Records and logs.                                                       *)

LEMMA CurrentInLog ==
  ASSUME IInv, cur # NoTopic
  PROVE  /\ cur \in ConsumeTopics
         /\ next[cur] \in Nat
         /\ next[cur] + 1 \in 1 .. Len(log[cur])
         /\ Current \in Record
<1>1. cur \in ConsumeTopics /\ next[cur] \in Nat /\ position[cur] \in Nat
  BY DEF IInv, TypeOK
<1>2. log[cur] \in Seq(Record)
  BY <1>1, TopicFacts DEF IInv, TypeOK
<1>3. next[cur] < position[cur] /\ position[cur] <= Len(log[cur])
  BY <1>1 DEF IInv, Offsets, InHand
<1>4. next[cur] + 1 \in 1 .. Len(log[cur])
  BY <1>1, <1>2, <1>3
<1> QED
  BY <1>1, <1>2, <1>4 DEF Current

\* What a step may do to the logs: append.
Extends == /\ log' \in [Topics -> Seq(Record)]
           /\ \A u \in Topics : /\ Len(log[u]) <= Len(log'[u])
                                /\ \A i \in 1 .. Len(log[u]) : log'[u][i] = log[u][i]

LEMMA AppendExtends ==
  ASSUME TypeOK, NEW u \in Topics, NEW m \in Record,
         log' = [log EXCEPT ![u] = Append(@, m)]
  PROVE  /\ Extends
         /\ log'[u] = Append(log[u], m)
         /\ Len(log'[u]) = Len(log[u]) + 1
         /\ log'[u][Len(log[u]) + 1] = m
<1>1. \A v \in Topics : log[v] \in Seq(Record)
  BY DEF TypeOK
<1>2. log'[u] = Append(log[u], m)
  BY DEF TypeOK
<1>3. \A v \in Topics \ {u} : log'[v] = log[v]
  BY DEF TypeOK
<1>4. log' \in [Topics -> Seq(Record)]
  BY <1>1 DEF TypeOK
<1> QED
  BY <1>1, <1>2, <1>3, <1>4 DEF Extends

LEMMA SendExtends ==
  ASSUME IInv, cur # NoTopic, NEW u \in Topics, NEW b \in {"valid", "event"},
         SendReturns(u, b) \/ SendRaises(u, b)
  PROVE  /\ Extends
         /\ raised' \in Nat /\ swallowed' \in Nat /\ commitFaults' \in Nat
<1>1. TypeOK /\ Current \in Record /\ cur \in ConsumeTopics /\ next[cur] \in Nat
  BY CurrentInLog DEF IInv
<1>2. ASSUME Written(u, b) PROVE Extends
  <2> DEFINE m == [task |-> Current.task, body |-> b,
                   src |-> [topic |-> cur, offset |-> next[cur]]]
  <2>1. m \in Record
    BY <1>1 DEF Record, Source
  <2> QED
    BY <1>1, <1>2, <2>1, AppendExtends DEF Written
<1>3. ASSUME UNCHANGED log PROVE Extends
  BY <1>1, <1>3 DEF Extends, TypeOK
<1> QED
  BY <1>1, <1>2, <1>3 DEF SendReturns, SendRaises, TypeOK, faults

-----------------------------------------------------------------------------
(* The inductive invariant.                                                *)

LEMMA InvInit == Init => IInv
<1> SUFFICES ASSUME Init PROVE IInv
  OBVIOUS
<1>1. TypeOK
  BY DEF Init, TypeOK, Zero, Stages, NoTopic
<1>2. Offsets /\ InHand
  BY TopicFacts DEF Init, Offsets, InHand, Zero
<1> QED
  BY <1>1, <1>2 DEF IInv

\* A handler step: one that leaves the broker's offsets and the reading
\* position alone, appends to logs and moves from one stage to a fitting one.
HandlerStep ==
  /\ cur # NoTopic
  /\ Extends
  /\ UNCHANGED <<broker, reading>>
  /\ stage' \in {"dlq", "enqueue", "commit"}
  /\ stage' = "dlq" => cur = "TASK_SUBMIT"
  /\ stage' = "enqueue" => cur = "RETRY"
  /\ attempts' \in [Tasks -> Nat]
  /\ dlqTasks' \subseteq Tasks /\ dlqLines' \in [Tasks -> Nat]
  /\ raised' \in Nat /\ swallowed' \in Nat /\ commitFaults' \in Nat

LEMMA HandlerStepInv ==
  ASSUME IInv, HandlerStep
  PROVE  IInv'
<1>1. TypeOK'
  BY DEF IInv, TypeOK, HandlerStep, Extends, broker, reading, Stages
<1>2. Offsets'
  <2> SUFFICES ASSUME NEW t \in ConsumeTopics
               PROVE  /\ committed[t] <= next[t] /\ localCommitted[t] <= next[t]
                      /\ next[t] <= position[t] /\ position[t] <= Len(log'[t])
    BY DEF HandlerStep, broker, reading, Offsets
  <2>1. t \in Topics /\ Len(log[t]) <= Len(log'[t])
    BY TopicFacts DEF HandlerStep, Extends
  <2>2. Len(log[t]) \in Nat /\ Len(log'[t]) \in Nat /\ position[t] \in Nat
    BY <2>1 DEF IInv, TypeOK, HandlerStep, Extends
  <2>3. /\ committed[t] <= next[t] /\ localCommitted[t] <= next[t]
        /\ next[t] <= position[t] /\ position[t] <= Len(log[t])
    BY DEF IInv, Offsets
  <2> QED
    BY <2>1, <2>2, <2>3
<1>3. InHand'
  BY DEF IInv, InHand, HandlerStep, reading
<1> QED
  BY <1>1, <1>2, <1>3 DEF IInv

LEMMA Increment ==
  ASSUME NEW S, NEW f \in [S -> Nat], NEW k \in S
  PROVE  [f EXCEPT ![k] = @ + 1] \in [S -> Nat]
OBVIOUS

LEMMA Assignment ==
  ASSUME NEW S, NEW f \in [S -> Nat], NEW k \in S, NEW v \in Nat
  PROVE  [f EXCEPT ![k] = v] \in [S -> Nat]
OBVIOUS

LEMMA HandlerIsHandlerStep ==
  ASSUME IInv, Handler
  PROVE  HandlerStep
<1> USE FlowAssumption, TopicFacts
<1>1. cur # NoTopic
  BY DEF IInv, InHand, Handler, Reject, HandleSubmit, DeadLetterSubmit,
         HandlePreprocess, HandleElement, HandleGeneralCleaning, RetryAgain,
         RetryExhausted, EnqueueDlq, Handling
<1>2. /\ Current \in Record /\ Current.task \in Tasks
      /\ cur \in ConsumeTopics
  BY <1>1, CurrentInLog DEF Record
<1>3. TypeOK
  BY DEF IInv
<1>4. UNCHANGED log => Extends
  BY <1>3 DEF Extends, TypeOK
<1>5. ASSUME NEW u \in Topics, NEW b \in {"valid", "event"},
             SendReturns(u, b) \/ SendRaises(u, b)
      PROVE  Extends /\ raised' \in Nat /\ swallowed' \in Nat /\ commitFaults' \in Nat
  BY <1>1, <1>5, SendExtends
<1>6. UNCHANGED <<attempts, dlq>> =>
        /\ attempts' \in [Tasks -> Nat]
        /\ dlqTasks' \subseteq Tasks /\ dlqLines' \in [Tasks -> Nat]
  BY <1>3 DEF TypeOK, dlq
<1>7. UNCHANGED faults => raised' \in Nat /\ swallowed' \in Nat /\ commitFaults' \in Nat
  BY <1>3 DEF TypeOK, faults
<1>8. CASE Reject
  BY <1>1, <1>4, <1>6, <1>7, <1>8 DEF Reject, HandlerStep
<1>9. CASE HandleSubmit
  <2>1. Routable(File[Current.task]) => SubmitTarget(Current.task) \in Topics
    BY RouteInTopics DEF SubmitTarget
  <2> QED
    BY <1>1, <1>4, <1>5, <1>6, <1>7, <1>9, <2>1
       DEF HandleSubmit, Handling, HandlerStep, AfterForward, AfterRoutingError
<1>10. CASE DeadLetterSubmit
  BY <1>1, <1>5, <1>6, <1>10 DEF DeadLetterSubmit, SendThenCommit, HandlerStep
<1>11. CASE HandlePreprocess
  BY <1>1, <1>5, <1>6, <1>11 DEF HandlePreprocess, SendThenCommit, HandlerStep
<1>12. CASE HandleElement
  BY <1>1, <1>5, <1>6, <1>12 DEF HandleElement, SendThenCommit, HandlerStep
<1>13. CASE HandleGeneralCleaning
  BY <1>1, <1>5, <1>6, <1>13 DEF HandleGeneralCleaning, SendThenCommit, HandlerStep
<1>14. CASE RetryAgain
  <2>1. attempts' \in [Tasks -> Nat]
    BY <1>2, <1>3, <1>14, Increment DEF RetryAgain, TypeOK
  <2>2. dlqTasks' \subseteq Tasks /\ dlqLines' \in [Tasks -> Nat]
    BY <1>3, <1>14 DEF RetryAgain, TypeOK, dlq
  <2> QED
    BY <1>1, <1>5, <1>14, <2>1, <2>2 DEF RetryAgain, SendThenCommit, HandlerStep
<1>15. CASE RetryExhausted
  BY <1>1, <1>5, <1>6, <1>15
     DEF RetryExhausted, Handling, HandlerStep, AfterRaisedDlqSend
<1>16. CASE EnqueueDlq
  <2>1. attempts' \in [Tasks -> Nat]
    BY <1>3, <1>16 DEF EnqueueDlq, TypeOK
  <2>2. dlqTasks' \subseteq Tasks
    BY <1>2, <1>3, <1>16 DEF EnqueueDlq, TypeOK
  <2>3. dlqLines \in [Tasks -> Nat]
    BY <1>3 DEF TypeOK
  <2>4. dlqLines' \in [Tasks -> Nat]
    BY <1>2, <1>16, <2>3, Increment DEF EnqueueDlq
  <2> QED
    BY <1>1, <1>4, <1>7, <1>16, <2>1, <2>2, <2>4 DEF EnqueueDlq, HandlerStep
<1> QED
  BY <1>8, <1>9, <1>10, <1>11, <1>12, <1>13, <1>14, <1>15, <1>16 DEF Handler

LEMMA LoseMemoryInv ==
  ASSUME IInv, LoseMemory
  PROVE  IInv'
<1>1. /\ \A t \in ConsumeTopics : committed[t] \in Nat /\ committed[t] <= Len(log[t])
      /\ \A u \in Topics : Len(log[u]) \in Nat
  <2>1. \A u \in Topics : Len(log[u]) \in Nat
    BY DEF IInv, TypeOK
  <2>2. ASSUME NEW t \in ConsumeTopics
        PROVE  committed[t] \in Nat /\ committed[t] <= Len(log[t])
    <3>1. Len(log[t]) \in Nat
      BY <2>1, TopicFacts
    <3> QED
      BY <3>1 DEF IInv, TypeOK, Offsets
  <2> QED
    BY <2>1, <2>2
<1>2. TypeOK'
  BY <1>1 DEF IInv, TypeOK, LoseMemory, ResumeAt, Zero, Stages, broker, faults
<1>3. Offsets'
  BY <1>1 DEF IInv, TypeOK, Offsets, LoseMemory, ResumeAt, Zero, broker
<1>4. InHand'
  BY DEF InHand, LoseMemory
<1> QED
  BY <1>2, <1>3, <1>4 DEF IInv

LEMMA PublishInv ==
  ASSUME IInv, NEW t \in EntryTopics, NEW k \in Tasks, NEW b \in Bodies,
         Publish(t, k, b)
  PROVE  IInv' /\ Extends
<1> DEFINE m == [task |-> k, body |-> b, src |-> External]
<1>1. m \in Record /\ t \in Topics
  BY FlowAssumption, TopicFacts DEF Record, Source, External
<1>2. Extends
  BY <1>1, AppendExtends DEF IInv, Publish
<1>3. TypeOK'
  BY <1>2 DEF IInv, TypeOK, Publish, Extends, reading, dlq, faults
<1>4. Offsets'
  <2> SUFFICES ASSUME NEW u \in ConsumeTopics
               PROVE  /\ committed[u] <= next[u] /\ localCommitted[u] <= next[u]
                      /\ next[u] <= position[u] /\ position[u] <= Len(log'[u])
    BY DEF Publish, reading, Offsets
  <2>1. u \in Topics /\ Len(log[u]) <= Len(log'[u])
    BY <1>2, TopicFacts DEF Extends
  <2>2. Len(log[u]) \in Nat /\ Len(log'[u]) \in Nat /\ position[u] \in Nat
    BY <1>2, <2>1 DEF IInv, TypeOK, Extends
  <2>3. /\ committed[u] <= next[u] /\ localCommitted[u] <= next[u]
        /\ next[u] <= position[u] /\ position[u] <= Len(log[u])
    BY DEF IInv, Offsets
  <2> QED
    BY <2>1, <2>2, <2>3
<1>5. InHand'
  BY DEF IInv, InHand, Publish, reading
<1> QED
  BY <1>2, <1>3, <1>4, <1>5 DEF IInv

LEMMA PollInv ==
  ASSUME IInv, Poll
  PROVE  IInv'
<1>1. PICK n \in [Ready -> 0 .. MaxPoll] :
        /\ \A t \in Ready : position[t] + n[t] <= Len(log[t])
        /\ position' = [t \in ConsumeTopics |->
                          IF t \in Ready THEN position[t] + n[t] ELSE position[t]]
  BY DEF Poll
<1>2. \A t \in Ready : n[t] \in Nat
  BY <1>1, FlowAssumption
<1>3. \A t \in ConsumeTopics : /\ position'[t] \in Nat
                               /\ position[t] <= position'[t]
                               /\ position'[t] <= Len(log[t])
  <2> SUFFICES ASSUME NEW t \in ConsumeTopics
               PROVE  /\ position'[t] \in Nat
                      /\ position[t] <= position'[t]
                      /\ position'[t] <= Len(log[t])
    OBVIOUS
  <2>1. position[t] \in Nat /\ position[t] <= Len(log[t])
    BY DEF IInv, TypeOK, Offsets
  <2>2. CASE t \in Ready
    <3>1. position'[t] = position[t] + n[t] /\ n[t] \in Nat
      BY <1>1, <1>2, <2>2
    <3> QED
      BY <1>1, <2>1, <2>2, <3>1
  <2>3. CASE t \notin Ready
    BY <1>1, <2>1, <2>3
  <2> QED
    BY <2>2, <2>3
<1>4. TypeOK'
  <2>1. position' \in [ConsumeTopics -> Nat]
    BY <1>1, <1>3
  <2> QED
    BY <2>1 DEF IInv, TypeOK, Poll, broker, dlq, faults
<1>5. Offsets'
  <2> SUFFICES ASSUME NEW t \in ConsumeTopics
               PROVE  /\ committed[t] <= next[t] /\ localCommitted[t] <= next[t]
                      /\ next[t] <= position'[t] /\ position'[t] <= Len(log[t])
    BY DEF Poll, broker, Offsets
  <2>1. /\ next[t] \in Nat /\ position[t] \in Nat
        /\ committed[t] <= next[t] /\ localCommitted[t] <= next[t]
        /\ next[t] <= position[t]
    BY DEF IInv, TypeOK, Offsets
  <2> QED
    BY <1>3, <2>1
<1>6. InHand'
  BY DEF IInv, InHand, Poll, BatchDone
<1> QED
  BY <1>4, <1>5, <1>6 DEF IInv

LEMMA TakeInv ==
  ASSUME IInv, NEW t \in ConsumeTopics, Take(t)
  PROVE  IInv'
<1>1. TypeOK'
  BY DEF IInv, TypeOK, Take, broker, dlq, faults, Stages
<1>2. Offsets'
  BY DEF IInv, Offsets, Take, broker
<1>3. InHand'
  BY TopicFacts DEF IInv, InHand, Take
<1> QED
  BY <1>1, <1>2, <1>3 DEF IInv

\* What both outcomes of a commit have in common.
LEMMA CommitInv ==
  ASSUME IInv, CommitReturns \/ CommitFails
  PROVE  /\ IInv'
         /\ cur \in ConsumeTopics
         /\ next' = [next EXCEPT ![cur] = @ + 1]
         /\ UNCHANGED log
         /\ \/ UNCHANGED committed
            \/ committed' = [committed EXCEPT ![cur] = next[cur] + 1]
<1>1. cur \in ConsumeTopics /\ next[cur] \in Nat /\ position[cur] \in Nat
  BY DEF IInv, TypeOK, InHand, CommitReturns, CommitFails
<1>2. next[cur] + 1 <= position[cur]
  BY <1>1, TopicFacts DEF IInv, InHand
<1>3. /\ UNCHANGED <<log, published, proc, starts, assigned, position, mark,
                     attempts, dlq>>
      /\ MoveOn(next[cur] + 1)
      /\ raised' \in Nat /\ swallowed' \in Nat /\ commitFaults' \in Nat
  BY DEF IInv, TypeOK, CommitReturns, CommitFails, AfterCommit, faults
<1>4. /\ \/ UNCHANGED committed
         \/ committed' = [committed EXCEPT ![cur] = next[cur] + 1]
      /\ \/ UNCHANGED localCommitted
         \/ localCommitted' = [localCommitted EXCEPT ![cur] = next[cur] + 1]
  BY DEF CommitReturns, CommitFails, OffsetToCommit
<1>5. next' = [next EXCEPT ![cur] = @ + 1]
  BY <1>3 DEF MoveOn
<1>6. /\ cur' \in {cur, NoTopic} /\ stage' \in {"idle", "handle"}
      /\ (cur' = NoTopic) <=> (stage' = "idle")
      /\ cur' # NoTopic => next[cur] + 1 < position[cur]
  BY <1>1, <1>3, TopicFacts DEF MoveOn
<1>7. /\ next' \in [ConsumeTopics -> Nat] /\ committed' \in [ConsumeTopics -> Nat]
      /\ localCommitted' \in [ConsumeTopics -> Nat]
  <2>1. /\ next \in [ConsumeTopics -> Nat] /\ committed \in [ConsumeTopics -> Nat]
        /\ localCommitted \in [ConsumeTopics -> Nat]
    BY DEF IInv, TypeOK
  <2> QED
    BY <1>1, <1>4, <1>5, <2>1, Increment, Assignment
<1>8. TypeOK'
  BY <1>1, <1>3, <1>6, <1>7 DEF IInv, TypeOK, dlq, Stages
<1>9. Offsets'
  <2>1. SUFFICES ASSUME NEW t \in ConsumeTopics
                 PROVE  /\ committed'[t] <= next'[t]
                        /\ localCommitted'[t] <= next'[t]
                        /\ next'[t] <= position[t]
    BY <1>3 DEF IInv, Offsets
  <2>2. /\ committed[t] \in Nat /\ localCommitted[t] \in Nat
        /\ next[t] \in Nat /\ position[t] \in Nat
        /\ committed[t] <= next[t] /\ localCommitted[t] <= next[t]
        /\ next[t] <= position[t]
    BY DEF IInv, TypeOK, Offsets
  <2>3. /\ committed \in [ConsumeTopics -> Nat] /\ next \in [ConsumeTopics -> Nat]
        /\ localCommitted \in [ConsumeTopics -> Nat]
    BY DEF IInv, TypeOK
  <2>4. next'[t] = IF t = cur THEN next[t] + 1 ELSE next[t]
    BY <1>5, <2>3
  <2>5. committed'[t] = committed[t] \/ (t = cur /\ committed'[t] = next[t] + 1)
    BY <1>4, <2>3
  <2>6. localCommitted'[t] = localCommitted[t]
          \/ (t = cur /\ localCommitted'[t] = next[t] + 1)
    BY <1>4, <2>3
  <2> QED
    BY <1>2, <2>2, <2>4, <2>5, <2>6
<1>10. InHand'
  BY <1>1, <1>3, <1>5, <1>6 DEF IInv, TypeOK, InHand
<1> QED
  BY <1>1, <1>3, <1>4, <1>5, <1>8, <1>9, <1>10 DEF IInv

LEMMA InvNext == IInv /\ [Next]_vars => IInv'
<1> SUFFICES ASSUME IInv, [Next]_vars PROVE IInv'
  OBVIOUS
<1>1. CASE \E t \in EntryTopics, k \in Tasks, b \in Bodies : Publish(t, k, b)
  BY <1>1, PublishInv
<1>2. CASE \E view \in Views : Start(view)
  <2> PICK view \in Views : Start(view)
    BY <1>2
  <2>1. TypeOK'
    BY FlowAssumption DEF IInv, TypeOK, Start, broker, dlq, faults
  <2>2. Offsets' /\ InHand'
    BY DEF IInv, Offsets, InHand, Start, broker
  <2> QED
    BY <2>1, <2>2 DEF IInv
<1>3. CASE Crash \/ StopCompletes \/ Exit
  BY <1>3, LoseMemoryInv DEF Crash, StopCompletes, Exit
<1>4. CASE Stop \/ JoinTimeout
  <2>1. TypeOK'
    BY <1>4 DEF IInv, TypeOK, Stop, JoinTimeout, broker, dlq, faults
  <2>2. Offsets' /\ InHand'
    BY <1>4 DEF IInv, Offsets, InHand, Stop, JoinTimeout, broker
  <2> QED
    BY <2>1, <2>2 DEF IInv
<1>5. CASE Thread
  BY <1>5, PollInv, TakeInv, HandlerIsHandlerStep, HandlerStepInv, CommitInv
     DEF Thread
<1>6. CASE UNCHANGED vars
  <2>1. TypeOK'
    BY <1>6 DEF IInv, TypeOK, vars, broker, reading, dlq, faults
  <2>2. Offsets' /\ InHand'
    BY <1>6 DEF IInv, Offsets, InHand, vars, broker, reading
  <2> QED
    BY <2>1, <2>2 DEF IInv
<1> QED
  BY <1>1, <1>2, <1>3, <1>4, <1>5, <1>6 DEF Next

LEMMA InvHolds == Spec => []IInv
<1> QED
  BY InvInit, InvNext, PTL DEF Spec

\* The state keeps its types, for every set of tasks, files and bounds.
THEOREM TypeCorrect == Spec => []TypeOK
<1>1. IInv => TypeOK
  BY DEF IInv
<1> QED
  BY <1>1, InvHolds, PTL

-----------------------------------------------------------------------------
(* What one step does to the offsets.                                      *)

\* The process starts, or it goes on as it is: started, or not started.
Starts == \/ starts' = starts + 1 /\ proc = "down" /\ proc' # "down"
          \/ starts' = starts /\ (proc' = "down" <=> proc = "down")

\* Steps that append records from outside at most, and neither handle nor
\* commit a record.
Aside == /\ Extends
         /\ \A u \in Topics : \A i \in Len(log[u]) + 1 .. Len(log'[u]) :
              log'[u][i].src = External
         /\ UNCHANGED <<committed, next, mark, attempts, dlq>>
         /\ \/ UNCHANGED <<cur, stage>>
            \/ stage = "idle" /\ stage' = "handle"
         /\ UNCHANGED <<raised, swallowed>>
         /\ Starts

LEMMA PublishAside ==
  ASSUME IInv, NEW t \in EntryTopics, NEW k \in Tasks, NEW b \in Bodies,
         Publish(t, k, b)
  PROVE  Aside
<1> DEFINE m == [task |-> k, body |-> b, src |-> External]
<1>1. m \in Record /\ m.src = External /\ t \in Topics /\ TypeOK
  BY FlowAssumption, TopicFacts DEF IInv, Record, Source, External
<1>2. log' = [log EXCEPT ![t] = Append(@, m)]
  BY DEF Publish
<1> HIDE DEF m
<1>3. /\ Extends
      /\ Len(log'[t]) = Len(log[t]) + 1
      /\ log'[t][Len(log[t]) + 1] = m
  BY <1>1, <1>2, AppendExtends
<1>4. ASSUME NEW u \in Topics, NEW i \in Len(log[u]) + 1 .. Len(log'[u])
      PROVE  log'[u][i].src = External
  <2>1. CASE u = t
    <3>1. Len(log[u]) \in Nat
      BY <1>1 DEF TypeOK
    <3> QED
      BY <1>1, <1>3, <2>1, <3>1
  <2>2. CASE u # t
    <3>1. log'[u] = log[u] /\ Len(log[u]) \in Nat
      BY <1>1, <1>2, <2>2 DEF TypeOK
    <3> QED
      BY <3>1
  <2> QED
    BY <2>1, <2>2
<1> QED
  BY <1>3, <1>4 DEF Publish, reading, faults, Starts, Aside

LEMMA StepKinds ==
  ASSUME IInv, [Next]_vars
  PROVE  \/ Aside
         \/ LoseMemory
         \/ Handler /\ HandlerStep
         \/ CommitReturns \/ CommitFails
<1>1. UNCHANGED log =>
        /\ Extends
        /\ \A u \in Topics : \A i \in Len(log[u]) + 1 .. Len(log'[u]) :
             log'[u][i].src = External
  BY DEF IInv, TypeOK, Extends
<1>2. CASE \E t \in EntryTopics, k \in Tasks, b \in Bodies : Publish(t, k, b)
  BY <1>2, PublishAside
<1>3. CASE \E view \in Views : Start(view)
  BY <1>1, <1>3 DEF Start, broker, faults, Starts, Aside
<1>4. CASE Crash \/ StopCompletes \/ Exit
  BY <1>4 DEF Crash, StopCompletes, Exit
<1>5. CASE Stop \/ JoinTimeout
  BY <1>1, <1>5 DEF Stop, JoinTimeout, broker, faults, Starts, Aside
<1>6. CASE Poll
  BY <1>1, <1>6 DEF Poll, broker, faults, Starts, Aside
<1>7. CASE \E t \in ConsumeTopics : Take(t)
  BY <1>1, <1>7 DEF Take, broker, faults, Starts, Aside, IInv, InHand
<1>8. CASE Handler
  BY <1>8, HandlerIsHandlerStep
<1>9. CASE UNCHANGED vars
  BY <1>1, <1>9 DEF vars, broker, reading, faults, Starts, Aside
<1> QED
  BY <1>2, <1>3, <1>4, <1>5, <1>6, <1>7, <1>8, <1>9 DEF Next, Thread

\* Committed offsets never go back, in any run and across restarts.
THEOREM CommittedNeverGoesBack == Spec => CommitMonotone
<1>1. ASSUME IInv, [Next]_vars, NEW t \in ConsumeTopics
      PROVE  committed'[t] >= committed[t]
  <2>1. committed[t] \in Nat
    BY <1>1 DEF IInv, TypeOK
  <2>2. CASE UNCHANGED committed
    BY <2>1, <2>2
  <2>3. CASE CommitReturns \/ CommitFails
    <3>1. /\ cur \in ConsumeTopics
          /\ \/ UNCHANGED committed
             \/ committed' = [committed EXCEPT ![cur] = next[cur] + 1]
      BY <1>1, <2>3, CommitInv
    <3>2. committed[cur] <= next[cur] /\ next[cur] \in Nat /\ committed[cur] \in Nat
      BY <1>1, <3>1 DEF IInv, TypeOK, Offsets
    <3>3. committed \in [ConsumeTopics -> Nat]
      BY <1>1 DEF IInv, TypeOK
    <3> QED
      BY <2>1, <2>2, <3>1, <3>2, <3>3
  <2> QED
    BY <1>1, <2>2, <2>3, StepKinds DEF Aside, LoseMemory, HandlerStep, broker
<1>2. IInv /\ [Next]_vars =>
        [\A t \in ConsumeTopics : committed'[t] >= committed[t]]_vars
  BY <1>1
<1> QED
  BY <1>2, InvHolds, PTL DEF Spec, CommitMonotone

-----------------------------------------------------------------------------
(* The consumer loses no task as long as no send fails, and each failed    *)
(* send costs at most one.  The invariants behind NoLossWithoutFault and   *)
(* the two budgets speak of every record handled in this run, not only of  *)
(* the committed ones, and of what the two stages between "handle" and     *)
(* "commit" remember of the record in hand.                                *)

\* The record at offset o of topic t has led where it should.
Delivered(t, o) ==
  log[t][o + 1].body = "valid" =>
    \E u \in Targets(t, log[t][o + 1]) : Emitted(u, t, o)

LossInv ==
  raised = 0 /\ swallowed = 0 =>
    /\ \A t \in ConsumeTopics : \A o \in 0 .. Cursor[t] - 1 : Delivered(t, o)
    /\ stage = "dlq" => ~Routable(File[Current.task])
    /\ stage = "enqueue" =>
         \A o \in Nat : o = next["RETRY"] => Delivered("RETRY", o)

LEMMA TargetsInTopics ==
  ASSUME NEW t \in ConsumeTopics, NEW m
  PROVE  Targets(t, m) \subseteq Topics
BY TopicFacts, RouteInTopics DEF Targets, ConsumeTopics, Topics

LEMMA CursorBounds ==
  ASSUME IInv, NEW t \in ConsumeTopics
  PROVE  /\ Cursor[t] \in Nat /\ next[t] \in Nat /\ committed[t] \in Nat
         /\ Len(log[t]) \in Nat
         /\ committed[t] <= next[t] /\ next[t] <= Cursor[t]
         /\ Cursor[t] <= Len(log[t])
<1>1. /\ next[t] \in Nat /\ committed[t] \in Nat /\ position[t] \in Nat
      /\ committed[t] <= next[t] /\ next[t] <= position[t]
      /\ position[t] <= Len(log[t])
  BY DEF IInv, TypeOK, Offsets
<1>2. Len(log[t]) \in Nat
  BY TopicFacts DEF IInv, TypeOK
<1>3. t = cur => next[t] + 1 <= position[t]
  BY <1>1, TopicFacts DEF IInv, InHand
<1> QED
  BY <1>1, <1>2, <1>3 DEF Cursor

LEMMA DeliveredStable ==
  ASSUME IInv, Extends, NEW t \in ConsumeTopics, NEW o \in Nat,
         o < Len(log[t]), Delivered(t, o)
  PROVE  Delivered(t, o)'
<1>1. t \in Topics
  BY TopicFacts
<1>2. Len(log[t]) \in Nat
  BY <1>1 DEF IInv, TypeOK
<1>3. log'[t][o + 1] = log[t][o + 1]
  BY <1>1, <1>2 DEF Extends
<1>4. ASSUME NEW u \in Topics, Emitted(u, t, o)
      PROVE  Emitted(u, t, o)'
  <2>1. Len(log[u]) \in Nat /\ Len(log'[u]) \in Nat
    BY DEF IInv, TypeOK, Extends
  <2> QED
    BY <1>4, <2>1 DEF Emitted, Extends
<1>5. Targets(t, log[t][o + 1]) \subseteq Topics
  BY TargetsInTopics
<1> QED
  BY <1>3, <1>4, <1>5 DEF Delivered, Targets

\* What is written for the record in hand is there.
LEMMA WrittenEmits ==
  ASSUME IInv, NEW t \in ConsumeTopics, t = cur, NEW o \in Nat, o = next[t],
         NEW u \in Topics, NEW b \in {"valid", "event"}, Written(u, b)
  PROVE  Emitted(u, t, o)'
<1> DEFINE m == [task |-> Current.task, body |-> b,
                 src |-> [topic |-> cur, offset |-> next[cur]]]
<1>1. log' = [log EXCEPT ![u] = Append(@, m)]
  BY DEF Written
<1>2. TypeOK /\ Current \in Record
  BY CurrentInLog, TopicFacts DEF IInv
<1>3. m \in Record /\ m.src = [topic |-> t, offset |-> o]
  BY <1>2 DEF Record, Source
<1> HIDE DEF m
<1>4. /\ Len(log'[u]) = Len(log[u]) + 1
      /\ log'[u][Len(log[u]) + 1] = m
  BY <1>1, <1>2, <1>3, AppendExtends
<1>5. Len(log[u]) \in Nat
  BY <1>2 DEF TypeOK
<1> QED
  BY <1>3, <1>4, <1>5 DEF Emitted

\* A send that did not fail wrote its record.
LEMMA SendEmits ==
  ASSUME IInv, NEW t \in ConsumeTopics, t = cur, NEW o \in Nat, o = next[t],
         NEW u \in Topics, NEW b \in {"valid", "event"},
         SendReturns(u, b) \/ SendRaises(u, b),
         raised' = 0, swallowed' = 0
  PROVE  Emitted(u, t, o)'
<1>1. Written(u, b)
  BY DEF SendReturns, SendRaises, faults, IInv, TypeOK
<1> QED
  BY <1>1, WrittenEmits

-----------------------------------------------------------------------------
(* The invariant.                                                          *)

LEMMA LossInit == Init => LossInv
BY TopicFacts DEF Init, LossInv, Cursor, Zero

LEMMA NoFaultYet ==
  ASSUME IInv, Handler, raised' = 0, swallowed' = 0
  PROVE  raised = 0 /\ swallowed = 0
<1>1. raised \in Nat /\ swallowed \in Nat
  BY DEF IInv, TypeOK
<1> QED
  BY <1>1 DEF Handler, Reject, HandleSubmit, DeadLetterSubmit, HandlePreprocess,
         HandleElement, HandleGeneralCleaning, RetryAgain, RetryExhausted,
         EnqueueDlq, SendThenCommit, SendReturns, SendRaises, faults

\* A handler delivers the record in hand before it turns to the commit.
LEMMA HandlerDelivers ==
  ASSUME IInv, LossInv, Handler, HandlerStep, raised' = 0, swallowed' = 0,
         NEW t \in ConsumeTopics, t = cur, NEW o \in Nat, o = next[t]
  PROVE  /\ stage' = "dlq" => ~Routable(File[Current.task])
         /\ stage' # "dlq" => Delivered(t, o)'
<1>1. /\ t # NoTopic /\ o + 1 \in 1 .. Len(log[t]) /\ Current = log[t][o + 1]
      /\ Current \in Record
  BY CurrentInLog, TopicFacts DEF Current
<1>2. raised = 0 /\ swallowed = 0
  BY NoFaultYet
<1>3. log'[t][o + 1] = Current
  BY <1>1, TopicFacts DEF HandlerStep, Extends
<1>4. ASSUME NEW u \in Topics, NEW b \in {"valid", "event"},
             SendReturns(u, b) \/ SendRaises(u, b), u \in Targets(t, Current)
      PROVE  Delivered(t, o)'
  <2>1. Emitted(u, t, o)'
    BY <1>4, SendEmits
  <2> QED
    BY <1>3, <1>4, <2>1 DEF Delivered, Targets
<1>5. ASSUME NEW u \in Topics, NEW b, SendRaises(u, b)
      PROVE  FALSE
  BY <1>2, <1>5 DEF SendRaises
<1>6. Targets(t, Current) =
        IF t = "TASK_SUBMIT"
        THEN IF Routable(File[Current.task])
             THEN {RouteTarget(File[Current.task])} ELSE {"DLQ"}
        ELSE IF t \in PreprocessTopics THEN {"UNIFIED_INPUT"}
        ELSE IF t \in ElementTopics THEN {"GENERAL_CLEANING"}
        ELSE IF t = "GENERAL_CLEANING" THEN {"TASK_COMPLETE"}
        ELSE {"RETRY", "DLQ"}
  BY DEF Targets, ConsumeTopics, PreprocessTopics, ElementTopics
<1>7. CASE Reject
  BY <1>1, <1>3, <1>7 DEF Reject, Delivered
<1>8. CASE HandleSubmit
  <2>1. t = "TASK_SUBMIT"
    BY <1>8 DEF HandleSubmit, Handling
  <2>2. CASE Routable(File[Current.task])
    <3>1. RouteTarget(File[Current.task]) \in Topics
      BY <2>2, RouteInTopics
    <3>2. /\ SendReturns(RouteTarget(File[Current.task]), "valid")
          /\ stage' = "commit"
      BY <1>5, <1>8, <2>2, <3>1
         DEF HandleSubmit, SubmitTarget, AfterForward
    <3> QED
      BY <1>4, <1>6, <2>1, <2>2, <3>1, <3>2
  <2>3. CASE ~Routable(File[Current.task])
    BY <1>8, <2>3 DEF HandleSubmit, AfterRoutingError
  <2> QED
    BY <2>2, <2>3
<1>9. CASE DeadLetterSubmit
  <2>1. t = "TASK_SUBMIT" /\ ~Routable(File[Current.task])
    BY <1>2, <1>9 DEF DeadLetterSubmit, IInv, InHand, LossInv
  <2> QED
    BY <1>4, <1>6, <1>9, <2>1, TopicFacts DEF DeadLetterSubmit, SendThenCommit
<1>10. CASE HandlePreprocess
  <2>1. t \in PreprocessTopics
    BY <1>10 DEF HandlePreprocess, Handling
  <2>2. t # "TASK_SUBMIT"
    BY <2>1 DEF PreprocessTopics
  <2> QED
    BY <1>4, <1>6, <1>10, <2>1, <2>2, TopicFacts
       DEF HandlePreprocess, SendThenCommit
<1>11. CASE HandleElement
  <2>1. t \in ElementTopics
    BY <1>11 DEF HandleElement, Handling
  <2>2. t # "TASK_SUBMIT" /\ t \notin PreprocessTopics
    BY <2>1 DEF PreprocessTopics, ElementTopics
  <2> QED
    BY <1>4, <1>6, <1>11, <2>1, <2>2, TopicFacts
       DEF HandleElement, SendThenCommit
<1>12. CASE HandleGeneralCleaning
  <2>1. t = "GENERAL_CLEANING"
    BY <1>12 DEF HandleGeneralCleaning, Handling
  <2>2. t \notin PreprocessTopics /\ t \notin ElementTopics
    BY <2>1 DEF PreprocessTopics, ElementTopics
  <2> QED
    BY <1>4, <1>6, <1>12, <2>1, <2>2, TopicFacts
       DEF HandleGeneralCleaning, SendThenCommit
<1>13. t = "RETRY" => "RETRY" \in Targets(t, Current) /\ "DLQ" \in Targets(t, Current)
  BY <1>6 DEF PreprocessTopics, ElementTopics
<1>14. CASE RetryAgain
  BY <1>4, <1>13, <1>14, TopicFacts DEF RetryAgain, Handling, SendThenCommit
<1>15. CASE RetryExhausted
  BY <1>4, <1>13, <1>15, TopicFacts
     DEF RetryExhausted, Handling, AfterRaisedDlqSend
<1>16. CASE EnqueueDlq
  <2>1. t = "RETRY" /\ Delivered(t, o)
    BY <1>2, <1>16 DEF EnqueueDlq, IInv, InHand, LossInv
  <2> QED
    BY <1>1, <1>16, <2>1, DeliveredStable DEF EnqueueDlq, HandlerStep
<1> QED
  BY <1>7, <1>8, <1>9, <1>10, <1>11, <1>12, <1>14, <1>15, <1>16 DEF Handler

\* The cursor, and so the set of handled records, after each kind of step.
LEMMA CursorAfter ==
  ASSUME IInv, [Next]_vars, NEW t \in ConsumeTopics
  PROVE  /\ Aside => Cursor'[t] = Cursor[t]
         /\ CommitReturns \/ CommitFails => Cursor'[t] = Cursor[t]
         /\ LoseMemory => Cursor'[t] = committed[t]
         /\ Handler /\ HandlerStep =>
              Cursor'[t] = IF t = cur /\ stage' = "commit" THEN next[t] + 1 ELSE next[t]
         /\ t = cur /\ stage # "commit" => Cursor[t] = next[t]
<1>1. Cursor'[t] = IF t = cur' /\ stage' = "commit" THEN next'[t] + 1 ELSE next'[t]
  BY DEF Cursor
<1>2. Cursor[t] = IF t = cur /\ stage = "commit" THEN next[t] + 1 ELSE next[t]
  BY DEF Cursor
<1>3. Aside => Cursor'[t] = Cursor[t]
  BY <1>1, <1>2 DEF Aside
<1>4. ASSUME CommitReturns \/ CommitFails PROVE Cursor'[t] = Cursor[t]
  <2>1. next' = [next EXCEPT ![cur] = @ + 1] /\ next \in [ConsumeTopics -> Nat]
    BY <1>4, CommitInv DEF IInv, TypeOK
  <2>2. stage = "commit" /\ stage' \in {"handle", "idle"}
    BY <1>4 DEF CommitReturns, CommitFails, MoveOn
  <2> QED
    BY <1>1, <1>2, <2>1, <2>2
<1>5. LoseMemory => Cursor'[t] = committed[t]
  BY <1>1 DEF LoseMemory, ResumeAt
<1>6. Handler /\ HandlerStep =>
        Cursor'[t] = IF t = cur /\ stage' = "commit" THEN next[t] + 1 ELSE next[t]
  BY <1>1 DEF HandlerStep, reading
<1>7. t = cur /\ stage # "commit" => Cursor[t] = next[t]
  BY <1>2
<1> QED
  BY <1>3, <1>4, <1>5, <1>6, <1>7

LEMMA LossNext == IInv /\ LossInv /\ [Next]_vars => LossInv'
<1> SUFFICES ASSUME IInv, LossInv, [Next]_vars, raised' = 0, swallowed' = 0
             PROVE  /\ \A t \in ConsumeTopics : \A o \in 0 .. Cursor'[t] - 1 :
                         Delivered(t, o)'
                    /\ stage' = "dlq" => ~Routable(File[Current.task])'
                    /\ stage' = "enqueue" =>
                         \A o \in Nat : o = next'["RETRY"] => Delivered("RETRY", o)'
  BY DEF LossInv
<1>1. ASSUME Extends, raised = 0, swallowed = 0,
             NEW t \in ConsumeTopics, NEW o \in Nat, o < Cursor[t]
      PROVE  Delivered(t, o)'
  <2>1. Cursor[t] \in Nat /\ Len(log[t]) \in Nat /\ Cursor[t] <= Len(log[t])
    BY CursorBounds
  <2>2. Delivered(t, o)
    BY <1>1, <2>1 DEF LossInv
  <2> QED
    BY <1>1, <2>1, <2>2, DeliveredStable
<1>2. \A t \in ConsumeTopics : /\ Cursor[t] \in Nat /\ committed[t] \in Nat
                               /\ next[t] \in Nat
                               /\ committed[t] <= Cursor[t] /\ next[t] <= Cursor[t]
  <2> SUFFICES ASSUME NEW t \in ConsumeTopics
               PROVE  /\ Cursor[t] \in Nat /\ committed[t] \in Nat
                      /\ next[t] \in Nat
                      /\ committed[t] <= Cursor[t] /\ next[t] <= Cursor[t]
    OBVIOUS
  <2> QED
    BY CursorBounds
<1>3. CASE Aside
  <2>1. raised = 0 /\ swallowed = 0 /\ Extends
    BY <1>3 DEF Aside
  <2>2. \A t \in ConsumeTopics : \A o \in 0 .. Cursor'[t] - 1 : Delivered(t, o)'
    BY <1>1, <1>2, <1>3, <2>1, CursorAfter
  <2>3. UNCHANGED <<cur, stage>> \/ stage' = "handle"
    BY <1>3 DEF Aside
  <2>4. ASSUME stage' = "dlq" PROVE ~Routable(File[Current.task])'
    <3>1. cur' = cur /\ next' = next /\ stage = "dlq" /\ cur # NoTopic
      BY <1>3, <2>3, <2>4, TopicFacts DEF Aside, IInv, InHand
    <3>2. Current' = Current
      <4>1. cur \in Topics /\ next[cur] + 1 \in 1 .. Len(log[cur])
        BY <3>1, CurrentInLog, TopicFacts
      <4>2. log'[cur][next[cur] + 1] = log[cur][next[cur] + 1]
        BY <2>1, <4>1 DEF Extends
      <4> QED
        BY <3>1, <4>2 DEF Current
    <3> QED
      BY <2>1, <3>1, <3>2 DEF LossInv
  <2>5. ASSUME stage' = "enqueue", NEW o \in Nat, o = next'["RETRY"]
        PROVE  Delivered("RETRY", o)'
    <3>1. stage = "enqueue" /\ cur = "RETRY" /\ o = next[cur] /\ cur # NoTopic
      BY <1>3, <2>3, <2>5, TopicFacts DEF Aside, IInv, InHand
    <3>2. Delivered("RETRY", o)
      BY <2>1, <3>1 DEF LossInv
    <3>3. o < Len(log["RETRY"]) /\ "RETRY" \in ConsumeTopics
      <4>1. o + 1 \in 1 .. Len(log["RETRY"])
        BY <3>1, CurrentInLog
      <4>2. Len(log["RETRY"]) \in Nat
        BY CursorBounds, TopicFacts
      <4> QED
        BY <4>1, <4>2, TopicFacts
    <3> QED
      BY <2>1, <3>2, <3>3, DeliveredStable
  <2> QED
    BY <2>2, <2>4, <2>5
<1>4. CASE LoseMemory
  <2>1. raised = 0 /\ swallowed = 0 /\ UNCHANGED log /\ stage' = "idle"
    BY <1>4 DEF LoseMemory, faults
  <2>2. Extends
    BY <2>1 DEF IInv, TypeOK, Extends
  <2>3. \A t \in ConsumeTopics : \A o \in 0 .. Cursor'[t] - 1 : Delivered(t, o)'
    BY <1>1, <1>2, <1>4, <2>1, <2>2, CursorAfter
  <2> QED
    BY <2>1, <2>3
<1>5. CASE Handler /\ HandlerStep
  <2>1. raised = 0 /\ swallowed = 0 /\ Extends
    BY <1>5, NoFaultYet DEF HandlerStep
  <2>2. cur \in ConsumeTopics /\ next[cur] \in Nat /\ cur' = cur /\ next' = next
    BY <1>5, CurrentInLog DEF HandlerStep, reading
  <2>3. /\ stage' = "dlq" => ~Routable(File[Current.task])
        /\ stage' # "dlq" => \A o \in Nat : o = next[cur] => Delivered(cur, o)'
    BY <1>5, <2>2, HandlerDelivers
  <2>4. Current' = Current
    <3>1. cur \in Topics /\ next[cur] + 1 \in 1 .. Len(log[cur])
      BY <1>5, <2>2, CurrentInLog, TopicFacts DEF HandlerStep
    <3>2. log'[cur][next[cur] + 1] = log[cur][next[cur] + 1]
      BY <2>1, <3>1 DEF Extends
    <3> QED
      BY <2>2, <3>2 DEF Current
  <2>5. ASSUME NEW t \in ConsumeTopics, NEW o \in 0 .. Cursor'[t] - 1
        PROVE  Delivered(t, o)'
    <3>1. CASE o < Cursor[t]
      BY <1>1, <2>1, <2>5, <3>1
    <3>2. CASE ~(o < Cursor[t])
      <4>1. t = cur /\ stage' = "commit" /\ o = next[t]
        BY <1>2, <1>5, <2>5, <3>2, CursorAfter
      <4> QED
        BY <2>2, <2>3, <4>1
    <3> QED
      BY <3>1, <3>2
  <2>6. stage' = "enqueue" => cur = "RETRY"
    BY <1>5 DEF HandlerStep
  <2> QED
    BY <2>2, <2>3, <2>4, <2>5, <2>6
<1>6. CASE CommitReturns \/ CommitFails
  <2>1. raised = 0 /\ swallowed = 0 /\ UNCHANGED log /\ stage' \in {"handle", "idle"}
    BY <1>6 DEF CommitReturns, CommitFails, MoveOn, faults
  <2>2. Extends
    BY <2>1 DEF IInv, TypeOK, Extends
  <2>3. \A t \in ConsumeTopics : \A o \in 0 .. Cursor'[t] - 1 : Delivered(t, o)'
    BY <1>1, <1>2, <1>6, <2>1, <2>2, CursorAfter
  <2> QED
    BY <2>1, <2>3
<1> QED
  BY <1>3, <1>4, <1>5, <1>6, StepKinds

\* No task is lost as long as no send fails: whatever commits fail, whenever
\* the process ends or restarts, every valid record below a committed offset
\* was passed on to the stage its topic and format prescribe.
THEOREM NoTaskLost == Spec => []NoLossWithoutFault
<1>1. IInv /\ LossInv => NoLossWithoutFault
  <2> SUFFICES ASSUME IInv, LossInv, raised = 0, swallowed = 0,
                      NEW t \in ConsumeTopics, NEW o \in 0 .. committed[t] - 1
               PROVE  Delivered(t, o)
    BY DEF NoLossWithoutFault, Delivered
  <2>1. o \in 0 .. Cursor[t] - 1
    BY CursorBounds
  <2> QED
    BY <2>1 DEF LossInv
<1> QED
  BY <1>1, LossInit, LossNext, InvInit, InvNext, PTL DEF Spec

-----------------------------------------------------------------------------
(* What failed sends cost.  The properties count the lost records that are *)
(* committed; the invariant counts all that were handled, as soon as their *)
(* last send is behind them, since a commit comes after the fault.         *)

HandledTo(t) == IF t = cur /\ stage \in {"enqueue", "commit"} THEN next[t] + 1
                                                             ELSE next[t]

\* The valid record at offset o of topic t led to nothing.
Vain(t, o) == /\ log[t][o + 1].body = "valid"
              /\ \A u \in Topics : ~Emitted(u, t, o)

LostSoFar == {p \in ConsumeTopics \X Nat :
                p[2] < HandledTo(p[1]) /\ Vain(p[1], p[2])}

LostSubmissions == {o \in Nat : /\ <<"TASK_SUBMIT", o>> \in LostSoFar
                                /\ Routable(File[log["TASK_SUBMIT"][o + 1].task])}

\* A routable submission is in the except clause: its forward has raised.
Falling == stage = "dlq" /\ Routable(File[Current.task])

LostInv ==
  /\ IsFiniteSet(LostSoFar)
  /\ Cardinality(LostSoFar) <= raised + swallowed

TwoFaultsInv ==
  /\ IsFiniteSet(LostSubmissions)
  /\ swallowed = 0 =>
       2 * Cardinality(LostSubmissions) + (IF Falling THEN 1 ELSE 0) <= raised

LEMMA HandledBounds ==
  ASSUME IInv, NEW t \in ConsumeTopics
  PROVE  /\ HandledTo(t) \in Nat /\ Len(log[t]) \in Nat
         /\ committed[t] \in Nat /\ next[t] \in Nat
         /\ committed[t] <= next[t] /\ next[t] <= HandledTo(t)
         /\ HandledTo(t) <= Len(log[t])
<1>1. /\ next[t] \in Nat /\ committed[t] \in Nat /\ position[t] \in Nat
      /\ committed[t] <= next[t] /\ next[t] <= position[t]
      /\ position[t] <= Len(log[t])
  BY DEF IInv, TypeOK, Offsets
<1>2. t = cur => next[t] + 1 <= position[t]
  BY <1>1, TopicFacts DEF IInv, InHand
<1> QED
  BY <1>1, <1>2, CursorBounds DEF HandledTo

\* What led to something keeps having done so.
LEMMA VainBefore ==
  ASSUME IInv, Extends, NEW t \in ConsumeTopics, NEW o \in Nat,
         o < Len(log[t]), Vain(t, o)'
  PROVE  Vain(t, o) /\ log'[t][o + 1] = log[t][o + 1]
<1>1. log'[t][o + 1] = log[t][o + 1]
  BY HandledBounds, TopicFacts DEF Extends
<1>2. ASSUME NEW u \in Topics, Emitted(u, t, o)
      PROVE  Emitted(u, t, o)'
  <2>1. Len(log[u]) \in Nat /\ Len(log'[u]) \in Nat
    BY DEF IInv, TypeOK, Extends
  <2> QED
    BY <1>2, <2>1 DEF Emitted, Extends
<1> QED
  BY <1>1, <1>2 DEF Vain

\* A step that handles nothing more loses nothing more.
LEMMA LostBefore ==
  ASSUME IInv, Extends, NEW t \in ConsumeTopics, NEW o \in Nat,
         <<t, o>> \in LostSoFar', o < HandledTo(t)
  PROVE  <<t, o>> \in LostSoFar /\ log'[t][o + 1] = log[t][o + 1]
<1>1. Vain(t, o)' /\ o < Len(log[t])
  BY HandledBounds DEF LostSoFar
<1> QED
  BY <1>1, VainBefore DEF LostSoFar

\* What the record in hand at offset o of topic t costs a handler step: nothing,
\* when the record led to something or its last send is still to come, or else
\* the fault of the send.  A submission has raised twice by then.
HandlerCost(t, o) ==
  \/ /\ stage' # "dlq" => stage = "enqueue" \/ ~Vain(t, o)'
     /\ Falling' => raised' = raised + 1
     /\ raised' >= raised /\ swallowed' >= swallowed
  \/ /\ stage' # "dlq" /\ stage # "enqueue"
     /\ swallowed' = swallowed + 1 /\ raised' = raised
  \/ /\ stage' # "dlq" /\ stage # "enqueue"
     /\ raised' = raised + 1 /\ swallowed' = swallowed
     /\ t = "TASK_SUBMIT" => stage = "dlq"

LEMMA HandlerCosts ==
  ASSUME IInv, Handler, HandlerStep, NEW t \in ConsumeTopics, t = cur,
         NEW o \in Nat, o = next[t]
  PROVE  HandlerCost(t, o)
<1> USE TopicFacts
<1>1. raised \in Nat /\ swallowed \in Nat
  BY DEF IInv, TypeOK
<1>2. /\ t # NoTopic /\ o + 1 \in 1 .. Len(log[t]) /\ Current = log[t][o + 1]
      /\ Current \in Record
  BY CurrentInLog DEF Current
<1>3. log'[t][o + 1] = Current /\ Current' = Current
  BY <1>2 DEF HandlerStep, Extends, reading, Current
<1>4. stage' = "dlq" => stage # "enqueue"
  BY DEF Handler, Reject, HandleSubmit, DeadLetterSubmit, HandlePreprocess,
     HandleElement, HandleGeneralCleaning, RetryAgain, RetryExhausted, EnqueueDlq,
     Handling, SendThenCommit
<1>5. ASSUME NEW u \in Topics, NEW b \in {"valid", "event"},
             SendReturns(u, b) \/ SendRaises(u, b)
      PROVE  \/ ~Vain(t, o)' /\ UNCHANGED <<raised, swallowed>> /\ SendReturns(u, b)
             \/ SendReturns(u, b) /\ swallowed' = swallowed + 1 /\ raised' = raised
             \/ SendRaises(u, b) /\ raised' = raised + 1 /\ swallowed' = swallowed
  <2>1. Written(u, b) => ~Vain(t, o)'
    BY WrittenEmits DEF Vain
  <2> QED
    BY <1>5, <2>1 DEF SendReturns, SendRaises, faults
<1>6. CASE Reject
  <2>1. ~Vain(t, o)' /\ stage' = "commit" /\ UNCHANGED <<raised, swallowed>>
    BY <1>3, <1>6 DEF Reject, Vain, faults
  <2> QED
    BY <1>1, <2>1 DEF HandlerCost, Falling
<1>7. CASE HandleSubmit
  <2>1. stage = "handle"
    BY <1>7 DEF HandleSubmit, Handling
  <2>2. CASE Routable(File[Current.task])
    <3> DEFINE u == SubmitTarget(Current.task)
    <3>1. u \in Topics
      BY <2>2, RouteInTopics DEF SubmitTarget
    <3>2. \/ SendReturns(u, "valid") /\ stage' = "commit"
          \/ SendRaises(u, "valid") /\ stage' = "dlq"
      BY <1>7, <2>2 DEF HandleSubmit, AfterForward, AfterRoutingError
    <3>3. SendRaises(u, "valid") => raised' = raised + 1 /\ swallowed' = swallowed
      BY DEF SendRaises
    <3> HIDE DEF u
    <3>4. CASE SendReturns(u, "valid") /\ stage' = "commit"
      <4>1. \/ ~Vain(t, o)' /\ UNCHANGED <<raised, swallowed>>
            \/ swallowed' = swallowed + 1 /\ raised' = raised
        BY <1>1, <1>5, <3>1, <3>3, <3>4 DEF SendReturns, faults
      <4> QED
        BY <1>1, <2>1, <3>4, <4>1 DEF HandlerCost, Falling
    <3>5. CASE SendRaises(u, "valid") /\ stage' = "dlq"
      BY <1>1, <3>3, <3>5 DEF HandlerCost, Falling
    <3> QED
      BY <3>2, <3>4, <3>5
  <2>3. CASE ~Routable(File[Current.task])
    <3>1. stage' = "dlq" /\ UNCHANGED <<raised, swallowed>>
      BY <1>7, <2>3 DEF HandleSubmit, AfterRoutingError, faults
    <3>2. ~Falling'
      BY <1>3, <2>3 DEF Falling
    <3> QED
      BY <1>1, <3>1, <3>2 DEF HandlerCost
  <2> QED
    BY <2>2, <2>3
<1>8. CASE DeadLetterSubmit \/ HandlePreprocess \/ HandleElement
             \/ HandleGeneralCleaning \/ RetryAgain
  <2>1. PICK u \in Topics, b \in {"valid", "event"} : SendThenCommit(u, b)
    BY <1>8 DEF DeadLetterSubmit, HandlePreprocess, HandleElement,
                HandleGeneralCleaning, RetryAgain
  <2>2. stage' = "commit" /\ (SendReturns(u, b) \/ SendRaises(u, b))
    BY <2>1 DEF SendThenCommit
  <2>3. stage # "enqueue" /\ (t = "TASK_SUBMIT" => stage = "dlq")
    BY <1>8 DEF DeadLetterSubmit, HandlePreprocess, HandleElement,
       HandleGeneralCleaning, RetryAgain, Handling, PreprocessTopics, ElementTopics
  <2> QED
    BY <1>1, <1>5, <2>2, <2>3 DEF HandlerCost, Falling
<1>9. CASE RetryExhausted
  <2>1. /\ stage = "handle" /\ t = "RETRY" /\ stage' # "dlq"
        /\ SendReturns("DLQ", "event") \/ SendRaises("DLQ", "event")
    BY <1>9 DEF RetryExhausted, Handling, AfterRaisedDlqSend
  <2> QED
    BY <1>1, <1>5, <2>1 DEF HandlerCost, Falling
<1>10. CASE EnqueueDlq
  BY <1>1, <1>10 DEF EnqueueDlq, HandlerCost, Falling, faults
<1> QED
  BY <1>6, <1>7, <1>8, <1>9, <1>10 DEF Handler

\* How the lost records and the faults change together.
LostEffect ==
  \/ /\ LostSoFar' \subseteq LostSoFar
     /\ Falling' => Falling \/ raised' = raised + 1
     /\ raised' >= raised /\ swallowed' >= swallowed
  \/ /\ LostSoFar' \subseteq LostSoFar \cup {<<cur, next[cur]>>}
     /\ cur # NoTopic /\ stage' # "dlq"
     /\ \/ swallowed' = swallowed + 1 /\ raised' = raised
        \/ /\ raised' = raised + 1 /\ swallowed' = swallowed
           /\ cur = "TASK_SUBMIT" => stage = "dlq"

\* Records keep their place while the process reads on.
LEMMA LostKeeps ==
  ASSUME IInv, Extends,
         \A t \in ConsumeTopics : HandledTo(t)' \in Nat /\ HandledTo(t)' <= HandledTo(t)
  PROVE  LostSoFar' \subseteq LostSoFar
<1> SUFFICES ASSUME NEW p \in LostSoFar' PROVE p \in LostSoFar
  OBVIOUS
<1>1. PICK t \in ConsumeTopics, o \in Nat : p = <<t, o>>
  BY DEF LostSoFar
<1>2. o < HandledTo(t)'
  BY <1>1 DEF LostSoFar
<1>3. o < HandledTo(t)
  BY <1>2, HandledBounds
<1> QED
  BY <1>1, <1>3, LostBefore

LEMMA LostNext ==
  ASSUME IInv, [Next]_vars
  PROVE  LostEffect
<1> USE TopicFacts
<1>1. /\ raised \in Nat /\ swallowed \in Nat
      /\ \A t \in ConsumeTopics : HandledTo(t) \in Nat /\ next[t] \in Nat
                                 /\ committed[t] \in Nat
                                 /\ committed[t] <= next[t] /\ next[t] <= HandledTo(t)
  <2>1. raised \in Nat /\ swallowed \in Nat
    BY DEF IInv, TypeOK
  <2> QED
    BY <2>1, HandledBounds
<1>2. UNCHANGED log => Extends
  BY DEF IInv, TypeOK, Extends
<1>3. CASE Aside
  <2>1. Extends /\ UNCHANGED <<next, raised, swallowed>>
    BY <1>3 DEF Aside
  <2>2. \A t \in ConsumeTopics : HandledTo(t)' = HandledTo(t)
    BY <1>3 DEF Aside, HandledTo
  <2>3. Falling' => Falling
    <3> SUFFICES ASSUME Falling' PROVE Falling
      OBVIOUS
    <3>1. UNCHANGED <<cur, stage, next>> /\ cur # NoTopic
      BY <1>3 DEF Aside, Falling, IInv, InHand
    <3>2. cur \in Topics /\ next[cur] + 1 \in 1 .. Len(log[cur])
      BY <3>1, CurrentInLog
    <3>3. log'[cur][next[cur] + 1] = log[cur][next[cur] + 1]
      BY <2>1, <3>2 DEF Extends
    <3> QED
      BY <3>1, <3>3 DEF Falling, Current
  <2>4. LostSoFar' \subseteq LostSoFar
    BY <1>1, <2>1, <2>2, LostKeeps
  <2> QED
    BY <1>1, <2>1, <2>3, <2>4 DEF LostEffect
<1>4. CASE LoseMemory
  <2>1. Extends /\ stage' = "idle" /\ UNCHANGED <<raised, swallowed>>
    BY <1>2, <1>4 DEF LoseMemory, faults
  <2>2. \A t \in ConsumeTopics : HandledTo(t)' = committed[t]
    BY <1>4 DEF LoseMemory, ResumeAt, HandledTo
  <2>3. LostSoFar' \subseteq LostSoFar
    BY <1>1, <2>1, <2>2, LostKeeps
  <2> QED
    BY <1>1, <2>1, <2>3 DEF LostEffect, Falling
<1>5. CASE CommitReturns \/ CommitFails
  <2>1. /\ Extends /\ stage = "commit" /\ stage' \in {"idle", "handle"}
        /\ UNCHANGED <<raised, swallowed>>
    BY <1>2, <1>5 DEF CommitReturns, CommitFails, MoveOn, faults
  <2>2. next' = [next EXCEPT ![cur] = @ + 1] /\ next \in [ConsumeTopics -> Nat]
    BY <1>5, CommitInv DEF IInv, TypeOK
  <2>3. \A t \in ConsumeTopics : HandledTo(t)' = HandledTo(t)
    BY <2>1, <2>2 DEF HandledTo
  <2>4. LostSoFar' \subseteq LostSoFar
    BY <1>1, <2>1, <2>3, LostKeeps
  <2> QED
    BY <1>1, <2>1, <2>4 DEF LostEffect, Falling
<1>6. CASE Handler /\ HandlerStep
  <2>1. /\ cur \in ConsumeTopics /\ cur # NoTopic /\ next[cur] \in Nat
        /\ UNCHANGED <<cur, next>> /\ Extends
    BY <1>6, CurrentInLog DEF HandlerStep, reading
  <2>2. \A t \in ConsumeTopics :
          HandledTo(t)' = IF t = cur /\ stage' # "dlq" THEN next[t] + 1 ELSE next[t]
    BY <1>6, <2>1 DEF HandlerStep, HandledTo
  <2>3. LostSoFar' \subseteq LostSoFar \cup {<<cur, next[cur]>>}
    <3> SUFFICES ASSUME NEW p \in LostSoFar', p # <<cur, next[cur]>>
                 PROVE  p \in LostSoFar
      OBVIOUS
    <3>1. PICK t \in ConsumeTopics, o \in Nat : p = <<t, o>>
      BY DEF LostSoFar
    <3>2. o < HandledTo(t)'
      BY <3>1 DEF LostSoFar
    <3>3. o < HandledTo(t)
      BY <1>1, <2>2, <3>1, <3>2
    <3> QED
      BY <2>1, <3>1, <3>3, LostBefore
  <2>4. stage' = "dlq" \/ stage = "enqueue" => LostSoFar' \subseteq LostSoFar
    <3>1. stage = "enqueue" => HandledTo(cur) = next[cur] + 1
      BY DEF HandledTo
    <3>2. ASSUME stage' = "dlq" \/ stage = "enqueue", NEW t \in ConsumeTopics
          PROVE  HandledTo(t)' \in Nat /\ HandledTo(t)' <= HandledTo(t)
      BY <1>1, <2>1, <2>2, <3>1, <3>2
    <3> QED
      BY <2>1, <3>2, LostKeeps
  <2>5. \A o \in Nat : o = next[cur] /\ ~Vain(cur, o)' => LostSoFar' \subseteq LostSoFar
    <3> SUFFICES ASSUME NEW o \in Nat, o = next[cur], ~Vain(cur, o)'
                 PROVE  <<cur, next[cur]>> \notin LostSoFar'
      BY <2>3
    <3> QED
      BY <2>1 DEF LostSoFar
  <2>6. PICK o \in Nat : o = next[cur]
    BY <2>1
  <2>7. HandlerCost(cur, o)
    BY <1>6, <2>1, <2>6, HandlerCosts
  <2> QED
    BY <1>1, <2>1, <2>3, <2>4, <2>5, <2>6, <2>7 DEF HandlerCost, LostEffect
<1> QED
  BY <1>3, <1>4, <1>5, <1>6, StepKinds

LEMMA NoMore ==
  ASSUME NEW S, IsFiniteSet(S), NEW T, T \subseteq S
  PROVE  /\ IsFiniteSet(T) /\ Cardinality(T) \in Nat /\ Cardinality(S) \in Nat
         /\ Cardinality(T) <= Cardinality(S)
BY FS_Subset, FS_CardinalityType

LEMMA OneMore ==
  ASSUME NEW S, IsFiniteSet(S), NEW x, NEW T, T \subseteq S \cup {x}
  PROVE  /\ IsFiniteSet(T) /\ Cardinality(T) \in Nat /\ Cardinality(S) \in Nat
         /\ Cardinality(T) <= Cardinality(S) + 1
<1> DEFINE more == S \cup {x}
<1>1. /\ IsFiniteSet(more)
      /\ Cardinality(more) = IF x \in S THEN Cardinality(S) ELSE Cardinality(S) + 1
  BY FS_AddElement
<1>2. Cardinality(S) \in Nat
  BY FS_CardinalityType
<1>3. T \subseteq more
  OBVIOUS
<1> HIDE DEF more
<1>4. /\ IsFiniteSet(T) /\ Cardinality(T) \in Nat
      /\ Cardinality(T) <= Cardinality(more)
  BY <1>1, <1>3, NoMore
<1> QED
  BY <1>1, <1>2, <1>4

LEMMA OneFault ==
  ASSUME NEW r \in Nat, NEW s \in Nat, NEW c \in Nat, NEW d \in Nat,
         c <= r + s, d <= c + 1
  PROVE  d <= (r + 1) + s /\ d <= r + (s + 1)
OBVIOUS

LEMMA LostInit == Init => LostInv /\ TwoFaultsInv
<1> SUFFICES ASSUME Init PROVE LostInv /\ TwoFaultsInv
  OBVIOUS
<1>1. \A t \in ConsumeTopics : HandledTo(t) = 0
  BY DEF Init, HandledTo, Zero
<1>2. LostSoFar = {} /\ LostSubmissions = {}
  BY <1>1 DEF LostSoFar, LostSubmissions
<1>3. 2 * 0 = 0
  OBVIOUS
<1> QED
  BY <1>2, <1>3, FS_EmptySet DEF Init, LostInv, TwoFaultsInv, Falling

\* Each failed send costs at most one task: lost records never outnumber the
\* faults, for any number of tasks, faults, restarts and failed commits.
THEOREM LossWithinBudget == Spec => []LossBudget
<1>1. IInv /\ LostInv /\ [Next]_vars => LostInv'
  <2> SUFFICES ASSUME IInv, LostInv, [Next]_vars PROVE LostInv'
    OBVIOUS
  <2>1. raised \in Nat /\ swallowed \in Nat /\ raised' \in Nat /\ swallowed' \in Nat
    BY InvNext DEF IInv, TypeOK
  <2>2. CASE /\ LostSoFar' \subseteq LostSoFar
             /\ raised' >= raised /\ swallowed' >= swallowed
    <3>1. /\ IsFiniteSet(LostSoFar') /\ Cardinality(LostSoFar') \in Nat
          /\ Cardinality(LostSoFar) \in Nat
          /\ Cardinality(LostSoFar') <= Cardinality(LostSoFar)
      BY <2>2, NoMore DEF LostInv
    <3> QED
      BY <2>1, <2>2, <3>1 DEF LostInv
  <2>3. CASE /\ LostSoFar' \subseteq LostSoFar \cup {<<cur, next[cur]>>}
             /\ \/ swallowed' = swallowed + 1 /\ raised' = raised
                \/ raised' = raised + 1 /\ swallowed' = swallowed
    <3>1. /\ IsFiniteSet(LostSoFar') /\ Cardinality(LostSoFar') \in Nat
          /\ Cardinality(LostSoFar) \in Nat
          /\ Cardinality(LostSoFar') <= Cardinality(LostSoFar) + 1
      BY <2>3, OneMore DEF LostInv
    <3>2. /\ Cardinality(LostSoFar') <= (raised + 1) + swallowed
          /\ Cardinality(LostSoFar') <= raised + (swallowed + 1)
      BY <2>1, <3>1, OneFault DEF LostInv
    <3>3. Cardinality(LostSoFar') <= raised' + swallowed'
      BY <2>3, <3>2
    <3> QED
      BY <3>1, <3>3 DEF LostInv
  <2> QED
    BY <2>2, <2>3, LostNext DEF LostEffect
<1>2. IInv /\ LostInv => LossBudget
  <2> SUFFICES ASSUME IInv, LostInv PROVE LossBudget
    OBVIOUS
  <2> DEFINE all == UNION {{<<t, o>> : o \in Lost(t)} : t \in ConsumeTopics}
  <2>1. all \subseteq LostSoFar
    <3> SUFFICES ASSUME NEW t \in ConsumeTopics, NEW o \in Lost(t)
                 PROVE  <<t, o>> \in LostSoFar
      OBVIOUS
    <3> QED
      BY HandledBounds DEF Lost, LostSoFar, Vain
  <2>2. raised \in Nat /\ swallowed \in Nat
    BY DEF IInv, TypeOK
  <2>3. /\ Cardinality(all) \in Nat /\ Cardinality(LostSoFar) \in Nat
        /\ Cardinality(all) <= Cardinality(LostSoFar)
    <3> HIDE DEF all
    <3> QED
      BY <2>1, NoMore DEF LostInv
  <2>4. Cardinality(all) <= raised + swallowed
    BY <2>2, <2>3 DEF LostInv
  <2> QED
    BY <2>4 DEF LossBudget
<1> QED
  BY <1>1, <1>2, LostInit, InvHolds, PTL DEF Spec

\* A routable submission falls only through its except clause, with one raised
\* send behind it and a second one to end there.
LEMMA SubmissionsNext ==
  ASSUME IInv, TwoFaultsInv, [Next]_vars
  PROVE  TwoFaultsInv'
<1> USE TopicFacts
<1>1. raised \in Nat /\ swallowed \in Nat /\ raised' \in Nat /\ swallowed' \in Nat
  BY InvNext DEF IInv, TypeOK
<1>2. IsFiniteSet(LostSubmissions)
  BY DEF TwoFaultsInv
<1>3. ASSUME NEW o \in LostSubmissions', o + 1 \in 1 .. Len(log["TASK_SUBMIT"])
      PROVE  Routable(File[log["TASK_SUBMIT"][o + 1].task])
  <2>1. Extends \/ UNCHANGED log
    BY StepKinds DEF Aside, LoseMemory, HandlerStep, CommitReturns, CommitFails
  <2>2. log'["TASK_SUBMIT"][o + 1] = log["TASK_SUBMIT"][o + 1]
    BY <1>3, <2>1 DEF Extends
  <2> QED
    BY <1>3, <2>2 DEF LostSubmissions
<1>4. ASSUME NEW o \in LostSubmissions', <<"TASK_SUBMIT", o>> \in LostSoFar
      PROVE  o \in LostSubmissions
  <2>1. o \in Nat /\ o < HandledTo("TASK_SUBMIT")
    BY <1>4 DEF LostSoFar, LostSubmissions
  <2>2. o + 1 \in 1 .. Len(log["TASK_SUBMIT"])
    BY <2>1, HandledBounds
  <2> QED
    BY <1>3, <1>4, <2>1, <2>2 DEF LostSubmissions
<1>5. ASSUME NEW o \in LostSubmissions', <<"TASK_SUBMIT", o>> = <<cur, next[cur]>>
      PROVE  cur = "TASK_SUBMIT" /\ Routable(File[Current.task])
  <2>1. cur = "TASK_SUBMIT" /\ o = next[cur]
    BY <1>5
  <2>2. o + 1 \in 1 .. Len(log["TASK_SUBMIT"])
    BY <2>1, CurrentInLog
  <2> QED
    BY <1>3, <2>1, <2>2 DEF Current
<1>6. CASE /\ LostSoFar' \subseteq LostSoFar
           /\ Falling' => Falling \/ raised' = raised + 1
           /\ raised' >= raised /\ swallowed' >= swallowed
  <2>1. LostSubmissions' \subseteq LostSubmissions
    BY <1>4, <1>6 DEF LostSubmissions
  <2>2. /\ IsFiniteSet(LostSubmissions') /\ Cardinality(LostSubmissions') \in Nat
        /\ Cardinality(LostSubmissions) \in Nat
        /\ Cardinality(LostSubmissions') <= Cardinality(LostSubmissions)
    BY <1>2, <2>1, NoMore
  <2> QED
    BY <1>1, <1>6, <2>2 DEF TwoFaultsInv
<1>7. CASE /\ LostSoFar' \subseteq LostSoFar \cup {<<cur, next[cur]>>}
           /\ stage' # "dlq"
           /\ swallowed' = swallowed + 1 /\ raised' = raised
  <2>1. LostSubmissions' \subseteq LostSubmissions \cup {next[cur]}
    BY <1>4, <1>7 DEF LostSubmissions
  <2>2. IsFiniteSet(LostSubmissions')
    BY <1>2, <2>1, OneMore
  <2>3. swallowed \in Nat /\ swallowed' = swallowed + 1
    BY <1>1, <1>7
  <2>4. swallowed' # 0
    BY <2>3
  <2> QED
    BY <2>2, <2>4 DEF TwoFaultsInv
<1>8. CASE /\ LostSoFar' \subseteq LostSoFar \cup {<<cur, next[cur]>>}
           /\ stage' # "dlq"
           /\ raised' = raised + 1 /\ swallowed' = swallowed
           /\ cur = "TASK_SUBMIT" => stage = "dlq"
  <2>1. ~Falling'
    BY <1>8 DEF Falling
  <2>2. CASE Falling
    <3>1. LostSubmissions' \subseteq LostSubmissions \cup {next[cur]}
      BY <1>4, <1>8 DEF LostSubmissions
    <3>2. /\ IsFiniteSet(LostSubmissions') /\ Cardinality(LostSubmissions') \in Nat
          /\ Cardinality(LostSubmissions) \in Nat
          /\ Cardinality(LostSubmissions') <= Cardinality(LostSubmissions) + 1
      BY <1>2, <3>1, OneMore
    <3> QED
      BY <1>1, <1>8, <2>1, <2>2, <3>2 DEF TwoFaultsInv
  <2>3. CASE ~Falling
    <3>1. LostSubmissions' \subseteq LostSubmissions
      <4> SUFFICES ASSUME NEW o \in LostSubmissions', o \notin LostSubmissions
                   PROVE  FALSE
        OBVIOUS
      <4>1. <<"TASK_SUBMIT", o>> = <<cur, next[cur]>>
        BY <1>4, <1>8 DEF LostSubmissions
      <4> QED
        BY <1>5, <1>8, <2>3, <4>1 DEF Falling
    <3>2. /\ IsFiniteSet(LostSubmissions') /\ Cardinality(LostSubmissions') \in Nat
          /\ Cardinality(LostSubmissions) \in Nat
          /\ Cardinality(LostSubmissions') <= Cardinality(LostSubmissions)
      BY <1>2, <3>1, NoMore
    <3> QED
      BY <1>1, <1>8, <2>1, <2>3, <3>2 DEF TwoFaultsInv
  <2> QED
    BY <2>2, <2>3
<1> QED
  BY <1>6, <1>7, <1>8, LostNext DEF LostEffect

\* A routable submission is lost only when both its forward and its dead letter
\* raised, unless the producer loses a record silently.
THEOREM LostSubmissionsRaiseTwice == Spec => []SubmitLossNeedsTwoFaults
<1>1. IInv /\ TwoFaultsInv /\ [Next]_vars => TwoFaultsInv'
  BY SubmissionsNext
<1>2. IInv /\ TwoFaultsInv => SubmitLossNeedsTwoFaults
  <2> SUFFICES ASSUME IInv, TwoFaultsInv, swallowed = 0
               PROVE  LET routable == {o \in Lost("TASK_SUBMIT") :
                            Routable(File[log["TASK_SUBMIT"][o + 1].task])}
                      IN  2 * Cardinality(routable) <= raised
    BY DEF SubmitLossNeedsTwoFaults
  <2> DEFINE routable == {o \in Lost("TASK_SUBMIT") :
                            Routable(File[log["TASK_SUBMIT"][o + 1].task])}
  <2>1. routable \subseteq LostSubmissions
    BY HandledBounds, TopicFacts DEF Lost, LostSoFar, LostSubmissions, Vain
  <2> HIDE DEF routable
  <2>2. /\ Cardinality(routable) \in Nat /\ Cardinality(LostSubmissions) \in Nat
        /\ Cardinality(routable) <= Cardinality(LostSubmissions)
    BY <2>1, NoMore DEF TwoFaultsInv
  <2>3. raised \in Nat
    BY DEF IInv, TypeOK
  <2>4. 2 * Cardinality(routable) <= raised
    BY <2>2, <2>3 DEF TwoFaultsInv
  <2> QED
    BY <2>4 DEF routable
<1> QED
  BY <1>1, <1>2, LostInit, InvHolds, PTL DEF Spec

-----------------------------------------------------------------------------
(* The Kafka side of the service implements at-least-once delivery: every  *)
(* step of TaskFlow is a step of AtLeastOnce, or a stutter, under the      *)
(* mapping of TaskFlowProps (Produced, Cursor, committed).                 *)

\* Partitions only grow.
LEMMA ExtendsGrows ==
  ASSUME IInv, Extends
  PROVE  Abstract!Grow
<1>1. ASSUME NEW t \in ConsumeTopics
      PROVE  /\ Len(log[t]) \in Nat /\ Len(log'[t]) \in Nat
             /\ Len(log[t]) <= Len(log'[t])
  <2>1. t \in Topics
    BY <1>1, TopicFacts
  <2>2. log[t] \in Seq(Record) /\ log'[t] \in Seq(Record)
    BY <2>1 DEF IInv, TypeOK, Extends
  <2> QED
    BY <2>1, <2>2 DEF Extends
<1>2. \A t \in ConsumeTopics : /\ Produced[t] = Len(log[t])
                               /\ Produced'[t] = Len(log'[t])
  BY DEF Produced
<1>3. Produced' \in [ConsumeTopics -> Nat]
  BY <1>1 DEF Produced
<1> QED
  BY <1>1, <1>2, <1>3 DEF Abstract!Grow

LEMMA SameCursor ==
  ASSUME \A t \in ConsumeTopics : Cursor'[t] = Cursor[t]
  PROVE  Cursor' = Cursor
BY DEF Cursor

\* Where every log is the same, so is what the abstract partitions hold.
LEMMA SameProduced ==
  ASSUME UNCHANGED log
  PROVE  UNCHANGED Produced
BY DEF Produced

LEMMA StepImplements ==
  ASSUME IInv, [Next]_vars
  PROVE  [Abstract!Next]_Abstract!vars
<1>1. CASE Aside
  <2>1. Abstract!Grow
    BY <1>1, ExtendsGrows DEF Aside
  <2>2. UNCHANGED committed /\ UNCHANGED Cursor
    BY <1>1, CursorAfter, SameCursor DEF Aside
  <2> QED
    BY <2>1, <2>2 DEF Abstract!Next, Abstract!Produce
<1>2. CASE LoseMemory
  <2>1. UNCHANGED <<log, committed>>
    BY <1>2 DEF LoseMemory, broker
  <2>2. Cursor' = committed
    <3>1. \A t \in ConsumeTopics : Cursor'[t] = committed[t]
      BY <1>2, CursorAfter
    <3>2. committed \in [ConsumeTopics -> Nat]
      BY DEF IInv, TypeOK
    <3> QED
      BY <3>1, <3>2 DEF Cursor
  <2> QED
    BY <2>1, <2>2, SameProduced DEF Abstract!Next, Abstract!Rewind
<1>3. CASE Handler /\ HandlerStep
  <2>1. Abstract!Grow /\ UNCHANGED committed
    BY <1>3, ExtendsGrows DEF HandlerStep, broker
  <2>2. cur \in ConsumeTopics /\ cur # NoTopic
    BY <1>3, CurrentInLog DEF HandlerStep
  <2>3. stage # "commit"
    BY <1>3 DEF Handler, Reject, HandleSubmit, DeadLetterSubmit,
       HandlePreprocess, HandleElement, HandleGeneralCleaning, RetryAgain,
       RetryExhausted, EnqueueDlq, Handling
  <2>4. \A t \in ConsumeTopics : Cursor[t] = next[t]
    BY <2>3 DEF Cursor
  <2>5. \A t \in ConsumeTopics :
          Cursor'[t] = IF t = cur /\ stage' = "commit" THEN Cursor[t] + 1
                                                       ELSE Cursor[t]
    BY <1>3, <2>4, CursorAfter
  <2>6. CASE stage' = "commit"
    <3>1. Cursor' = [Cursor EXCEPT ![cur] = @ + 1]
      BY <2>2, <2>5, <2>6 DEF Cursor
    <3>2. Cursor[cur] < Produced[cur]
      <4>1. next[cur] \in Nat /\ next[cur] + 1 \in 1 .. Len(log[cur])
        BY <2>2, CurrentInLog
      <4>2. Len(log[cur]) \in Nat
        BY <2>2, CursorBounds
      <4> QED
        BY <2>2, <2>4, <4>1, <4>2 DEF Produced
    <3> QED
      BY <2>1, <2>2, <3>1, <3>2 DEF Abstract!Next, Abstract!Handle
  <2>7. CASE stage' # "commit"
    <3>1. UNCHANGED Cursor
      BY <2>5, <2>7, SameCursor
    <3> QED
      BY <2>1, <3>1 DEF Abstract!Next, Abstract!Produce
  <2> QED
    BY <2>6, <2>7
<1>4. CASE CommitReturns \/ CommitFails
  <2>1. /\ cur \in ConsumeTopics /\ UNCHANGED log
        /\ \/ UNCHANGED committed
           \/ committed' = [committed EXCEPT ![cur] = next[cur] + 1]
    BY <1>4, CommitInv
  <2>2. UNCHANGED Cursor /\ UNCHANGED Produced
    BY <1>4, <2>1, CursorAfter, SameCursor, SameProduced
  <2>3. CASE UNCHANGED committed
    BY <2>2, <2>3 DEF Abstract!vars
  <2>4. CASE committed' = [committed EXCEPT ![cur] = next[cur] + 1]
    <3>1. stage = "commit"
      BY <1>4 DEF CommitReturns, CommitFails
    <3>2. Cursor[cur] = next[cur] + 1
      BY <2>1, <3>1 DEF Cursor
    <3>3. /\ committed[cur] \in Nat /\ next[cur] \in Nat
          /\ committed[cur] <= next[cur]
      BY <2>1, CursorBounds
    <3>4. next[cur] + 1 \in committed[cur] + 1 .. Cursor[cur]
      BY <3>2, <3>3
    <3> QED
      <4>1. committed[cur] < Cursor[cur]
        BY <3>2, <3>3
      <4>2. Abstract!Commit(cur)
        BY <2>2, <2>4, <3>4, <4>1 DEF Abstract!Commit
      <4> QED
        BY <2>1, <4>2 DEF Abstract!Next
  <2> QED
    BY <2>1, <2>3, <2>4
<1> QED
  BY <1>1, <1>2, <1>3, <1>4, StepKinds

\* The consumer, its handlers, the crashes and the shutdowns refine
\* at-least-once delivery.
THEOREM Refinement == Spec => ImplementsAtLeastOnce
<1>1. Init => Abstract!Init
  BY TopicFacts DEF Init, Abstract!Init, Produced, Cursor, Zero
<1> QED
  BY <1>1, StepImplements, InvHolds, PTL
     DEF Spec, ImplementsAtLeastOnce, Abstract!Spec

-----------------------------------------------------------------------------
(* What a handler step does, told by the topic w it writes to, or NoTopic. *)

HandlerEffect(w) ==
  /\ w = NoTopic => UNCHANGED log
  /\ w # NoTopic => \E b \in {"valid", "event"} : Written(w, b)
  \* how it goes on
  /\ stage # "handle" => stage' = "commit"
  /\ w # NoTopic => stage = "handle" \/ (stage = "dlq" /\ w = "DLQ")
  /\ stage' = "dlq" /\ w # NoTopic => w # "DLQ" /\ raised' > 0
  /\ raised' >= raised /\ swallowed' >= swallowed
  \* what it does to the retries of a task
  /\ \/ UNCHANGED attempts /\ (cur = "RETRY" => w # "RETRY")
     \/ /\ cur = "RETRY" /\ w # "DLQ" /\ stage' = "commit"
        /\ attempts[Current.task] < MaxRetries
        /\ attempts' = [attempts EXCEPT ![Current.task] = @ + 1]
  /\ w = "DLQ" /\ cur = "RETRY" => attempts[Current.task] >= MaxRetries
  /\ stage' = "enqueue" /\ swallowed' = swallowed => w = "DLQ"
  \* and to the local dead letters
  /\ \/ UNCHANGED dlq
     \/ /\ stage = "enqueue"
        /\ dlqTasks' = dlqTasks \cup {Current.task}
        /\ \/ UNCHANGED dlqLines
           \/ dlqLines' = [dlqLines EXCEPT ![Current.task] = @ + 1]

\* A send writes to the topic, or to none.
LEMMA SendEffect ==
  ASSUME IInv, NEW u \in Topics, NEW b \in {"valid", "event"},
         SendReturns(u, b) \/ SendRaises(u, b)
  PROVE  /\ Written(u, b) \/ UNCHANGED log
         /\ raised' >= raised /\ swallowed' >= swallowed
         /\ SendRaises(u, b) => raised' > 0
         /\ SendReturns(u, b) /\ swallowed' = swallowed => Written(u, b)
BY DEF SendReturns, SendRaises, faults, IInv, TypeOK

LEMMA RouteIsForward ==
  ASSUME NEW file, Routable(file)
  PROVE  RouteTarget(file) # "DLQ"
<1>1. FormatOf(file) \in SupportedTypes
  BY DEF Routable
<1>2. FORMAT_TO_TOPIC[FormatOf(file)] # "DLQ"
  BY <1>1 DEF FORMAT_TO_TOPIC, SupportedTypes, NoTopic
<1> QED
  BY <1>2 DEF RouteTarget

LEMMA HandlerHasEffect ==
  ASSUME IInv, Handler
  PROVE  \E w \in Topics \cup {NoTopic} : HandlerEffect(w)
<1> USE TopicFacts
<1>1. /\ raised \in Nat /\ swallowed \in Nat
      /\ stage = "dlq" => cur = "TASK_SUBMIT"
  BY DEF IInv, TypeOK, InHand
<1>2. UNCHANGED faults => raised' >= raised /\ swallowed' >= swallowed
  BY <1>1 DEF faults
<1>3. ASSUME NEW u \in Topics, NEW b \in {"valid", "event"},
             SendReturns(u, b) \/ SendRaises(u, b)
      PROVE  /\ raised' >= raised /\ swallowed' >= swallowed
             /\ SendRaises(u, b) => raised' > 0
             /\ SendReturns(u, b) /\ swallowed' = swallowed => Written(u, b)
             /\ Written(u, b) \/ UNCHANGED log
  BY <1>3, SendEffect
<1>4. CASE Reject
  <2>1. HandlerEffect(NoTopic)
    BY <1>2, <1>4 DEF Reject, HandlerEffect, reading
  <2> QED
    BY <2>1
<1>5. CASE HandleSubmit
  <2> DEFINE k == Current.task
  <2>1. stage = "handle" /\ cur = "TASK_SUBMIT" /\ UNCHANGED <<attempts, dlq>>
    BY <1>5 DEF HandleSubmit, Handling
  <2>2. CASE ~Routable(File[k])
    <3>1. HandlerEffect(NoTopic)
      BY <1>2, <1>5, <2>1, <2>2 DEF HandleSubmit, HandlerEffect, AfterRoutingError
    <3> QED
      BY <3>1
  <2>3. CASE Routable(File[k])
    <3>1. SubmitTarget(k) \in Topics /\ SubmitTarget(k) # "DLQ"
      BY <2>3, RouteInTopics, RouteIsForward DEF SubmitTarget
    <3>2. \/ SendReturns(SubmitTarget(k), "valid") /\ stage' = "commit"
          \/ SendRaises(SubmitTarget(k), "valid") /\ stage' = "dlq"
      BY <1>5, <2>3 DEF HandleSubmit, AfterForward, AfterRoutingError
    <3>3. CASE Written(SubmitTarget(k), "valid")
      <4>1. HandlerEffect(SubmitTarget(k))
        BY <1>3, <2>1, <3>1, <3>2, <3>3 DEF HandlerEffect
      <4> QED
        BY <3>1, <4>1
    <3>4. CASE UNCHANGED log
      <4>1. HandlerEffect(NoTopic)
        BY <1>3, <2>1, <3>1, <3>2, <3>4 DEF HandlerEffect
      <4> QED
        BY <4>1
    <3> QED
      BY <1>3, <3>1, <3>2, <3>3, <3>4
  <2> QED
    BY <2>2, <2>3
<1>6. CASE DeadLetterSubmit \/ HandlePreprocess \/ HandleElement
             \/ HandleGeneralCleaning
  <2>1. /\ stage \in {"handle", "dlq"} /\ cur # "RETRY"
        /\ UNCHANGED <<attempts, dlq>>
    BY <1>1, <1>6 DEF DeadLetterSubmit, HandlePreprocess, HandleElement,
       HandleGeneralCleaning, Handling, PreprocessTopics, ElementTopics
  <2>2. PICK u \in Topics, b \in {"valid", "event"} :
          /\ SendThenCommit(u, b)
          /\ stage = "dlq" => u = "DLQ"
    BY <1>6 DEF DeadLetterSubmit, HandlePreprocess, HandleElement,
                HandleGeneralCleaning, Handling
  <2>3. stage' = "commit" /\ (SendReturns(u, b) \/ SendRaises(u, b))
    BY <2>2 DEF SendThenCommit
  <2>4. CASE Written(u, b)
    <3>1. HandlerEffect(u)
      BY <1>3, <2>1, <2>2, <2>3, <2>4 DEF HandlerEffect
    <3> QED
      BY <3>1
  <2>5. CASE UNCHANGED log
    <3>1. HandlerEffect(NoTopic)
      BY <1>3, <2>1, <2>2, <2>3, <2>5 DEF HandlerEffect
    <3> QED
      BY <3>1
  <2> QED
    BY <1>3, <2>3, <2>4, <2>5
<1>7. CASE RetryAgain
  <2>1. /\ stage = "handle" /\ cur = "RETRY" /\ UNCHANGED dlq
        /\ attempts[Current.task] < MaxRetries
        /\ attempts' = [attempts EXCEPT ![Current.task] = @ + 1]
        /\ stage' = "commit"
        /\ SendReturns("RETRY", "valid") \/ SendRaises("RETRY", "valid")
    BY <1>7 DEF RetryAgain, Handling, ShouldRetry, SendThenCommit
  <2>2. CASE Written("RETRY", "valid")
    <3>1. HandlerEffect("RETRY")
      BY <1>3, <2>1, <2>2 DEF HandlerEffect
    <3> QED
      BY <3>1
  <2>3. CASE UNCHANGED log
    <3>1. HandlerEffect(NoTopic)
      BY <1>3, <2>1, <2>3 DEF HandlerEffect, NoTopic
    <3> QED
      BY <3>1
  <2> QED
    BY <1>3, <2>1, <2>2, <2>3
<1>8. CASE RetryExhausted
  <2>1. /\ stage = "handle" /\ cur = "RETRY" /\ UNCHANGED <<attempts, dlq>>
        /\ ~(attempts[Current.task] < MaxRetries)
        /\ \/ SendReturns("DLQ", "event") /\ stage' = "enqueue"
           \/ SendRaises("DLQ", "event") /\ stage' = "commit"
    BY <1>8 DEF RetryExhausted, Handling, ShouldRetry, AfterRaisedDlqSend
  <2>2. attempts[Current.task] \in Nat /\ MaxRetries \in Nat
    BY <2>1, CurrentInLog, FlowAssumption DEF IInv, TypeOK, Record
  <2>3. CASE Written("DLQ", "event")
    <3>1. HandlerEffect("DLQ")
      BY <1>3, <2>1, <2>2, <2>3 DEF HandlerEffect
    <3> QED
      BY <3>1
  <2>4. CASE UNCHANGED log /\ ~Written("DLQ", "event")
    <3>1. HandlerEffect(NoTopic)
      BY <1>3, <2>1, <2>4 DEF HandlerEffect, NoTopic
    <3> QED
      BY <3>1
  <2> QED
    BY <1>3, <2>1, <2>3, <2>4
<1>9. CASE EnqueueDlq
  <2>1. HandlerEffect(NoTopic)
    <3>1. UNCHANGED <<log, attempts>> /\ cur # NoTopic
      BY <1>9 DEF EnqueueDlq, IInv, InHand
    <3> QED
      BY <1>2, <1>9, <3>1 DEF EnqueueDlq, HandlerEffect, NoTopic
  <2> QED
    BY <2>1
<1> QED
  BY <1>4, <1>5, <1>6, <1>7, <1>8, <1>9 DEF Handler

-----------------------------------------------------------------------------
(* The records of this run.                                                *)

\* While the process is down nothing is in hand and no retry is counted; what
\* a run left behind is not longer than the log.
Between ==
  /\ proc = "down" => BatchDone /\ \A k \in Tasks : attempts[k] = 0
  /\ \A u \in Topics : mark[u] <= Len(log[u])

\* A record sent for the one in hand.  Only a submission whose forward raised,
\* though it was written, goes to the dead letter queue after it.
SentInHand(u, src) ==
  /\ src = [topic |-> cur, offset |-> next[cur]]
  /\ stage \in {"dlq", "enqueue", "commit"}
  /\ stage = "dlq" => u # "DLQ" /\ raised > 0

SentBefore ==
  \A u \in Topics : \A i \in ThisRun(u) :
    \/ log[u][i].src.offset < next[log[u][i].src.topic]
    \/ SentInHand(u, log[u][i].src)

RunInv == Between /\ SentBefore

LEMMA RecordTypes ==
  ASSUME IInv, NEW u \in Topics
  PROVE  /\ Len(log[u]) \in Nat /\ mark[u] \in Nat
         /\ \A i \in 1 .. Len(log[u]) :
              /\ log[u][i] \in Record
              /\ log[u][i].src.topic \in ConsumeTopics \cup {NoTopic}
              /\ log[u][i].src.offset \in Nat
<1>1. log[u] \in Seq(Record) /\ mark[u] \in Nat
  BY DEF IInv, TypeOK
<1>2. ASSUME NEW i \in 1 .. Len(log[u])
      PROVE  log[u][i] \in Record
  BY <1>1
<1>3. \A m \in Record : /\ m.src.topic \in ConsumeTopics \cup {NoTopic}
                        /\ m.src.offset \in Nat
  BY DEF Record, Source
<1> QED
  BY <1>1, <1>2, <1>3

\* The records of this run have a place in the log and a source topic.
LEMMA ThisRunTypes ==
  ASSUME IInv, NEW u \in Topics, NEW i \in ThisRun(u)
  PROVE  /\ i \in 1 .. Len(log[u]) /\ i > mark[u]
         /\ log[u][i].src.topic \in ConsumeTopics
         /\ log[u][i].src.offset \in Nat
<1>1. Len(log[u]) \in Nat /\ mark[u] \in Nat
  BY RecordTypes
<1>2. i \in mark[u] + 1 .. Len(log[u]) /\ log[u][i].src.topic # NoTopic
  BY DEF ThisRun
<1>3. i \in 1 .. Len(log[u])
  BY <1>1, <1>2
<1> QED
  BY <1>1, <1>2, <1>3, RecordTypes

LEMMA ThisRunAside ==
  ASSUME IInv, Aside, NEW u \in Topics, NEW i \in ThisRun(u)'
  PROVE  i \in ThisRun(u) /\ log'[u][i] = log[u][i]
<1>1. i \in mark[u] + 1 .. Len(log'[u]) /\ log'[u][i].src.topic # NoTopic
  BY DEF Aside, ThisRun
<1>2. Len(log[u]) \in Nat /\ mark[u] \in Nat /\ Len(log'[u]) \in Nat
  BY RecordTypes DEF Aside, Extends
<1>3. i <= Len(log[u])
  <2> SUFFICES ASSUME i > Len(log[u]) PROVE FALSE
    BY <1>1, <1>2
  <2>1. log'[u][i].src = External
    BY <1>1, <1>2 DEF Aside
  <2> QED
    BY <1>1, <2>1 DEF External
<1>4. log'[u][i] = log[u][i]
  BY <1>1, <1>2, <1>3 DEF Aside, Extends
<1> QED
  BY <1>1, <1>2, <1>3, <1>4 DEF ThisRun

LEMMA ThisRunSame ==
  ASSUME UNCHANGED <<log, mark>>, NEW u \in Topics
  PROVE  ThisRun(u)' = ThisRun(u)
BY DEF ThisRun

LEMMA ThisRunLost ==
  ASSUME IInv, LoseMemory, NEW u \in Topics
  PROVE  ThisRun(u)' = {}
<1>1. Len(log[u]) \in Nat /\ mark'[u] = Len(log[u]) /\ log' = log
  BY RecordTypes DEF LoseMemory
<1> QED
  BY <1>1 DEF ThisRun

\* A handler step adds at most one record to those of this run.
LEMMA ThisRunHandler ==
  ASSUME IInv, HandlerStep, NEW w \in Topics \cup {NoTopic}, HandlerEffect(w),
         NEW u \in Topics, NEW i \in ThisRun(u)'
  PROVE  \/ i \in ThisRun(u) /\ log'[u][i] = log[u][i]
         \/ /\ u = w /\ i = Len(log[u]) + 1
            /\ log'[u][i].src = [topic |-> cur, offset |-> next[cur]]
            /\ log'[u][i].task = Current.task
<1>1. mark' = mark /\ cur # NoTopic
  BY DEF HandlerStep, reading
<1>2. /\ i \in mark[u] + 1 .. Len(log'[u]) /\ log'[u][i].src.topic # NoTopic
      /\ Len(log[u]) \in Nat /\ mark[u] \in Nat /\ Len(log'[u]) \in Nat
  BY <1>1, RecordTypes DEF ThisRun, HandlerStep, Extends
<1>3. CASE i <= Len(log[u])
  <2>1. log'[u][i] = log[u][i]
    BY <1>2, <1>3 DEF HandlerStep, Extends
  <2> QED
    BY <1>2, <1>3, <2>1 DEF ThisRun
<1>4. CASE i > Len(log[u])
  <2>1. w # NoTopic
    BY <1>2, <1>4 DEF HandlerEffect
  <2>2. PICK b \in {"valid", "event"} : Written(w, b)
    BY <2>1 DEF HandlerEffect
  <2> DEFINE m == [task |-> Current.task, body |-> b,
                   src |-> [topic |-> cur, offset |-> next[cur]]]
  <2>3. log' = [log EXCEPT ![w] = Append(@, m)]
    BY <2>2 DEF Written
  <2>4. TypeOK /\ Current \in Record /\ cur \in ConsumeTopics /\ next[cur] \in Nat
    BY <1>1, CurrentInLog DEF IInv
  <2>5. m \in Record
    BY <2>4 DEF Record, Source
  <2>6. /\ m.src = [topic |-> cur, offset |-> next[cur]]
        /\ m.task = Current.task
    OBVIOUS
  <2> HIDE DEF m
  <2>7. u = w
    BY <1>2, <1>4, <2>3, <2>4 DEF TypeOK
  <2>8. Len(log'[u]) = Len(log[u]) + 1 /\ log'[u][Len(log[u]) + 1] = m
    BY <2>3, <2>4, <2>5, <2>7, AppendExtends
  <2>9. i = Len(log[u]) + 1
    BY <1>2, <1>4, <2>8
  <2> QED
    BY <2>6, <2>7, <2>8, <2>9
<1> QED
  BY <1>2, <1>3, <1>4

-----------------------------------------------------------------------------
(* The invariant of a run.                                                 *)

LEMMA RunInit == Init => RunInv /\ OrderedPerRun /\ ForwardedOrDead
<1> SUFFICES ASSUME Init PROVE RunInv /\ OrderedPerRun /\ ForwardedOrDead
  OBVIOUS
<1>1. \A u \in Topics : ThisRun(u) = {}
  BY DEF Init, ThisRun, Zero
<1>2. Between
  BY DEF Init, Between, BatchDone, Zero
<1> QED
  BY <1>1, <1>2, TopicFacts
     DEF RunInv, SentBefore, OrderedPerRun, ForwardedOrDead, Topics, ProduceTopics

LEMMA BetweenAside ==
  ASSUME IInv, RunInv, [Next]_vars
  PROVE  Between'
<1>1. ASSUME NEW u \in Topics PROVE mark'[u] <= Len(log'[u])
  <2>1. Len(log[u]) \in Nat /\ mark[u] \in Nat /\ mark[u] <= Len(log[u])
    BY RecordTypes DEF RunInv, Between
  <2>2. Extends => Len(log'[u]) \in Nat /\ Len(log[u]) <= Len(log'[u])
    BY DEF Extends
  <2>3. CASE LoseMemory
    BY <2>1, <2>3 DEF LoseMemory
  <2>4. CASE ~LoseMemory
    <3>1. UNCHANGED mark /\ (Extends \/ UNCHANGED log)
      BY <2>4, StepKinds DEF Aside, HandlerStep, reading, CommitReturns, CommitFails
    <3> QED
      BY <2>1, <2>2, <3>1
  <2> QED
    BY <2>3, <2>4
<1>2. ASSUME proc' = "down"
      PROVE  BatchDone' /\ \A k \in Tasks : attempts'[k] = 0
  <2>1. CASE LoseMemory
    BY <2>1 DEF LoseMemory, BatchDone, Zero
  <2>2. CASE ~LoseMemory /\ proc # "down"
    BY <1>2, <2>2, StepKinds
       DEF Aside, Starts, HandlerStep, reading, CommitReturns, CommitFails
  <2>3. CASE ~LoseMemory /\ proc = "down"
    <3>1. /\ BatchDone /\ \A k \in Tasks : attempts[k] = 0
          /\ \A t \in ConsumeTopics : ~(next[t] < position[t])
          /\ stage = "idle"
      <4>1. BatchDone /\ \A k \in Tasks : attempts[k] = 0
        BY <2>3 DEF RunInv, Between
      <4>2. next = position /\ next \in [ConsumeTopics -> Nat]
        BY <4>1 DEF BatchDone, IInv, TypeOK
      <4>3. \A t \in ConsumeTopics : ~(next[t] < position[t])
        BY <4>2
      <4> QED
        BY <4>1, <4>3 DEF BatchDone, IInv, InHand
    <3>2. ~Thread
      BY <2>3, <3>1 DEF Thread, Poll, Take, Handler, Reject, HandleSubmit,
         DeadLetterSubmit, HandlePreprocess, HandleElement, HandleGeneralCleaning,
         RetryAgain, RetryExhausted, EnqueueDlq, Handling, CommitReturns, CommitFails
    <3>3. CASE \E t \in EntryTopics, k \in Tasks, b \in Bodies : Publish(t, k, b)
      BY <3>1, <3>3 DEF Publish, reading, BatchDone
    <3>4. CASE ~\E t \in EntryTopics, k \in Tasks, b \in Bodies : Publish(t, k, b)
      BY <1>2, <2>3, <3>1, <3>2, <3>4
         DEF Next, Start, Crash, Stop, StopCompletes, JoinTimeout, Exit, vars,
             reading, BatchDone
    <3> QED
      BY <3>3, <3>4
  <2> QED
    BY <2>1, <2>2, <2>3
<1> QED
  BY <1>1, <1>2 DEF Between

\* Every record of this run was sent for a record handled before, or in hand.
LEMMA SentBeforeNext ==
  ASSUME IInv, RunInv, [Next]_vars
  PROVE  SentBefore'
<1> SUFFICES ASSUME NEW u \in Topics, NEW i \in ThisRun(u)'
             PROVE  \/ log'[u][i].src.offset < next'[log'[u][i].src.topic]
                    \/ SentInHand(u, log[u][i].src)'
  BY DEF SentBefore
<1>1. ASSUME i \in ThisRun(u)
      PROVE  /\ log[u][i].src.topic \in ConsumeTopics
             /\ log[u][i].src.offset \in Nat
             /\ next[log[u][i].src.topic] \in Nat
             /\ \/ log[u][i].src.offset < next[log[u][i].src.topic]
                \/ SentInHand(u, log[u][i].src)
  <2>1. /\ log[u][i].src.topic \in ConsumeTopics
        /\ log[u][i].src.offset \in Nat
    BY <1>1, ThisRunTypes
  <2> QED
    BY <1>1, <2>1 DEF RunInv, SentBefore, IInv, TypeOK
<1>2. CASE Aside
  <2>1. i \in ThisRun(u) /\ log'[u][i] = log[u][i]
    BY <1>2, ThisRunAside
  <2> QED
    BY <1>1, <1>2, <2>1 DEF Aside, SentInHand
<1>3. CASE LoseMemory
  BY <1>3, ThisRunLost
<1>4. CASE Handler /\ HandlerStep
  <2>1. PICK w \in Topics \cup {NoTopic} : HandlerEffect(w)
    BY <1>4, HandlerHasEffect
  <2>2. next' = next /\ cur' = cur /\ stage' \in {"dlq", "enqueue", "commit"}
    BY <1>4 DEF HandlerStep, reading
  <2>3. CASE i \in ThisRun(u) /\ log'[u][i] = log[u][i]
    <3>1. SentInHand(u, log[u][i].src) => SentInHand(u, log[u][i].src)'
      <4> SUFFICES ASSUME SentInHand(u, log[u][i].src)
                   PROVE  SentInHand(u, log[u][i].src)'
        OBVIOUS
      <4>1. stage = "commit" => FALSE
        BY <1>4 DEF Handler, Reject, HandleSubmit, DeadLetterSubmit,
           HandlePreprocess, HandleElement, HandleGeneralCleaning, RetryAgain,
           RetryExhausted, EnqueueDlq, Handling
      <4>2. stage' = "commit"
        BY <2>1, <4>1 DEF HandlerEffect, SentInHand
      <4> QED
        BY <2>2, <2>3, <4>2 DEF SentInHand
    <3> QED
      BY <1>1, <2>2, <2>3, <3>1
  <2>4. CASE ~(i \in ThisRun(u) /\ log'[u][i] = log[u][i])
    <3>1. u = w /\ log'[u][i].src = [topic |-> cur, offset |-> next[cur]]
      BY <1>4, <2>1, <2>4, ThisRunHandler
    <3>2. stage' = "dlq" => u # "DLQ" /\ raised' > 0
      BY <2>1, <3>1, TopicFacts DEF HandlerEffect
    <3> QED
      BY <2>2, <3>1, <3>2 DEF SentInHand
  <2> QED
    BY <2>3, <2>4
<1>5. CASE CommitReturns \/ CommitFails
  <2>1. UNCHANGED <<log, mark>>
    BY <1>5 DEF CommitReturns, CommitFails
  <2>2. i \in ThisRun(u) /\ log'[u][i] = log[u][i]
    BY <2>1, ThisRunSame
  <2>3. cur \in ConsumeTopics /\ next' = [next EXCEPT ![cur] = @ + 1]
    BY <1>5, CommitInv
  <2>4. next \in [ConsumeTopics -> Nat]
    BY DEF IInv, TypeOK
  <2>5. CASE log[u][i].src.offset < next[log[u][i].src.topic]
    BY <1>1, <2>2, <2>3, <2>4, <2>5
  <2>6. CASE SentInHand(u, log[u][i].src)
    BY <2>2, <2>3, <2>4, <2>6 DEF SentInHand
  <2> QED
    BY <1>1, <2>2, <2>5, <2>6
<1> QED
  BY <1>2, <1>3, <1>4, <1>5, StepKinds

LEMMA RunNext == IInv /\ RunInv /\ [Next]_vars => RunInv'
BY BetweenAside, SentBeforeNext DEF RunInv

LEMMA RunHolds == Spec => [](IInv /\ RunInv)
BY InvInit, InvNext, RunInit, RunNext, PTL DEF Spec

-----------------------------------------------------------------------------
(* The order of what a run sends.                                          *)

\* A handler that writes to a topic has not sent there before for the record in
\* hand; and nowhere, unless a send raised.
LEMMA FreshSource ==
  ASSUME IInv, RunInv, NEW w \in Topics, HandlerEffect(w), cur # NoTopic,
         NEW u \in Topics, NEW i \in ThisRun(u), u = w \/ raised = 0
  PROVE  log[u][i].src # [topic |-> cur, offset |-> next[cur]]
<1> SUFFICES ASSUME log[u][i].src = [topic |-> cur, offset |-> next[cur]]
             PROVE  FALSE
  OBVIOUS
<1>1. next[cur] \in Nat
  BY CurrentInLog
<1>2. SentInHand(u, log[u][i].src)
  BY <1>1 DEF RunInv, SentBefore
<1>3. stage = "handle" \/ (stage = "dlq" /\ w = "DLQ")
  BY TopicFacts DEF HandlerEffect
<1> QED
  BY <1>2, <1>3 DEF SentInHand

LEMMA OrderedNext ==
  ASSUME IInv, RunInv, OrderedPerRun, [Next]_vars
  PROVE  OrderedPerRun'
<1> SUFFICES ASSUME NEW u \in Topics, NEW i \in ThisRun(u)', NEW j \in ThisRun(u)',
                    i < j, log'[u][i].src.topic = log'[u][j].src.topic
             PROVE  log'[u][i].src.offset < log'[u][j].src.offset
  BY DEF OrderedPerRun
<1>1. CASE /\ i \in ThisRun(u) /\ log'[u][i] = log[u][i]
           /\ j \in ThisRun(u) /\ log'[u][j] = log[u][j]
  BY <1>1 DEF OrderedPerRun
<1>2. CASE Aside
  BY <1>1, <1>2, ThisRunAside
<1>3. CASE LoseMemory
  BY <1>3, ThisRunLost
<1>4. CASE CommitReturns \/ CommitFails
  <2>1. UNCHANGED <<log, mark>>
    BY <1>4 DEF CommitReturns, CommitFails
  <2> QED
    BY <1>1, <2>1, ThisRunSame
<1>5. CASE Handler /\ HandlerStep
  <2>1. PICK w \in Topics \cup {NoTopic} : HandlerEffect(w)
    BY <1>5, HandlerHasEffect
  <2> DEFINE Old(n) == n \in ThisRun(u) /\ log'[u][n] = log[u][n]
             New(n) == /\ u = w /\ n = Len(log[u]) + 1
                       /\ log'[u][n].src = [topic |-> cur, offset |-> next[cur]]
  <2>2. (Old(i) \/ New(i)) /\ (Old(j) \/ New(j))
    BY <1>5, <2>1, ThisRunHandler
  <2>3. Len(log[u]) \in Nat
    BY RecordTypes
  <2>4. Old(j) => j \in 1 .. Len(log[u])
    BY ThisRunTypes
  <2>5. ~(New(i) /\ Old(j)) /\ ~(New(i) /\ New(j))
    BY <2>3, <2>4
  <2>6. CASE Old(i) /\ New(j)
    <3>1. cur # NoTopic /\ next[cur] \in Nat
      BY <1>5, CurrentInLog DEF HandlerStep
    <3>2. log[u][i].src # [topic |-> cur, offset |-> next[cur]]
      BY <2>1, <2>6, <3>1, FreshSource
    <3>3. ~SentInHand(u, log[u][i].src)
      BY <3>2 DEF SentInHand
    <3>4. log[u][i].src.offset < next[log[u][i].src.topic]
      BY <2>6, <3>3 DEF RunInv, SentBefore
    <3> QED
      BY <2>6, <3>4
  <2> QED
    BY <1>1, <2>2, <2>5, <2>6
<1> QED
  BY <1>2, <1>3, <1>4, <1>5, StepKinds

\* What one run of the process sends to a topic on behalf of a source topic keeps
\* the order of the source and repeats nothing, for any batches and faults.
THEOREM SentInOrder == Spec => []OrderedPerRun
<1>1. Init => OrderedPerRun
  BY RunInit
<1>2. IInv /\ RunInv /\ OrderedPerRun /\ [Next]_vars => OrderedPerRun'
  BY OrderedNext
<1> QED
  BY <1>1, <1>2, RunHolds, PTL DEF Spec

LEMMA ForwardedNext ==
  ASSUME IInv, RunInv, ForwardedOrDead, [Next]_vars
  PROVE  ForwardedOrDead'
<1> SUFFICES ASSUME raised' = 0, NEW u \in Topics \ {"DLQ"},
                    NEW i \in ThisRun(u)', NEW j \in ThisRun("DLQ")'
             PROVE  log'[u][i].src # log'["DLQ"][j].src
  BY DEF ForwardedOrDead
<1> USE TopicFacts
<1>1. CASE /\ i \in ThisRun(u) /\ log'[u][i] = log[u][i]
           /\ j \in ThisRun("DLQ") /\ log'["DLQ"][j] = log["DLQ"][j]
           /\ raised = 0
  BY <1>1 DEF ForwardedOrDead
<1>2. CASE Aside
  <2>1. raised = 0
    BY <1>2 DEF Aside
  <2> QED
    BY <1>1, <1>2, <2>1, ThisRunAside
<1>3. CASE LoseMemory
  BY <1>3, ThisRunLost
<1>4. CASE CommitReturns \/ CommitFails
  <2>1. UNCHANGED <<log, mark, raised>>
    BY <1>4 DEF CommitReturns, CommitFails, faults
  <2> QED
    BY <1>1, <2>1, ThisRunSame
<1>5. CASE Handler /\ HandlerStep
  <2>1. PICK w \in Topics \cup {NoTopic} : HandlerEffect(w)
    BY <1>5, HandlerHasEffect
  <2>2. raised = 0
    BY <2>1 DEF HandlerEffect, IInv, TypeOK
  <2>3. cur # NoTopic
    BY <1>5 DEF HandlerStep
  <2> DEFINE Old(t, n) == n \in ThisRun(t) /\ log'[t][n] = log[t][n]
             New(t, n) == /\ t = w
                          /\ log'[t][n].src = [topic |-> cur, offset |-> next[cur]]
  <2>4. (Old(u, i) \/ New(u, i)) /\ (Old("DLQ", j) \/ New("DLQ", j))
    BY <1>5, <2>1, ThisRunHandler
  <2>5. \A t \in Topics : \A n : Old(t, n) /\ w # NoTopic =>
          log'[t][n].src # [topic |-> cur, offset |-> next[cur]]
    BY <2>1, <2>2, <2>3, FreshSource
  <2> QED
    BY <1>1, <2>2, <2>4, <2>5
<1> QED
  BY <1>2, <1>3, <1>4, <1>5, StepKinds

\* As long as no send raised, nothing is both forwarded and dead-lettered by one
\* run of the process.
THEOREM ForwardedOrDeadLettered == Spec => []ForwardedOrDead
<1>1. Init => ForwardedOrDead
  BY RunInit
<1>2. IInv /\ RunInv /\ ForwardedOrDead /\ [Next]_vars => ForwardedOrDead'
  BY ForwardedNext
<1> QED
  BY <1>1, <1>2, RunHolds, PTL DEF Spec

-----------------------------------------------------------------------------
(* Dead letters and the retries counted in memory.                         *)

WithinRetries == \A k \in Tasks : attempts[k] <= MaxRetries

LEMMA HandlerInHand ==
  ASSUME IInv, HandlerStep
  PROVE  /\ cur \in ConsumeTopics /\ cur # NoTopic
         /\ Current.task \in Tasks /\ Current' = Current
<1>1. /\ cur # NoTopic /\ cur \in ConsumeTopics /\ Current \in Record
      /\ next[cur] + 1 \in 1 .. Len(log[cur]) /\ UNCHANGED <<cur, next>>
  BY CurrentInLog DEF HandlerStep, reading
<1>2. log'[cur][next[cur] + 1] = log[cur][next[cur] + 1]
  BY <1>1, TopicFacts DEF HandlerStep, Extends
<1> QED
  BY <1>1, <1>2 DEF Record, Current

LEMMA DeadNext ==
  ASSUME IInv, WithinRetries, DeadOnlyWhenExhausted, [Next]_vars
  PROVE  WithinRetries' /\ DeadOnlyWhenExhausted'
<1> USE TopicFacts
<1>1. MaxRetries \in Nat /\ attempts \in [Tasks -> Nat]
  BY FlowAssumption DEF IInv, TypeOK
<1>2. CASE UNCHANGED attempts /\ ~Handler
  <2>1. WithinRetries'
    BY <1>2 DEF WithinRetries
  <2>2. ASSUME NEW i \in ThisRun("DLQ")'
        PROVE  i \in ThisRun("DLQ") /\ log'["DLQ"][i] = log["DLQ"][i]
    <3>1. CASE Aside
      BY <3>1, ThisRunAside
    <3>2. CASE LoseMemory
      BY <3>2, ThisRunLost
    <3>3. CASE CommitReturns \/ CommitFails
      <4>1. UNCHANGED <<log, mark>>
        BY <3>3 DEF CommitReturns, CommitFails
      <4> QED
        BY <4>1, ThisRunSame
    <3> QED
      BY <1>2, <3>1, <3>2, <3>3, StepKinds
  <2> QED
    BY <1>2, <2>1, <2>2 DEF DeadOnlyWhenExhausted
<1>3. CASE LoseMemory
  <2>1. WithinRetries'
    BY <1>1, <1>3 DEF LoseMemory, Zero, WithinRetries
  <2>2. DeadOnlyWhenExhausted'
    BY <1>3, ThisRunLost DEF DeadOnlyWhenExhausted
  <2> QED
    BY <2>1, <2>2
<1>4. CASE Handler /\ HandlerStep
  <2>1. PICK w \in Topics \cup {NoTopic} : HandlerEffect(w)
    BY <1>4, HandlerHasEffect
  <2> DEFINE k == Current.task
  <2>2. k \in Tasks
    BY <1>4, HandlerInHand
  <2>3. \/ UNCHANGED attempts
        \/ /\ w # "DLQ" /\ attempts[k] < MaxRetries
           /\ attempts' = [attempts EXCEPT ![k] = @ + 1]
    BY <2>1 DEF HandlerEffect
  <2> HIDE DEF k
  <2>4. WithinRetries'
    BY <1>1, <2>2, <2>3 DEF WithinRetries
  <2>5. ASSUME NEW i \in ThisRun("DLQ")', log'["DLQ"][i].src.topic = "RETRY"
        PROVE  attempts'[log'["DLQ"][i].task] = MaxRetries
    <3>1. CASE i \in ThisRun("DLQ") /\ log'["DLQ"][i] = log["DLQ"][i]
      <4>1. attempts[log["DLQ"][i].task] = MaxRetries
        BY <2>5, <3>1 DEF DeadOnlyWhenExhausted
      <4>2. log["DLQ"][i].task \in Tasks
        BY <3>1, ThisRunTypes, RecordTypes DEF Record
      <4> QED
        BY <1>1, <2>2, <2>3, <3>1, <4>1, <4>2
    <3>2. CASE /\ w = "DLQ" /\ log'["DLQ"][i].task = Current.task
               /\ log'["DLQ"][i].src = [topic |-> cur, offset |-> next[cur]]
      <4>1. cur = "RETRY" /\ log'["DLQ"][i].task = k
        BY <2>5, <3>2 DEF k
      <4>2. attempts[k] >= MaxRetries
        BY <2>1, <3>2, <4>1 DEF HandlerEffect, k
      <4>3. attempts[k] = MaxRetries
        BY <1>1, <2>2, <4>2 DEF WithinRetries
      <4> QED
        BY <2>3, <3>2, <4>1, <4>3
    <3> QED
      BY <1>4, <2>1, <3>1, <3>2, ThisRunHandler
  <2> QED
    BY <2>4, <2>5 DEF DeadOnlyWhenExhausted
<1>5. Aside \/ CommitReturns \/ CommitFails => UNCHANGED attempts
  BY DEF Aside, CommitReturns, CommitFails
<1> QED
  BY <1>2, <1>3, <1>4, <1>5, StepKinds, HandlerIsHandlerStep

LEMMA DeadInit == Init => WithinRetries /\ DeadOnlyWhenExhausted
BY FlowAssumption DEF Init, WithinRetries, DeadOnlyWhenExhausted, ThisRun, Zero,
   Topics, ProduceTopics

LEMMA DeadHolds == Spec => [](WithinRetries /\ DeadOnlyWhenExhausted)
BY InvHolds, DeadInit, DeadNext, PTL DEF Spec

\* A task is dead-lettered from the retry topic only when its budget is spent, and
\* not retried again in the same run, for every retry limit.
THEOREM DeadWhenExhausted == Spec => []DeadOnlyWhenExhausted
BY DeadHolds, PTL

-----------------------------------------------------------------------------
(* Counting records.                                                       *)

LEMMA SentFromFinite ==
  ASSUME IInv, NEW u \in Topics, NEW t, NEW k
  PROVE  /\ IsFiniteSet(SentFrom(u, t, k))
         /\ Cardinality(SentFrom(u, t, k)) \in Nat
         /\ Len(log[u]) + 1 \notin SentFrom(u, t, k)
<1>1. Len(log[u]) \in Nat
  BY RecordTypes
<1>2. IsFiniteSet(1 .. Len(log[u]))
  BY <1>1, FS_Interval
<1>3. SentFrom(u, t, k) \subseteq 1 .. Len(log[u])
  BY DEF SentFrom
<1>4. IsFiniteSet(SentFrom(u, t, k))
  BY <1>2, <1>3, FS_Subset
<1> QED
  BY <1>1, <1>3, <1>4, FS_CardinalityType

\* What happens outside adds nothing to what was sent from a topic.
LEMMA SentFromAside ==
  ASSUME IInv, Aside, NEW u \in Topics, NEW t \in ConsumeTopics, NEW k
  PROVE  SentFrom(u, t, k)' = SentFrom(u, t, k)
<1>1. /\ Len(log[u]) \in Nat /\ Len(log'[u]) \in Nat
      /\ Len(log[u]) <= Len(log'[u])
      /\ \A i \in 1 .. Len(log[u]) : log'[u][i] = log[u][i]
  BY RecordTypes DEF Aside, Extends
<1>2. \A i \in Len(log[u]) + 1 .. Len(log'[u]) : log'[u][i].src.topic # t
  BY TopicFacts DEF Aside, External
<1> QED
  BY <1>1, <1>2 DEF SentFrom

\* A handler adds one record to what was sent to the topic it writes, from the
\* topic in hand, for the task in hand, and none to anything else.
LEMMA SentFromHandler ==
  ASSUME IInv, HandlerStep, NEW w \in Topics \cup {NoTopic}, HandlerEffect(w),
         NEW u \in Topics, NEW t \in ConsumeTopics, NEW k \in Tasks
  PROVE  IF w = u /\ cur = t /\ Current.task = k
         THEN /\ SentFrom(u, t, k)' = SentFrom(u, t, k) \cup {Len(log[u]) + 1}
              /\ Cardinality(SentFrom(u, t, k))' = Cardinality(SentFrom(u, t, k)) + 1
         ELSE SentFrom(u, t, k)' = SentFrom(u, t, k)
<1>1. TypeOK /\ Len(log[u]) \in Nat
  BY RecordTypes DEF IInv
<1>2. CASE w # u
  <2>1. log'[u] = log[u]
    BY <1>1, <1>2 DEF HandlerEffect, Written, TypeOK
  <2> QED
    BY <1>2, <2>1 DEF SentFrom
<1>3. CASE w = u
  <2>1. PICK b \in {"valid", "event"} : Written(w, b)
    BY <1>3, TopicFacts DEF HandlerEffect
  <2> DEFINE m == [task |-> Current.task, body |-> b,
                   src |-> [topic |-> cur, offset |-> next[cur]]]
  <2>2. log' = [log EXCEPT ![u] = Append(@, m)]
    BY <1>3, <2>1 DEF Written
  <2>3. Current \in Record /\ cur \in ConsumeTopics /\ next[cur] \in Nat
    BY CurrentInLog DEF HandlerStep
  <2>4. m \in Record /\ m.src.topic = cur /\ m.task = Current.task
    BY <2>3 DEF Record, Source
  <2> HIDE DEF m
  <2>5. /\ Extends /\ Len(log'[u]) = Len(log[u]) + 1
        /\ log'[u][Len(log[u]) + 1] = m
    BY <1>1, <2>2, <2>4, AppendExtends
  <2>6. SentFrom(u, t, k)' = IF cur = t /\ Current.task = k
                             THEN SentFrom(u, t, k) \cup {Len(log[u]) + 1}
                             ELSE SentFrom(u, t, k)
    <3>1. \A i \in 1 .. Len(log[u]) : log'[u][i] = log[u][i]
      BY <2>5 DEF Extends
    <3> QED
      BY <1>1, <2>4, <2>5, <3>1 DEF SentFrom
  <2>7. Cardinality(SentFrom(u, t, k) \cup {Len(log[u]) + 1})
          = Cardinality(SentFrom(u, t, k)) + 1
    BY SentFromFinite, FS_AddElement
  <2> QED
    BY <1>3, <2>6, <2>7
<1> QED
  BY <1>2, <1>3

LEMMA SentFromCommit ==
  ASSUME UNCHANGED log, NEW u, NEW t, NEW k
  PROVE  SentFrom(u, t, k)' = SentFrom(u, t, k)
BY DEF SentFrom

-----------------------------------------------------------------------------
(* The retry budget.                                                       *)

Retries(k) == Cardinality(SentFrom("RETRY", "RETRY", k))

\* A run sends at most as many retries of a task as it counted.
Budget(k) == IF proc = "down" THEN MaxRetries * starts
                              ELSE MaxRetries * (starts - 1) + attempts[k]

BudgetInv ==
  /\ proc # "down" => starts > 0
  /\ \A k \in Tasks : Retries(k) <= Budget(k)

LEMMA OneMoreRun ==
  ASSUME NEW m \in Nat, NEW n \in Nat, NEW a \in Nat, a <= m
  PROVE  /\ m * (n - 1) + a <= m * n
         /\ m * n \in Nat /\ m * (n - 1) \in Int
OBVIOUS

LEMMA BudgetNext ==
  ASSUME IInv, RunInv, WithinRetries, BudgetInv, [Next]_vars
  PROVE  BudgetInv'
<1> USE TopicFacts
<1>1. /\ starts \in Nat /\ MaxRetries \in Nat /\ attempts \in [Tasks -> Nat]
      /\ attempts' \in [Tasks -> Nat] /\ starts' \in Nat
  BY FlowAssumption, InvNext DEF IInv, TypeOK
<1>2. \A k \in Tasks : Retries(k) \in Nat /\ attempts[k] <= MaxRetries
  BY SentFromFinite DEF Retries, WithinRetries
<1>3. CASE Aside
  <2>1. \A k \in Tasks : Retries(k)' = Retries(k)
    BY <1>3, SentFromAside DEF Retries
  <2>2. attempts' = attempts /\ Starts
    BY <1>3 DEF Aside
  <2>3. CASE starts' = starts /\ (proc' = "down" <=> proc = "down")
    BY <2>1, <2>2, <2>3 DEF BudgetInv, Budget
  <2>4. CASE starts' = starts + 1 /\ proc = "down" /\ proc' # "down"
    <3>1. starts' - 1 = starts /\ starts' > 0
      BY <1>1, <2>4
    <3>2. ASSUME NEW k \in Tasks PROVE Retries(k)' <= Budget(k)'
      <4>1. Retries(k)' <= MaxRetries * starts
        BY <2>1, <2>4 DEF BudgetInv, Budget
      <4>2. Budget(k)' = MaxRetries * starts + attempts'[k]
        BY <2>4, <3>1 DEF Budget
      <4>3. attempts'[k] \in Nat /\ MaxRetries * starts \in Nat /\ Retries(k)' \in Nat
        BY <1>1, <1>2, <2>1, OneMoreRun
      <4> QED
        BY <4>1, <4>2, <4>3
    <3> QED
      BY <3>1, <3>2 DEF BudgetInv
  <2> QED
    BY <2>2, <2>3, <2>4 DEF Starts
<1>4. CASE LoseMemory
  <2>1. proc' = "down" /\ starts' = starts /\ UNCHANGED log
    BY <1>4 DEF LoseMemory
  <2>2. ASSUME NEW k \in Tasks PROVE Retries(k)' <= Budget(k)'
    <3>1. Retries(k)' = Retries(k)
      BY <2>1, SentFromCommit DEF Retries
    <3>2. Budget(k)' = MaxRetries * starts
      BY <2>1 DEF Budget
    <3>3. Retries(k) <= Budget(k) /\ attempts[k] \in Nat /\ attempts[k] <= MaxRetries
      BY <1>1, <1>2 DEF BudgetInv
    <3>4. /\ MaxRetries * (starts - 1) + attempts[k] <= MaxRetries * starts
          /\ MaxRetries * starts \in Nat /\ MaxRetries * (starts - 1) \in Int
      BY <1>1, <3>3, OneMoreRun
    <3> QED
      BY <1>2, <3>1, <3>2, <3>3, <3>4 DEF Budget
  <2> QED
    BY <2>1, <2>2 DEF BudgetInv
<1>5. CASE Handler /\ HandlerStep
  <2>1. PICK w \in Topics \cup {NoTopic} : HandlerEffect(w)
    BY <1>5, HandlerHasEffect
  <2>2. UNCHANGED <<proc, starts>> /\ cur # NoTopic
    BY <1>5 DEF HandlerStep, reading
  <2>3. proc # "down"
    BY <2>2 DEF RunInv, Between, BatchDone
  <2>4. Current.task \in Tasks
    BY <1>5, HandlerInHand
  <2>5. ASSUME NEW k \in Tasks PROVE Retries(k)' <= Budget(k)'
    <3>1. IF w = "RETRY" /\ cur = "RETRY" /\ Current.task = k
          THEN Retries(k)' = Retries(k) + 1 ELSE Retries(k)' = Retries(k)
      BY <1>5, <2>1, SentFromHandler DEF Retries
    <3>2. /\ attempts'[k] >= attempts[k]
          /\ w = "RETRY" /\ cur = "RETRY" /\ Current.task = k =>
               attempts'[k] = attempts[k] + 1
      BY <1>1, <2>1, <2>4 DEF HandlerEffect
    <3>3. Retries(k) <= MaxRetries * (starts - 1) + attempts[k]
      BY <2>3 DEF BudgetInv, Budget
    <3>4. Budget(k)' = MaxRetries * (starts - 1) + attempts'[k]
      BY <2>2, <2>3 DEF Budget
    <3>5. /\ attempts[k] \in Nat /\ attempts'[k] \in Nat /\ Retries(k) \in Nat
          /\ MaxRetries * (starts - 1) \in Int
      BY <1>1, <1>2, OneMoreRun
    <3> HIDE DEF Retries, Budget
    <3> QED
      BY <3>1, <3>2, <3>3, <3>4, <3>5
  <2> QED
    BY <2>2, <2>5 DEF BudgetInv
<1>6. CASE CommitReturns \/ CommitFails
  <2>1. UNCHANGED <<log, proc, starts, attempts>>
    BY <1>6 DEF CommitReturns, CommitFails
  <2>2. \A k \in Tasks : Retries(k)' = Retries(k)
    BY <2>1, SentFromCommit DEF Retries
  <2> QED
    BY <2>1, <2>2 DEF BudgetInv, Budget
<1> QED
  BY <1>3, <1>4, <1>5, <1>6, StepKinds

LEMMA NothingSent ==
  ASSUME Init, NEW u \in Topics, NEW t, NEW k
  PROVE  SentFrom(u, t, k) = {} /\ Cardinality(SentFrom(u, t, k)) = 0
BY FS_EmptySet DEF Init, SentFrom

\* A task goes round the retry topic at most retry_max times per start of the
\* process, for every retry limit, number of tasks and number of starts.
THEOREM RetriesBounded == Spec => []RetryBudget
<1>1. Init => BudgetInv
  <2> SUFFICES ASSUME Init, NEW k \in Tasks
               PROVE  (proc # "down" => starts > 0) /\ Retries(k) <= Budget(k)
    BY DEF BudgetInv, Init
  <2>1. Retries(k) = 0 /\ proc = "down" /\ starts = 0
    BY NothingSent, TopicFacts DEF Init, Retries
  <2>2. MaxRetries * 0 = 0
    BY FlowAssumption
  <2> QED
    BY <2>1, <2>2 DEF Budget
<1>2. IInv /\ RunInv /\ WithinRetries /\ BudgetInv /\ [Next]_vars => BudgetInv'
  BY BudgetNext
<1>3. IInv /\ WithinRetries /\ BudgetInv => RetryBudget
  <2> SUFFICES ASSUME IInv, WithinRetries, BudgetInv, NEW k \in Tasks
               PROVE  Retries(k) <= MaxRetries * starts
    BY DEF RetryBudget, Retries
  <2>1. /\ MaxRetries \in Nat /\ starts \in Nat /\ attempts[k] \in Nat
        /\ attempts[k] <= MaxRetries
    BY FlowAssumption DEF IInv, TypeOK, WithinRetries
  <2>2. Retries(k) \in Nat /\ Retries(k) <= Budget(k)
    BY SentFromFinite, TopicFacts DEF Retries, BudgetInv
  <2>3. /\ MaxRetries * (starts - 1) + attempts[k] <= MaxRetries * starts
        /\ MaxRetries * starts \in Nat /\ MaxRetries * (starts - 1) \in Int
    BY <2>1, OneMoreRun
  <2> QED
    BY <2>1, <2>2, <2>3 DEF Budget
<1> QED
  BY <1>1, <1>2, <1>3, RunHolds, DeadHolds, PTL DEF Spec

-----------------------------------------------------------------------------
(* The local dead letter log.                                              *)

DeadLetters(k) == Cardinality(SentFrom("DLQ", "RETRY", k))

\* The line that EnqueueDlq is about to write for task k.
Pending(k) == IF stage = "enqueue" /\ Current.task = k THEN 1 ELSE 0

HasDeadLetter(k) == \E i \in ThisRun("DLQ") : /\ log["DLQ"][i].task = k
                                              /\ log["DLQ"][i].src.topic = "RETRY"

LinesInv ==
  swallowed = 0 =>
    /\ \A k \in Tasks : dlqLines[k] + Pending(k) <= DeadLetters(k)
    /\ \A k \in dlqTasks : HasDeadLetter(k)
    /\ stage = "enqueue" => HasDeadLetter(Current.task)

\* A record of this run stays one until the process ends.
LEMMA DeadLetterStays ==
  ASSUME IInv, Extends, UNCHANGED mark, NEW k, HasDeadLetter(k)
  PROVE  HasDeadLetter(k)'
<1>1. PICK i \in ThisRun("DLQ") : /\ log["DLQ"][i].task = k
                                  /\ log["DLQ"][i].src.topic = "RETRY"
  BY DEF HasDeadLetter
<1>2. /\ Len(log["DLQ"]) \in Nat /\ Len(log'["DLQ"]) \in Nat /\ mark["DLQ"] \in Nat
      /\ Len(log["DLQ"]) <= Len(log'["DLQ"])
      /\ i \in 1 .. Len(log["DLQ"])
  BY <1>1, RecordTypes, ThisRunTypes, TopicFacts DEF Extends
<1>3. log'["DLQ"][i] = log["DLQ"][i]
  BY <1>2, TopicFacts DEF Extends
<1>4. i \in ThisRun("DLQ")'
  BY <1>1, <1>2, <1>3 DEF ThisRun
<1> QED
  BY <1>1, <1>3, <1>4 DEF HasDeadLetter

\* The event of the dead letter that was written for the task in hand.
LEMMA DeadLetterWritten ==
  ASSUME IInv, RunInv, HandlerStep, HandlerEffect("DLQ"), cur = "RETRY"
  PROVE  HasDeadLetter(Current.task)'
<1> USE TopicFacts
<1>1. PICK b \in {"valid", "event"} : Written("DLQ", b)
  BY DEF HandlerEffect
<1> DEFINE m == [task |-> Current.task, body |-> b,
                 src |-> [topic |-> cur, offset |-> next[cur]]]
<1>2. TypeOK /\ Current \in Record /\ cur \in ConsumeTopics /\ next[cur] \in Nat
  BY CurrentInLog DEF HandlerStep, IInv
<1>3. m \in Record /\ m.task = Current.task /\ m.src.topic = "RETRY"
  BY <1>2 DEF Record, Source
<1>4. log' = [log EXCEPT !["DLQ"] = Append(@, m)]
  BY <1>1 DEF Written
<1> HIDE DEF m
<1>5. Len(log'["DLQ"]) = Len(log["DLQ"]) + 1 /\ log'["DLQ"][Len(log["DLQ"]) + 1] = m
  BY <1>2, <1>3, <1>4, AppendExtends
<1>6. /\ Len(log["DLQ"]) \in Nat /\ mark["DLQ"] \in Nat
      /\ mark["DLQ"] <= Len(log["DLQ"]) /\ mark' = mark
  BY RecordTypes DEF RunInv, Between, HandlerStep, reading
<1>7. Len(log["DLQ"]) + 1 \in ThisRun("DLQ")'
  BY <1>3, <1>5, <1>6 DEF ThisRun
<1>8. Current' = Current
  BY HandlerInHand
<1> QED
  BY <1>3, <1>5, <1>7, <1>8 DEF HasDeadLetter

LEMMA LinesNext ==
  ASSUME IInv, RunInv, LinesInv, [Next]_vars
  PROVE  LinesInv'
<1> USE TopicFacts
<1>1. /\ dlqLines \in [Tasks -> Nat] /\ dlqTasks \subseteq Tasks
      /\ swallowed \in Nat /\ IInv'
      /\ \A k \in Tasks : DeadLetters(k) \in Nat
  BY InvNext, SentFromFinite DEF IInv, TypeOK, DeadLetters
<1>2. CASE Aside
  <2>1. \A k \in Tasks : DeadLetters(k)' = DeadLetters(k)
    BY <1>2, SentFromAside DEF DeadLetters
  <2>2. UNCHANGED <<dlqLines, dlqTasks, swallowed, mark>> /\ Extends
    BY <1>2 DEF Aside, dlq
  <2>3. stage' = "enqueue" => stage = "enqueue" /\ Current' = Current
    <3> SUFFICES ASSUME stage' = "enqueue"
                 PROVE  stage = "enqueue" /\ Current' = Current
      OBVIOUS
    <3>1. UNCHANGED <<cur, stage, next>> /\ cur # NoTopic
      BY <1>2 DEF Aside, IInv, InHand
    <3>2. cur \in Topics /\ next[cur] + 1 \in 1 .. Len(log[cur])
      BY <3>1, CurrentInLog
    <3>3. log'[cur][next[cur] + 1] = log[cur][next[cur] + 1]
      BY <2>2, <3>2 DEF Extends
    <3> QED
      BY <3>1, <3>3 DEF Current
  <2>4. \A k \in Tasks : /\ Pending(k) \in {0, 1} /\ Pending(k)' \in {0, 1}
                         /\ Pending(k)' <= Pending(k)
    BY <2>3 DEF Pending
  <2>5. \A k : HasDeadLetter(k) => HasDeadLetter(k)'
    BY <2>2, DeadLetterStays
  <2>6. \A k \in Tasks : dlqLines[k] + Pending(k) <= DeadLetters(k)
          => dlqLines'[k] + Pending(k)' <= DeadLetters(k)'
    BY <1>1, <2>1, <2>2, <2>4
  <2> QED
    BY <2>2, <2>3, <2>5, <2>6 DEF LinesInv
<1>3. CASE LoseMemory
  <2>1. /\ stage' = "idle" /\ dlqTasks' = {}
        /\ UNCHANGED <<log, dlqLines, swallowed>>
    BY <1>3 DEF LoseMemory, faults
  <2>2. \A k \in Tasks : DeadLetters(k)' = DeadLetters(k) /\ Pending(k)' = 0
    BY <2>1, SentFromCommit DEF DeadLetters, Pending
  <2>3. \A k \in Tasks : Pending(k) \in {0, 1}
    BY DEF Pending
  <2>4. \A k \in Tasks : dlqLines[k] + Pending(k) <= DeadLetters(k)
          => dlqLines'[k] + Pending(k)' <= DeadLetters(k)'
    BY <1>1, <2>1, <2>2, <2>3
  <2> QED
    BY <2>1, <2>4 DEF LinesInv
<1>4. CASE CommitReturns \/ CommitFails
  <2>1. /\ stage' \in {"idle", "handle"} /\ stage = "commit"
        /\ UNCHANGED <<log, mark, dlqTasks, dlqLines, swallowed>>
    BY <1>4 DEF CommitReturns, CommitFails, MoveOn, dlq, faults
  <2>2. \A k \in Tasks : /\ DeadLetters(k)' = DeadLetters(k)
                         /\ Pending(k)' = 0 /\ Pending(k) = 0
    BY <2>1, SentFromCommit DEF DeadLetters, Pending
  <2>3. \A k : HasDeadLetter(k) => HasDeadLetter(k)'
    BY <2>1, ThisRunSame DEF HasDeadLetter
  <2> QED
    BY <2>1, <2>2, <2>3 DEF LinesInv
<1>5. CASE Handler /\ HandlerStep
  <2>1. PICK w \in Topics \cup {NoTopic} : HandlerEffect(w)
    BY <1>5, HandlerHasEffect
  <2>2. /\ Current.task \in Tasks /\ Current' = Current /\ Extends
        /\ UNCHANGED mark /\ stage' \in {"dlq", "enqueue", "commit"}
        /\ stage' = "enqueue" => cur = "RETRY"
    BY <1>5, HandlerInHand DEF HandlerStep, reading
  <2> SUFFICES ASSUME swallowed' = 0
               PROVE  /\ \A k \in Tasks : (dlqLines[k] + Pending(k) <= DeadLetters(k))'
                      /\ \A k \in dlqTasks' : HasDeadLetter(k)'
                      /\ stage' = "enqueue" => HasDeadLetter(Current.task)'
    BY DEF LinesInv
  <2>3. swallowed = 0
    BY <1>1, <2>1 DEF HandlerEffect
  <2>4. stage' = "enqueue" => stage = "handle" /\ w = "DLQ"
    BY <1>5, <2>1, <2>3
       DEF HandlerEffect, Handler, Reject, HandleSubmit, DeadLetterSubmit,
           HandlePreprocess, HandleElement, HandleGeneralCleaning, RetryAgain,
           RetryExhausted, EnqueueDlq, Handling
  <2>5. stage' = "enqueue" => HasDeadLetter(Current.task)'
    BY <1>5, <2>1, <2>2, <2>4, DeadLetterWritten
  <2>6. ASSUME NEW k \in dlqTasks' PROVE HasDeadLetter(k)'
    <3>1. k \in dlqTasks \/ (stage = "enqueue" /\ k = Current.task)
      BY <2>1, <2>6 DEF HandlerEffect, dlq
    <3>2. HasDeadLetter(k)
      BY <2>3, <3>1 DEF LinesInv
    <3> QED
      BY <2>2, <3>2, DeadLetterStays
  <2>7. ASSUME NEW k \in Tasks
        PROVE  dlqLines'[k] + Pending(k)' <= DeadLetters(k)'
    <3>1. IF w = "DLQ" /\ cur = "RETRY" /\ Current.task = k
          THEN DeadLetters(k)' = DeadLetters(k) + 1
          ELSE DeadLetters(k)' = DeadLetters(k)
      BY <1>5, <2>1, SentFromHandler DEF DeadLetters
    <3>2. Pending(k)' = IF stage' = "enqueue" /\ Current.task = k THEN 1 ELSE 0
      BY <2>2 DEF Pending
    <3>3. \/ dlqLines' = dlqLines
          \/ /\ stage = "enqueue" /\ stage' = "commit"
             /\ dlqLines' = [dlqLines EXCEPT ![Current.task] = @ + 1]
      BY <2>1 DEF HandlerEffect, dlq
    <3>4. /\ dlqLines[k] + Pending(k) <= DeadLetters(k)
          /\ dlqLines[k] \in Nat /\ DeadLetters(k) \in Nat
      BY <1>1, <2>3 DEF LinesInv
    <3>5. CASE stage' = "enqueue" /\ Current.task = k
      <4>1. DeadLetters(k)' = DeadLetters(k) + 1 /\ dlqLines' = dlqLines
        BY <2>2, <2>4, <3>1, <3>3, <3>5
      <4>2. Pending(k) = 0 /\ Pending(k)' = 1
        BY <2>4, <3>2, <3>5 DEF Pending
      <4> QED
        BY <3>4, <4>1, <4>2
    <3>6. CASE ~(stage' = "enqueue" /\ Current.task = k)
      <4>1. Pending(k)' = 0
        BY <3>2, <3>6
      <4>2. dlqLines'[k] <= dlqLines[k] + Pending(k) /\ dlqLines'[k] \in Nat
        BY <1>1, <2>2, <3>3 DEF Pending
      <4>3. DeadLetters(k)' >= DeadLetters(k) /\ DeadLetters(k)' \in Nat
        BY <3>1, <3>4
      <4>4. Pending(k) \in {0, 1}
        BY DEF Pending
      <4> QED
        BY <3>4, <4>1, <4>2, <4>3, <4>4
    <3> QED
      BY <3>5, <3>6
  <2> QED
    BY <2>5, <2>6, <2>7
<1> QED
  BY <1>2, <1>3, <1>4, <1>5, StepKinds

\* The local dead letter log never gets ahead of the DLQ topic: each line and each
\* task DLQManager holds has an event of its own, sent first.
THEOREM DeadLettersTrail == Spec => []DlqTrailsTopic
<1>1. Init => LinesInv
  <2> SUFFICES ASSUME Init, NEW k \in Tasks
               PROVE  /\ dlqLines[k] + Pending(k) <= DeadLetters(k)
                      /\ dlqTasks = {} /\ stage # "enqueue"
    BY DEF LinesInv, Init
  <2>1. DeadLetters(k) = 0
    BY NothingSent, TopicFacts DEF DeadLetters
  <2> QED
    BY <2>1 DEF Init, Zero, Pending
<1>2. IInv /\ RunInv /\ LinesInv /\ [Next]_vars => LinesInv'
  BY LinesNext
<1>3. IInv /\ LinesInv => DlqTrailsTopic
  <2> SUFFICES ASSUME IInv, LinesInv, swallowed = 0, NEW k \in Tasks
               PROVE  /\ dlqLines[k] <= DeadLetters(k)
                      /\ k \in dlqTasks => HasDeadLetter(k)
    BY DEF DlqTrailsTopic, DeadLetters, HasDeadLetter
  <2>1. /\ dlqLines[k] \in Nat /\ DeadLetters(k) \in Nat
        /\ Pending(k) \in {0, 1}
    BY SentFromFinite, TopicFacts DEF IInv, TypeOK, DeadLetters, Pending
  <2>2. /\ dlqLines[k] + Pending(k) <= DeadLetters(k)
        /\ k \in dlqTasks => HasDeadLetter(k)
    BY DEF LinesInv
  <2> HIDE DEF Pending, DeadLetters
  <2> QED
    BY <2>1, <2>2
<1> QED
  BY <1>1, <1>2, <1>3, RunHolds, PTL DEF Spec

=============================================================================

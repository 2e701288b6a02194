---------------------------- MODULE TaskMachines ----------------------------
(***************************************************************************)
(* TaskStateMachineFactory and the TaskStateMachines it hands out, for one *)
(* task whose threads call them at the same time.  Clean creates machines; *)
(* the other methods have no caller in the service.  Stage, progress and   *)
(* error are attributes no method decides by; they are left out.           *)
(***************************************************************************)
EXTENDS Naturals, Sequences, FiniteSets, FiniteSetsExt

CONSTANTS
  Threads,
  Machines,        \* the machines that may be made, a bound
  None,            \* no machine, no status
  MaxTransitions,  \* bound on the transitions of all machines
  MaxMixed         \* the same once the calls of two threads overlapped on a machine

VARIABLES
  registered,   \* the machine the factory has for the task
  made,         \* the machines made so far
  machine,      \* the status and the history of each machine
  pc,           \* the next step of each thread
  handle,       \* the machine create or get gave to it last
  target,       \* the status a thread found to be allowed, until it is in the history
  removed,      \* whether remove was called, for the properties
  raced,        \* whether create overlapped another create, for the properties
  mixed         \* machines on which calls of transition overlapped, for the properties

vars == <<registered, made, machine, pc, handle, target, removed, raced, mixed>>

-----------------------------------------------------------------------------
(* CleaningTaskStatus.                                                     *)

Statuses ==
  {"PENDING", "ROUTING", "PREPROCESSING", "ELEMENT_PROCESSING", "CLEANING", "VALIDATING",
   "GENERATING_OUTPUT", "SUCCESS", "FAILED", "RETRYING"}

NextStates ==
  [s \in Statuses |->
     CASE s = "PENDING"            -> {"ROUTING"}
       [] s = "ROUTING"            -> {"PREPROCESSING", "FAILED"}
       [] s = "PREPROCESSING"      -> {"ELEMENT_PROCESSING", "CLEANING", "FAILED"}
       [] s = "ELEMENT_PROCESSING" -> {"CLEANING", "FAILED"}
       [] s = "CLEANING"           -> {"VALIDATING", "FAILED"}
       [] s = "VALIDATING"         -> {"GENERATING_OUTPUT", "FAILED"}
       [] s = "GENERATING_OUTPUT"  -> {"SUCCESS", "FAILED"}
       [] s = "SUCCESS"            -> {}
       [] s = "FAILED"             -> {"RETRYING"}
       [] s = "RETRYING"           -> {"ROUTING", "FAILED"}]

\* Wrong: a retry may go on where the pipeline failed.
CanResume(s, t) == t \in NextStates[s] \/ (s = "RETRYING" /\ t = "CLEANING")

CanTransitTo(s, t) == t \in NextStates[s]

-----------------------------------------------------------------------------
(* The factory.                                                            *)

NewMachine == [current |-> "PENDING", history |-> <<>>]

Init ==
  /\ registered = None /\ made = {}
  /\ machine = [m \in Machines |-> NewMachine]
  /\ pc = [t \in Threads |-> "idle"]
  /\ handle = [t \in Threads |-> None]
  /\ target = [t \in Threads |-> None]
  /\ removed = FALSE /\ raced = FALSE /\ mixed = {}

Goto(t, step) == pc' = [pc EXCEPT ![t] = step]

\* Wrong: create makes a machine without a look at what there is.
Always(m) == TRUE

\* The task is not entered yet.
Missing(m) == m = None

\* create looks for the task; what it finds it returns.
CreateFinds(t) ==
  /\ pc[t] = "idle" /\ ~Missing(registered)
  /\ handle' = [handle EXCEPT ![t] = registered]
  /\ UNCHANGED <<registered, made, machine, pc, target, removed, raced, mixed>>

CreateMisses(t) ==
  /\ pc[t] = "idle" /\ Missing(registered)
  /\ Cardinality({u \in Threads : pc[u] = "insert"}) < Cardinality(Machines \ made)
  /\ Goto(t, "insert")
  /\ raced' = (raced \/ \E u \in Threads : pc[u] = "insert")
  /\ UNCHANGED <<registered, made, machine, handle, target, removed, mixed>>

\* It makes a machine and enters it, over whatever is there by now.
CreateInserts(t) ==
  /\ pc[t] = "insert"
  /\ \E m \in Machines \ made :
       /\ made' = made \cup {m} /\ registered' = m
       /\ handle' = [handle EXCEPT ![t] = m]
  /\ Goto(t, "idle")
  /\ UNCHANGED <<machine, target, removed, raced, mixed>>

Get(t) ==
  /\ pc[t] = "idle"
  /\ handle' = [handle EXCEPT ![t] = registered]
  /\ UNCHANGED <<registered, made, machine, pc, target, removed, raced, mixed>>

RemoveTask(t) ==
  /\ pc[t] = "idle" /\ registered # None
  /\ registered' = None /\ removed' = TRUE
  /\ UNCHANGED <<made, machine, pc, handle, target, raced, mixed>>

-----------------------------------------------------------------------------
(* The machine.                                                            *)

\* Bounds: few transitions, and fewer once calls of transition overlapped.
FollowedOn ==
  MapThenSumSet(LAMBDA n : Len(machine[n].history), made) <
    IF mixed = {} THEN MaxTransitions ELSE MaxMixed

\* The threads between the check of a transition of m and the end of the call.
Within(m) == {u \in Threads : pc[u] \in {"set", "append"} /\ handle[u] = m}

\* transition, called by itself or by mark_failed and mark_retrying, finds that the status
\* may follow; a transition that is not allowed leaves the machine as it is.
Transition(t) ==
  /\ pc[t] = "idle" /\ handle[t] # None
  /\ \E s \in Statuses :
       /\ CanTransitTo(machine[handle[t]].current, s)
       /\ target' = [target EXCEPT ![t] = s]
  /\ FollowedOn
  /\ mixed' = mixed \cup {m \in {handle[t]} : Within(m) # {}}
  /\ Goto(t, "set")
  /\ UNCHANGED <<registered, made, machine, handle, removed, raced>>

\* It sets the status it found to be allowed, whatever the status is by now, and then
\* adds it to the history, whatever was added by then.
SetStatus(t) ==
  /\ pc[t] = "set"
  /\ machine' = [machine EXCEPT ![handle[t]].current = target[t]]
  /\ Goto(t, "append")
  /\ UNCHANGED <<registered, made, handle, target, removed, raced, mixed>>

\* Wrong: the status the machine has by now is added.
CurrentOf(t) == machine[handle[t]].current

\* The status the call was for is added.
EntryOf(t) == target[t]

AppendHistory(t) ==
  /\ pc[t] = "append"
  /\ machine' = [machine EXCEPT ![handle[t]].history = Append(@, EntryOf(t))]
  /\ Goto(t, "idle") /\ target' = [target EXCEPT ![t] = None]
  /\ UNCHANGED <<registered, made, handle, removed, raced, mixed>>

-----------------------------------------------------------------------------
Next ==
  \E t \in Threads :
    \/ CreateFinds(t) \/ CreateMisses(t) \/ CreateInserts(t) \/ Get(t) \/ RemoveTask(t)
    \/ Transition(t) \/ SetStatus(t) \/ AppendHistory(t)

Spec == Init /\ [][Next]_vars

=============================================================================

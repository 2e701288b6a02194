-------------------------- MODULE TaskMachinesProps --------------------------
(***************************************************************************)
(* What the state machines of tasks guarantee.                             *)
(***************************************************************************)
EXTENDS TaskMachines, SequencesExt

\* The runs of the pipeline that may end in success: elements may be skipped, nothing else.
WholeRuns ==
  {<<"ROUTING", "PREPROCESSING">> \o elements
     \o <<"CLEANING", "VALIDATING", "GENERATING_OUTPUT", "SUCCESS">> :
     elements \in {<<>>, <<"ELEMENT_PROCESSING">>}}

\* A task that succeeded went through a whole run since it was last routed, whatever failed
\* and was retried before: no stage of a failed attempt counts for a later one.  It is on
\* the record once the entry of SUCCESS is, while no two calls of transition overlapped.
SuccessAfterWholeRun ==
  \A m \in made \ mixed :
    machine[m].current = "SUCCESS" /\ Within(m) = {} =>
      \E run \in WholeRuns : IsSuffix(run, machine[m].history)

\* What the machine went through: its history, and what threads are about to add to it.
Passed(m) ==
  ToSet(machine[m].history) \cup {target[u] : u \in {v \in Within(m) : pc[v] = "append"}}

\* The stages no task may leave out.
NeededStages == {"ROUTING", "PREPROCESSING", "CLEANING", "VALIDATING", "GENERATING_OUTPUT"}

\* However the calls of transition overlap, so that a check is out of date when the status
\* is set and entries come in another order than the statuses: a machine is at SUCCESS only
\* if it was at every stage before, and none of these is lost from the record.
EveryStagePassed ==
  \A m \in made : machine[m].current = "SUCCESS" => NeededStages \subseteq Passed(m)

\* All that created or looked up the machine of a task have the same one, the registered
\* one, unless two creates overlapped or the task was removed; then some set the status of
\* a machine nobody else will see.
HandleIsRegistered ==
  ~raced /\ ~removed => \A t \in Threads : handle[t] \in {None, registered}

=============================================================================

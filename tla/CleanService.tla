---------------------------- MODULE CleanService ----------------------------
(***************************************************************************)
(* The synchronous Clean call of the gRPC service, many at a time: from    *)
(* the download through Pipeline.run to the two objects it leaves in       *)
(* MinIO.  The process may end at any step; objects stay.                  *)
(***************************************************************************)
EXTENDS ElementRegistry

CONSTANTS
  Task,       \* request -> its task id
  Doc,        \* request -> the document it is about
  MaxCrashes  \* bound

ASSUME ServiceAssumption ==
  /\ DOMAIN Task = Requests /\ DOMAIN Doc = Requests /\ MaxCrashes \in Nat

VARIABLES
  machines,   \* tasks with an entry in TaskStateMachineFactory
  markdown,   \* document -> the request whose Markdown is stored
  metadata,   \* document -> the request whose metadata is stored
  crashes,
  overlaps    \* documents two requests were storing at the same time

objects == <<markdown, metadata, overlaps>>
vars == <<shared, local, pc, machines, objects, crashes>>

Docs == {Doc[r] : r \in Requests}

\* "partial": a put raised.  "dead": the process ended under the request.
Final == {"success", "failed", "partial", "dead"}

Init ==
  /\ InitRegistry /\ InitLocal /\ pc = [r \in Requests |-> "new"]
  /\ machines = {} /\ crashes = 0 /\ overlaps = {}
  /\ markdown = [d \in Docs |-> None] /\ metadata = [d \in Docs |-> None]

-----------------------------------------------------------------------------
\* Clean up to the first stage: the state machine entry, the download, the
\* preprocessor; the last two may raise.
Accept(r) ==
  /\ Go(r, "new", "check") \/ Go(r, "new", "failed")
  /\ machines' = machines \cup {Task[r]}
  /\ UNCHANGED <<shared, local, objects, crashes>>

\* All elements done: cleaning, validation, Markdown and metadata, in memory.
Finish(r) ==
  /\ pc[r] = "lookup" /\ idx[r] > Len(Elements[r])
  /\ Go(r, "lookup", "markdown") \/ Go(r, "lookup", "failed")
  /\ UNCHANGED <<shared, local, machines, objects, crashes>>

\* Wrong: the answer is sent once the Markdown is stored.
AnswerEarly == "success"

AfterMarkdown == "metadata"

\* put_cleaned_markdown; it may raise, whether or not the object was written.
PutMarkdown(r) ==
  /\ \/ /\ Go(r, "markdown", AfterMarkdown)
        /\ markdown' = [markdown EXCEPT ![Doc[r]] = r]
     \/ /\ Go(r, "markdown", "partial")
        /\ markdown' \in {markdown, [markdown EXCEPT ![Doc[r]] = r]}
  /\ overlaps' = overlaps \cup {d \in {Doc[r]} : \E q \in Requests :
                                  pc[q] = "metadata" /\ Doc[q] = d}
  /\ UNCHANGED <<shared, local, machines, metadata, crashes>>

\* put_metadata_json, and the answer.
PutMetadata(r) ==
  /\ \/ /\ Go(r, "metadata", "success")
        /\ metadata' = [metadata EXCEPT ![Doc[r]] = r]
     \/ /\ Go(r, "metadata", "partial")
        /\ metadata' \in {metadata, [metadata EXCEPT ![Doc[r]] = r]}
  /\ UNCHANGED <<shared, local, machines, markdown, overlaps, crashes>>

\* The process ends and a new one starts.
Crash ==
  /\ crashes < MaxCrashes /\ crashes' = crashes + 1
  /\ pc' = [r \in Requests |->
              IF pc[r] \in Final \cup {"new"} THEN pc[r] ELSE "dead"]
  /\ registry' = None /\ procs' = [g \in Requests |-> NoProcessors]
  /\ seen' = <<>> /\ loaded' = {} /\ importer' = [k \in Kinds |-> None]
  /\ machines' = {}
  /\ UNCHANGED <<local, objects>>

-----------------------------------------------------------------------------
Serve(r) ==
  \/ /\ Registering(r) \/ Processing(r)
     /\ UNCHANGED <<machines, objects, crashes>>
  \/ Finish(r) \/ PutMarkdown(r) \/ PutMetadata(r)

Next == Crash \/ \E r \in Requests : Accept(r) \/ Serve(r)

Spec == Init /\ [][Next]_vars

\* Each request has a thread of the pool, which keeps running.
Fairness == \A r \in Requests : WF_vars(Serve(r))

FairSpec == Spec /\ Fairness

=============================================================================

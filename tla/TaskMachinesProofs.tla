-------------------------- MODULE TaskMachinesProofs --------------------------
(***************************************************************************)
(* One machine per task, and no success without the stages before it, for  *)
(* any number of threads and machines.                                     *)
(***************************************************************************)
EXTENDS TaskMachinesProps, SequenceTheorems, TLAPS

\* The domains of what create changes.
Typed ==
  /\ pc \in [Threads -> {"idle", "insert", "set", "append"}]
  /\ DOMAIN handle = Threads
  /\ raced \in BOOLEAN /\ removed \in BOOLEAN

\* While a thread is about to insert, nothing is registered, and it is the only one.
OneInserts ==
  \A t \in Threads : pc[t] = "insert" =>
    registered = None /\ \A u \in Threads : pc[u] = "insert" => t = u

IInv == Typed /\ (~raced /\ ~removed => OneInserts /\ HandleIsRegistered)

LEMMA InitIInv == Init => IInv
  BY DEF Init, IInv, Typed, OneInserts, HandleIsRegistered

\* create, in its steps.
LEMMA CreateIInv ==
  ASSUME IInv, NEW t \in Threads, CreateFinds(t) \/ CreateMisses(t) \/ CreateInserts(t)
  PROVE  IInv'
  <1> USE DEF IInv, Typed, OneInserts, HandleIsRegistered
  <1>1. CASE CreateFinds(t)
    BY <1>1 DEF CreateFinds
  <1>2. CASE CreateMisses(t)
    <2>1. /\ registered = None /\ UNCHANGED <<registered, handle, removed>>
          /\ pc' = [pc EXCEPT ![t] = "insert"]
          /\ raced' = (raced \/ \E u \in Threads : pc[u] = "insert")
      BY <1>2 DEF CreateMisses, Missing, Goto
    <2>2. ~raced' => \A u \in Threads : pc'[u] = "insert" => u = t
      BY <2>1
    <2> QED BY <2>1, <2>2
  <1>3. CASE CreateInserts(t)
    <2>1. PICK m \in Machines \ made : registered' = m /\ handle' = [handle EXCEPT ![t] = m]
      BY <1>3 DEF CreateInserts
    <2>2. /\ pc[t] = "insert" /\ pc' = [pc EXCEPT ![t] = "idle"]
          /\ UNCHANGED <<raced, removed>>
      BY <1>3 DEF CreateInserts, Goto
    <2>3. ~raced /\ ~removed => \A u \in Threads : handle[u] = None /\ pc'[u] # "insert"
      BY <2>2
    <2> QED BY <2>1, <2>2, <2>3
  <1> QED BY <1>1, <1>2, <1>3

\* get and remove.
LEMMA GetRemoveIInv ==
  ASSUME IInv, NEW t \in Threads, Get(t) \/ RemoveTask(t)
  PROVE  IInv'
  BY DEF IInv, Typed, OneInserts, HandleIsRegistered, Get, RemoveTask

\* What machines do has nothing to do with who has them.
LEMMA MachineIInv ==
  ASSUME IInv, NEW t \in Threads, Transition(t) \/ SetStatus(t) \/ AppendHistory(t)
  PROVE  IInv'
  BY DEF IInv, Typed, OneInserts, HandleIsRegistered, Transition, SetStatus, AppendHistory, Goto

LEMMA NextIInv == IInv /\ [Next]_vars => IInv'
  <1> SUFFICES ASSUME IInv, [Next]_vars PROVE IInv'
    OBVIOUS
  <1>1. CASE Next
    BY <1>1, CreateIInv, GetRemoveIInv, MachineIInv DEF Next
  <1>2. CASE UNCHANGED vars
    BY <1>2 DEF vars, IInv, Typed, OneInserts, HandleIsRegistered
  <1> QED BY <1>1, <1>2

\* Whatever number of threads asks the factory, they get one machine for the task while no
\* two creates overlap and nobody removes it.
THEOREM OneMachine == Spec => []HandleIsRegistered
  <1>1. IInv /\ ~raced /\ ~removed => HandleIsRegistered
    BY DEF IInv
  <1>2. IInv => HandleIsRegistered
    BY <1>1 DEF HandleIsRegistered
  <1> QED BY <1>2, InitIInv, NextIInv, PTL DEF Spec

-----------------------------------------------------------------------------
(* The way to success.                                                     *)

\* What a machine may have gone through since it was last routed, by its status: the
\* stages of a whole run up to there, and nothing when it waits to be routed.
Routed       == <<"ROUTING">>
Preprocessed == Append(Routed, "PREPROCESSING")
WithElements == Append(Preprocessed, "ELEMENT_PROCESSING")
Cleaned      == {Append(run, "CLEANING") : run \in {Preprocessed, WithElements}}
Validated    == {Append(run, "VALIDATING") : run \in Cleaned}
Generated    == {Append(run, "GENERATING_OUTPUT") : run \in Validated}
Succeeded    == {Append(run, "SUCCESS") : run \in Generated}

RunsTo(s) ==
  CASE s = "ROUTING"            -> {Routed}
    [] s = "PREPROCESSING"      -> {Preprocessed}
    [] s = "ELEMENT_PROCESSING" -> {WithElements}
    [] s = "CLEANING"           -> Cleaned
    [] s = "VALIDATING"         -> Validated
    [] s = "GENERATING_OUTPUT"  -> Generated
    [] s = "SUCCESS"            -> Succeeded
    [] OTHER                    -> {<<>>}

\* The last elements of h are those of run.
Ends(h, run) ==
  /\ Len(run) <= Len(h)
  /\ \A i \in 1 .. Len(run) : h[Len(h) - Len(run) + i] = run[i]

MachinesTyped ==
  /\ made \subseteq Machines /\ registered \in made \cup {None}
  /\ machine \in [Machines -> [current : Statuses, history : Seq(Statuses)]]
  /\ \A m \in Machines \ made : machine[m] = NewMachine
  /\ pc \in [Threads -> {"idle", "insert", "set", "append"}]
  /\ handle \in [Threads -> made \cup {None}]
  /\ target \in [Threads -> Statuses \cup {None}]

\* A call of transition has a machine that was made and a status it found to be allowed.
CallsTyped ==
  \A t \in Threads : pc[t] \in {"set", "append"} => handle[t] \in made /\ target[t] \in Statuses

\* Unless the calls overlapped, a machine has one call at a time; the status it is about to
\* set may still follow, and the status it did set is the current one.
CallsAlone ==
  \A t \in Threads : pc[t] \in {"set", "append"} /\ handle[t] \notin mixed =>
    /\ \A u \in Within(handle[t]) : u = t
    /\ pc[t] = "set" => target[t] \in NextStates[machine[handle[t]].current]
    /\ pc[t] = "append" => target[t] = machine[handle[t]].current

\* The history with what a thread is about to add to it.
Records(m) ==
  {Append(machine[m].history, target[u]) : u \in {v \in Within(m) : pc[v] = "append"}}
    \cup {h \in {machine[m].history} : \A v \in Within(m) : pc[v] # "append"}

\* Every machine has on its record the run that leads to where it is.
RunsRecorded ==
  \A m \in Machines \ mixed : \A h \in Records(m) :
    \E run \in RunsTo(machine[m].current) : Ends(h, run)

RunInv == MachinesTyped /\ CallsTyped /\ CallsAlone /\ RunsRecorded

\* A run that is on the record stays there with what is appended to both.
LEMMA EndsAppend ==
  ASSUME NEW h \in Seq(Statuses), NEW run \in Seq(Statuses), NEW s \in Statuses, Ends(h, run)
  PROVE  Ends(Append(h, s), Append(run, s))
  <1>1. /\ Len(h) \in Nat /\ Len(run) \in Nat /\ Len(run) <= Len(h)
        /\ Len(Append(h, s)) = Len(h) + 1 /\ Len(Append(run, s)) = Len(run) + 1
    BY DEF Ends
  <1>2. ASSUME NEW i \in 1 .. Len(run) + 1
        PROVE  Append(h, s)[Len(h) - Len(run) + i] = Append(run, s)[i]
    <2>1. CASE i = Len(run) + 1
      BY <1>1, <2>1
    <2>2. CASE i # Len(run) + 1
      <3>1. /\ i \in 1 .. Len(run) /\ Len(h) - Len(run) + i \in 1 .. Len(h)
            /\ h[Len(h) - Len(run) + i] = run[i]
        BY <1>1, <2>2 DEF Ends
      <3> QED BY <3>1
    <2> QED BY <2>1, <2>2
  <1>3. Len(Append(h, s)) - Len(Append(run, s)) = Len(h) - Len(run)
    BY <1>1
  <1>4. \A i \in 1 .. Len(Append(run, s)) :
          Append(h, s)[Len(Append(h, s)) - Len(Append(run, s)) + i] = Append(run, s)[i]
    BY <1>1, <1>2, <1>3
  <1> QED BY <1>1, <1>4 DEF Ends

\* What Ends says of the indices is IsSuffix.
LEMMA EndsIsSuffix ==
  ASSUME NEW h \in Seq(Statuses), NEW run \in Seq(Statuses), Ends(h, run)
  PROVE  IsSuffix(run, h)
  <1> DEFINE back(s) == [i \in 1 .. Len(s) |-> s[Len(s) - i + 1]]
  <1>1. Len(h) \in Nat /\ Len(run) \in Nat /\ Len(run) <= Len(h)
    BY DEF Ends
  <1>2. /\ back(run) \in Seq(Statuses) /\ Len(back(run)) = Len(run)
        /\ back(h) \in Seq(Statuses) /\ Len(back(h)) = Len(h)
    BY <1>1
  <1>3. ASSUME NEW i \in 1 .. Len(run)
        PROVE  back(run)[i] = back(h)[i]
    <2>1. /\ Len(run) - i + 1 \in 1 .. Len(run) /\ i \in 1 .. Len(h)
          /\ Len(h) - Len(run) + (Len(run) - i + 1) = Len(h) - i + 1
      BY <1>1
    <2>2. h[Len(h) - i + 1] = run[Len(run) - i + 1]
      BY <2>1 DEF Ends
    <2> QED BY <2>1, <2>2
  <1> HIDE DEF back
  <1>4. SubSeq(back(run), 1, Len(run)) = SubSeq(back(h), 1, Len(run))
    BY <1>1, <1>2, <1>3
  <1>5. Reverse(run) = back(run) /\ Reverse(h) = back(h)
    BY <1>1 DEF Reverse, back
  <1> QED BY <1>1, <1>2, <1>4, <1>5 DEF IsSuffix, IsPrefix

LEMMA RunsAreSequences ==
  ASSUME NEW s \in Statuses, NEW run \in RunsTo(s)
  PROVE  run \in Seq(Statuses)
  <1>1. /\ Routed \in Seq(Statuses) /\ <<>> \in Seq(Statuses)
        /\ "PREPROCESSING" \in Statuses /\ "ELEMENT_PROCESSING" \in Statuses
        /\ "CLEANING" \in Statuses /\ "VALIDATING" \in Statuses
        /\ "GENERATING_OUTPUT" \in Statuses /\ "SUCCESS" \in Statuses
    BY DEF Routed, Statuses
  <1>2. Preprocessed \in Seq(Statuses) /\ WithElements \in Seq(Statuses)
    BY <1>1 DEF Preprocessed, WithElements
  <1>3. Cleaned \subseteq Seq(Statuses)
    <2>1. \A r \in Seq(Statuses), t \in Statuses : Append(r, t) \in Seq(Statuses)
      BY AppendProperties
    <2> QED BY <1>1, <1>2, <2>1, Zenon DEF Cleaned
  <1>4. Validated \subseteq Seq(Statuses)
    BY <1>1, <1>3 DEF Validated
  <1>5. Generated \subseteq Seq(Statuses)
    BY <1>1, <1>4 DEF Generated
  <1>6. Succeeded \subseteq Seq(Statuses)
    BY <1>1, <1>5 DEF Succeeded
  <1> QED BY <1>1, <1>2, <1>3, <1>4, <1>5, <1>6 DEF RunsTo

\* A status that may follow continues a run, or starts anew.
LEMMA RunsContinue ==
  ASSUME NEW s \in Statuses, NEW t \in NextStates[s], NEW run \in RunsTo(s)
  PROVE  t \in Statuses /\ (Append(run, t) \in RunsTo(t) \/ <<>> \in RunsTo(t))
  <1>1. t \in Statuses
    BY DEF NextStates, Statuses
  <1>2. CASE t \in {"FAILED", "RETRYING"}
    BY <1>1, <1>2 DEF RunsTo
  <1>3. CASE t = "ROUTING"
    <2>1. s \in {"PENDING", "RETRYING"}
      BY <1>3 DEF NextStates, Statuses
    <2>2. run = <<>>
      BY <2>1 DEF RunsTo
    <2>3. Append(<<>>, "ROUTING") = <<"ROUTING">>
      OBVIOUS
    <2> QED BY <1>1, <1>3, <2>2, <2>3 DEF RunsTo, Routed
  <1>4. CASE t \in {"PREPROCESSING", "ELEMENT_PROCESSING"}
    BY <1>4 DEF NextStates, Statuses, RunsTo, Preprocessed, WithElements
  <1>5. CASE t = "CLEANING"
    BY <1>5 DEF NextStates, Statuses, RunsTo, Cleaned
  <1>6. CASE t = "VALIDATING"
    BY <1>6 DEF NextStates, Statuses, RunsTo, Validated
  <1>7. CASE t = "GENERATING_OUTPUT"
    BY <1>7 DEF NextStates, Statuses, RunsTo, Generated
  <1>8. CASE t = "SUCCESS"
    BY <1>8 DEF NextStates, Statuses, RunsTo, Succeeded
  <1>9. t # "PENDING"
    BY DEF NextStates, Statuses
  <1> QED
    BY <1>1, <1>2, <1>3, <1>4, <1>5, <1>6, <1>7, <1>8, <1>9 DEF Statuses

\* Appending one after the other is appending the sequence of them.
LEMMA AppendFour ==
  ASSUME NEW S, NEW s \in Seq(S), NEW a \in S, NEW b \in S, NEW c \in S, NEW d \in S
  PROVE  Append(Append(Append(Append(s, a), b), c), d) = s \o <<a, b, c, d>>
  <1> DEFINE four == <<a, b, c, d>>
             x == Append(s, a)  y == Append(x, b)  z == Append(y, c)  w == Append(z, d)
  <1>1. Len(s) \in Nat /\ four \in Seq(S) /\ Len(four) = 4
    OBVIOUS
  <1>2. /\ x \in Seq(S) /\ Len(x) = Len(s) + 1 /\ x[Len(s) + 1] = a
        /\ \A i \in 1 .. Len(s) : x[i] = s[i]
    OBVIOUS
  <1> HIDE DEF x
  <1>3. /\ y \in Seq(S) /\ Len(y) = Len(s) + 2 /\ y[Len(s) + 2] = b
        /\ \A i \in 1 .. Len(s) + 1 : y[i] = x[i]
    BY <1>1, <1>2
  <1> HIDE DEF y
  <1>4. /\ z \in Seq(S) /\ Len(z) = Len(s) + 3 /\ z[Len(s) + 3] = c
        /\ \A i \in 1 .. Len(s) + 2 : z[i] = y[i]
    BY <1>1, <1>3
  <1> HIDE DEF z
  <1>5. /\ w \in Seq(S) /\ Len(w) = Len(s) + 4 /\ w[Len(s) + 4] = d
        /\ \A i \in 1 .. Len(s) + 3 : w[i] = z[i]
    BY <1>1, <1>4
  <1>6. /\ s \o four \in Seq(S) /\ Len(s \o four) = Len(s) + 4
        /\ \A i \in 1 .. Len(s) + 4 :
             (s \o four)[i] = IF i <= Len(s) THEN s[i] ELSE four[i - Len(s)]
    BY <1>1
  <1>7. ASSUME NEW i \in 1 .. Len(s) + 4
        PROVE  w[i] = (s \o four)[i]
    <2>1. CASE i <= Len(s)
      <3>1. /\ i \in 1 .. Len(s) /\ i \in 1 .. Len(s) + 1 /\ i \in 1 .. Len(s) + 2
            /\ i \in 1 .. Len(s) + 3
        BY <1>1, <2>1
      <3> QED BY <1>2, <1>3, <1>4, <1>5, <1>6, <2>1, <3>1
    <2>2. CASE ~(i <= Len(s))
      <3>1. i \in {Len(s) + 1, Len(s) + 2, Len(s) + 3, Len(s) + 4}
        BY <1>1, <2>2
      <3> QED BY <1>1, <1>2, <1>3, <1>4, <1>5, <1>6, <2>2, <3>1
    <2> QED BY <2>1, <2>2
  <1>8. w = s \o four
    BY <1>5, <1>6, <1>7, SeqEqual
  <1> QED BY <1>8 DEF x, y, z

\* The runs that end in success are the whole runs.
LEMMA RunsToSuccess == RunsTo("SUCCESS") \subseteq WholeRuns
  <1> DEFINE front == <<"ROUTING", "PREPROCESSING">>
             back  == <<"CLEANING", "VALIDATING", "GENERATING_OUTPUT", "SUCCESS">>
  <1>1. Preprocessed = front
    <2>1. /\ Routed \in Seq(Statuses) /\ front \in Seq(Statuses)
          /\ Len(Routed) = 1 /\ Len(front) = 2
          /\ Routed[1] = "ROUTING" /\ "PREPROCESSING" \in Statuses
      BY DEF Routed, Statuses
    <2>2. /\ Preprocessed \in Seq(Statuses) /\ Len(Preprocessed) = 2
          /\ Preprocessed[1] = Routed[1] /\ Preprocessed[2] = "PREPROCESSING"
      <3>1. /\ Len(Preprocessed) = Len(Routed) + 1
            /\ Preprocessed[Len(Routed) + 1] = "PREPROCESSING"
            /\ \A i \in 1 .. Len(Routed) : Preprocessed[i] = Routed[i]
            /\ Preprocessed \in Seq(Statuses)
        <4>1. \A t \in Statuses :
                /\ Len(Append(Routed, t)) = Len(Routed) + 1
                /\ Append(Routed, t)[Len(Routed) + 1] = t
                /\ \A i \in 1 .. Len(Routed) : Append(Routed, t)[i] = Routed[i]
                /\ Append(Routed, t) \in Seq(Statuses)
          <5>1. Routed \in Seq(Statuses)
            BY <2>1
          <5> QED BY ONLY <5>1, AppendProperties
        <4> QED BY <2>1, <4>1, Zenon DEF Preprocessed
      <3> QED BY <2>1, <3>1
    <2>3. \A i \in 1 .. 2 : Preprocessed[i] = front[i]
      BY <2>1, <2>2
    <2> QED BY <2>1, <2>2, <2>3, SeqEqual
  <1>2. /\ front \in Seq(Statuses) /\ <<"ELEMENT_PROCESSING">> \in Seq(Statuses)
        /\ "ELEMENT_PROCESSING" \in Statuses /\ "CLEANING" \in Statuses
        /\ "VALIDATING" \in Statuses /\ "GENERATING_OUTPUT" \in Statuses
        /\ "SUCCESS" \in Statuses
    BY DEF Statuses
  <1> HIDE DEF front
  <1>3. /\ Preprocessed = front \o <<>> /\ WithElements = front \o <<"ELEMENT_PROCESSING">>
        /\ Preprocessed \in Seq(Statuses) /\ WithElements \in Seq(Statuses)
    BY <1>1, <1>2 DEF WithElements
  <1>4. Succeeded = {Append(Append(Append(Append(run, "CLEANING"), "VALIDATING"),
                                   "GENERATING_OUTPUT"), "SUCCESS") :
                       run \in {Preprocessed, WithElements}}
    BY DEF Succeeded, Generated, Validated, Cleaned
  <1>5. Succeeded = {Preprocessed \o back, WithElements \o back}
    <2>1. \A run \in {Preprocessed, WithElements} :
            Append(Append(Append(Append(run, "CLEANING"), "VALIDATING"),
                          "GENERATING_OUTPUT"), "SUCCESS") = run \o back
      BY <1>2, <1>3, AppendFour
    <2> HIDE DEF back
    <2> QED BY <1>4, <2>1
  <1> QED BY <1>3, <1>5 DEF WholeRuns, RunsTo, front

LEMMA InitRunInv == Init => RunInv
  <1> SUFFICES ASSUME Init PROVE RunInv
    OBVIOUS
  <1>1. MachinesTyped
    BY DEF Init, MachinesTyped, NewMachine, Statuses
  <1>2. CallsTyped /\ CallsAlone
    BY DEF Init, CallsTyped, CallsAlone
  <1>3. RunsRecorded
    <2>1. \A m \in Machines : Records(m) = {<<>>} /\ machine[m].current = "PENDING"
      BY DEF Init, Records, Within, NewMachine
    <2> QED BY <2>1 DEF RunsRecorded, RunsTo, Ends
  <1> QED BY <1>1, <1>2, <1>3 DEF RunInv

\* The factory hands out machines and leaves them and the calls on them as they are.
LEMMA FactoryRunInv ==
  ASSUME RunInv, NEW t \in Threads,
         \/ CreateFinds(t) \/ CreateMisses(t) \/ CreateInserts(t) \/ Get(t) \/ RemoveTask(t)
  PROVE  RunInv'
  <1>1. UNCHANGED <<machine, target, mixed>> /\ pc[t] \notin {"set", "append"}
    BY DEF CreateFinds, CreateMisses, CreateInserts, Get, RemoveTask
  <1>2. \A u \in Threads :
          IF u = t THEN pc'[u] \notin {"set", "append"}
          ELSE pc'[u] = pc[u] /\ handle'[u] = handle[u]
    BY <1>1 DEF RunInv, MachinesTyped, CreateFinds, CreateMisses, CreateInserts, Get,
       RemoveTask, Goto
  <1>3. made \subseteq made'
    BY DEF CreateFinds, CreateMisses, CreateInserts, Get, RemoveTask
  <1>4. MachinesTyped'
    BY DEF RunInv, MachinesTyped, CreateFinds, CreateMisses, CreateInserts, Get,
       RemoveTask, Goto
  <1>5. \A m : /\ Within(m)' = Within(m)
               /\ \A u \in Within(m) : pc'[u] = pc[u] /\ handle'[u] = handle[u]
    BY <1>1, <1>2 DEF Within
  <1>6. CallsTyped'
    BY <1>1, <1>2, <1>3 DEF RunInv, CallsTyped
  <1>7. CallsAlone'
    <2> SUFFICES ASSUME NEW u \in Threads, pc'[u] \in {"set", "append"}, handle'[u] \notin mixed
                 PROVE  /\ \A v \in Within(handle[u]) : v = u
                        /\ pc[u] = "set" => target[u] \in NextStates[machine[handle[u]].current]
                        /\ pc[u] = "append" => target[u] = machine[handle[u]].current
                        /\ pc'[u] = pc[u] /\ handle'[u] = handle[u]
      BY <1>1, <1>5 DEF CallsAlone
    <2> QED BY <1>1, <1>2 DEF RunInv, CallsAlone
  <1>8. RunsRecorded'
    <2>1. \A m : Records(m)' = Records(m)
      BY <1>1, <1>5 DEF Records
    <2> QED BY <1>1, <2>1 DEF RunInv, RunsRecorded
  <1> QED BY <1>4, <1>6, <1>7, <1>8 DEF RunInv

\* A transition that is allowed when it is checked; from here on the machine is mixed up
\* if another call is under way.
LEMMA TransitionRunInv ==
  ASSUME RunInv, NEW t \in Threads, Transition(t)
  PROVE  RunInv'
  <1> DEFINE m == handle[t]
  <1>1. PICK s \in Statuses : /\ CanTransitTo(machine[m].current, s)
                              /\ target' = [target EXCEPT ![t] = s]
    BY DEF Transition
  <1>2. /\ UNCHANGED <<registered, made, machine, handle>>
        /\ pc[t] = "idle" /\ pc' = [pc EXCEPT ![t] = "set"] /\ m # None
        /\ mixed' = mixed \cup {n \in {m} : Within(n) # {}}
    BY DEF Transition, Goto
  <1>3. MachinesTyped' /\ m \in made
    BY <1>1, <1>2 DEF RunInv, MachinesTyped
  <1>4. /\ pc'[t] = "set" /\ target'[t] = s
        /\ \A u \in Threads \ {t} : pc'[u] = pc[u] /\ target'[u] = target[u]
    BY <1>1, <1>2 DEF RunInv, MachinesTyped
  <1>5. \A n : Within(n)' = IF n = m THEN Within(n) \cup {t} ELSE Within(n)
    BY <1>2, <1>4 DEF Within
  <1>6. CallsTyped'
    BY <1>2, <1>3, <1>4 DEF RunInv, CallsTyped
  <1>7. CallsAlone'
    <2> SUFFICES ASSUME NEW u \in Threads, pc'[u] \in {"set", "append"}, handle[u] \notin mixed'
                 PROVE  /\ \A v \in Within(handle[u])' : v = u
                        /\ pc'[u] = "set" => target'[u] \in NextStates[machine[handle[u]].current]
                        /\ pc'[u] = "append" => target'[u] = machine[handle[u]].current
      BY <1>2 DEF CallsAlone
    <2>1. CASE u = t
      BY <1>1, <1>2, <1>4, <1>5, <2>1 DEF CanTransitTo
    <2>2. CASE u # t
      <3>1. /\ pc[u] \in {"set", "append"} /\ pc'[u] = pc[u] /\ target'[u] = target[u]
            /\ handle[u] \notin mixed /\ u \in Within(handle[u])
        BY <1>2, <1>4, <2>2 DEF Within
      <3>2. handle[u] # m
        BY <1>2, <3>1
      <3>3. Within(handle[u])' = Within(handle[u])
        BY <1>2, <1>5, <3>2
      <3> QED BY <1>2, <3>1, <3>3 DEF RunInv, CallsAlone
    <2> QED BY <2>1, <2>2
  <1>8. RunsRecorded'
    <2>1. \A n : Records(n)' = Records(n)
      <3> SUFFICES ASSUME NEW n PROVE Records(n)' = Records(n)
        OBVIOUS
      <3>1. \A v : v \in Within(n)' /\ pc'[v] = "append" <=> v \in Within(n) /\ pc[v] = "append"
        BY <1>2, <1>4, <1>5 DEF Within
      <3>2. \A v \in Within(n) : pc[v] = "append" => target'[v] = target[v]
        BY <1>2, <1>4 DEF Within
      <3> QED BY <1>2, <3>1, <3>2 DEF Records
    <2> QED BY <1>2, <2>1 DEF RunInv, RunsRecorded
  <1> QED BY <1>3, <1>6, <1>7, <1>8 DEF RunInv

\* Setting the status continues the run on the record, with the entry that is to follow.
LEMMA SetRunInv ==
  ASSUME RunInv, NEW t \in Threads, SetStatus(t)
  PROVE  RunInv'
  <1> DEFINE m == handle[t]  s == target[t]
  <1>1. /\ pc[t] = "set" /\ pc' = [pc EXCEPT ![t] = "append"]
        /\ machine' = [machine EXCEPT ![m].current = s]
        /\ UNCHANGED <<registered, made, handle, target, mixed>>
    BY DEF SetStatus, Goto
  <1>2. m \in made /\ m \in Machines /\ s \in Statuses
    BY <1>1 DEF RunInv, MachinesTyped, CallsTyped
  <1>3. /\ machine[m] \in [current : Statuses, history : Seq(Statuses)]
        /\ machine'[m] = [current |-> s, history |-> machine[m].history]
        /\ \A n \in Machines \ {m} : machine'[n] = machine[n]
    BY <1>1, <1>2 DEF RunInv, MachinesTyped
  <1>4. MachinesTyped'
    <2>1. machine' \in [Machines -> [current : Statuses, history : Seq(Statuses)]]
      BY <1>1, <1>2, <1>3 DEF RunInv, MachinesTyped
    <2> QED BY <1>1, <1>2, <1>3, <2>1 DEF RunInv, MachinesTyped
  <1>5. /\ pc'[t] = "append" /\ \A u \in Threads \ {t} : pc'[u] = pc[u]
        /\ \A n : Within(n)' = Within(n)
    BY <1>1 DEF RunInv, MachinesTyped, Within
  <1>6. CallsTyped'
    BY <1>1, <1>5 DEF RunInv, CallsTyped
  <1>7. CallsAlone'
    <2> SUFFICES ASSUME NEW u \in Threads, pc'[u] \in {"set", "append"}, handle[u] \notin mixed
                 PROVE  /\ \A v \in Within(handle[u]) : v = u
                        /\ pc'[u] = "set" => s # s \/ target[u] \in NextStates[machine'[handle[u]].current]
                        /\ pc'[u] = "append" => target[u] = machine'[handle[u]].current
      BY <1>1, <1>5 DEF CallsAlone
    <2>1. CASE u = t
      <3>1. \A v \in Within(m) : v = t
        BY <1>1, <2>1 DEF RunInv, CallsAlone
      <3> QED BY <1>3, <1>5, <2>1, <3>1
    <2>2. CASE u # t
      <3>1. /\ pc[u] \in {"set", "append"} /\ pc'[u] = pc[u] /\ handle[u] \in Machines
            /\ \A v \in Within(handle[u]) : v = u
            /\ pc[u] = "set" => target[u] \in NextStates[machine[handle[u]].current]
            /\ pc[u] = "append" => target[u] = machine[handle[u]].current
        BY <1>1, <1>5, <2>2 DEF RunInv, MachinesTyped, CallsTyped, CallsAlone
      <3>2. handle[u] # m
        BY <1>1, <2>2, <3>1 DEF Within
      <3> QED BY <1>3, <3>1, <3>2
    <2> QED BY <2>1, <2>2
  <1>8. RunsRecorded'
    <2> SUFFICES ASSUME NEW n \in Machines, n \notin mixed, NEW h \in Records(n)'
                 PROVE  \E run \in RunsTo(machine'[n].current) : Ends(h, run)
      BY <1>1 DEF RunsRecorded
    <2>1. CASE n # m
      <3>1. \A v \in Within(n) : v # t
        BY <2>1 DEF Within
      <3>2. Records(n)' = Records(n)
        BY <1>1, <1>3, <1>5, <2>1, <3>1 DEF Records, Within
      <3> QED BY <1>3, <2>1, <3>2 DEF RunInv, RunsRecorded
    <2>2. CASE n = m
      <3>1. /\ s \in NextStates[machine[m].current] /\ t \in Within(m)
            /\ \A v \in Within(m) : v = t
        BY <1>1, <2>2 DEF RunInv, CallsAlone, Within
      <3>2. machine[m].history \in Records(m)
        BY <1>1, <3>1 DEF Records
      <3>3. h = Append(machine[m].history, s)
        BY <1>1, <1>3, <1>5, <2>2, <3>1 DEF Records
      <3>4. PICK run \in RunsTo(machine[m].current) : Ends(machine[m].history, run)
        BY <2>2, <3>2 DEF RunInv, RunsRecorded
      <3>5. run \in Seq(Statuses) /\ Ends(h, Append(run, s))
        BY <1>2, <1>3, <3>3, <3>4, RunsAreSequences, EndsAppend
      <3>6. Append(run, s) \in RunsTo(s) \/ <<>> \in RunsTo(s)
        BY <1>3, <3>1, <3>4, RunsContinue
      <3>7. Ends(h, <<>>)
        BY <1>2, <1>3, <3>3 DEF Ends
      <3> QED BY <1>3, <2>2, <3>5, <3>6, <3>7
    <2> QED BY <2>1, <2>2
  <1> QED BY <1>4, <1>6, <1>7, <1>8 DEF RunInv

\* Adding the entry makes the record what it was to be.
LEMMA AppendRunInv ==
  ASSUME RunInv, NEW t \in Threads, AppendHistory(t)
  PROVE  RunInv'
  <1> DEFINE m == handle[t]  s == target[t]
  <1>1. /\ pc[t] = "append" /\ pc' = [pc EXCEPT ![t] = "idle"]
        /\ machine' = [machine EXCEPT ![m].history = Append(@, s)]
        /\ target' = [target EXCEPT ![t] = None]
        /\ UNCHANGED <<registered, made, handle, mixed>>
    BY DEF AppendHistory, EntryOf, Goto
  <1>2. m \in made /\ m \in Machines /\ s \in Statuses
    BY <1>1 DEF RunInv, MachinesTyped, CallsTyped
  <1>3. /\ machine[m] \in [current : Statuses, history : Seq(Statuses)]
        /\ machine'[m] = [current |-> machine[m].current,
                          history |-> Append(machine[m].history, s)]
        /\ \A n \in Machines \ {m} : machine'[n] = machine[n]
    BY <1>1, <1>2 DEF RunInv, MachinesTyped
  <1>4. MachinesTyped'
    <2>1. /\ Append(machine[m].history, s) \in Seq(Statuses)
          /\ machine'[m] \in [current : Statuses, history : Seq(Statuses)]
      BY <1>2, <1>3
    <2>2. machine' \in [Machines -> [current : Statuses, history : Seq(Statuses)]]
      BY <1>1, <1>3, <2>1 DEF RunInv, MachinesTyped
    <2> QED BY <1>1, <1>2, <1>3, <2>2 DEF RunInv, MachinesTyped
  <1>5. /\ pc'[t] = "idle"
        /\ \A u \in Threads \ {t} : pc'[u] = pc[u] /\ target'[u] = target[u]
        /\ \A n : Within(n)' = Within(n) \ {t}
    <2>1. /\ pc'[t] = "idle"
          /\ \A u \in Threads \ {t} : pc'[u] = pc[u] /\ target'[u] = target[u]
      BY <1>1 DEF RunInv, MachinesTyped
    <2> QED BY <1>1, <2>1 DEF Within
  <1>6. CallsTyped'
    BY <1>1, <1>5 DEF RunInv, CallsTyped
  <1>7. \A n \in Machines : machine'[n].current = machine[n].current
    BY <1>3
  <1>8. CallsAlone'
    <2> SUFFICES ASSUME NEW u \in Threads, pc'[u] \in {"set", "append"}, handle[u] \notin mixed
                 PROVE  /\ \A v \in Within(handle[u]) \ {t} : v = u
                        /\ pc'[u] = "set" => target'[u] \in NextStates[machine'[handle[u]].current]
                        /\ pc'[u] = "append" => target'[u] = machine'[handle[u]].current
      BY <1>1, <1>5 DEF CallsAlone
    <2>1. u # t /\ pc'[u] = pc[u] /\ target'[u] = target[u]
      BY <1>5
    <2>2. handle[u] \in Machines
      BY <2>1 DEF RunInv, MachinesTyped, CallsTyped
    <2> QED BY <1>7, <2>1, <2>2 DEF RunInv, CallsAlone
  <1>9. RunsRecorded'
    <2> SUFFICES ASSUME NEW n \in Machines, n \notin mixed, NEW h \in Records(n)'
                 PROVE  \E run \in RunsTo(machine[n].current) : Ends(h, run)
      BY <1>1, <1>7 DEF RunsRecorded
    <2>1. h \in Records(n)
      <3>1. CASE n # m
        <4>1. \A v \in Within(n) : v # t
          BY <3>1 DEF Within
        <4>2. /\ Within(n)' = Within(n) /\ machine'[n] = machine[n]
              /\ \A v \in Within(n) : pc'[v] = pc[v] /\ target'[v] = target[v]
          <5>1. Within(n)' = Within(n) /\ Within(n) \subseteq Threads \ {t}
            BY <1>5, <4>1 DEF Within
          <5>2. machine'[n] = machine[n]
            BY <1>3, <3>1
          <5> QED BY <1>5, <5>1, <5>2
        <4> QED BY <4>2 DEF Records
      <3>2. CASE n = m
        <4>1. t \in Within(m) /\ \A v \in Within(m) : v = t
          BY <1>1, <3>2 DEF RunInv, CallsAlone, Within
        <4>2. h = Append(machine[m].history, s)
          BY <1>3, <1>5, <3>2, <4>1 DEF Records
        <4> QED BY <1>1, <3>2, <4>1, <4>2 DEF Records
      <3> QED BY <3>1, <3>2
    <2> QED BY <2>1 DEF RunInv, RunsRecorded
  <1> QED BY <1>4, <1>6, <1>8, <1>9 DEF RunInv

LEMMA NextRunInv == RunInv /\ [Next]_vars => RunInv'
  <1> SUFFICES ASSUME RunInv, [Next]_vars PROVE RunInv'
    OBVIOUS
  <1>1. CASE Next
    BY <1>1, FactoryRunInv, TransitionRunInv, SetRunInv, AppendRunInv DEF Next
  <1>2. CASE UNCHANGED vars
    <2>1. \A m : Within(m)' = Within(m) /\ Records(m)' = Records(m)
      BY <1>2 DEF vars, Records, Within
    <2>2. MachinesTyped' /\ CallsTyped'
      BY <1>2 DEF vars, RunInv, MachinesTyped, CallsTyped
    <2>3. CallsAlone'
      BY <1>2, <2>1 DEF vars, RunInv, CallsAlone
    <2>4. RunsRecorded'
      BY <1>2, <2>1 DEF vars, RunInv, RunsRecorded
    <2> QED BY <2>2, <2>3, <2>4 DEF RunInv
  <1> QED BY <1>1, <1>2

\* A task that succeeded went through a whole run since it was last routed, whatever
\* failed and was retried before, for any number of threads and transitions, unless two
\* calls of transition overlapped on its machine.
THEOREM SuccessIsEarned == Spec => []SuccessAfterWholeRun
  <1>1. RunInv => SuccessAfterWholeRun
    <2> SUFFICES ASSUME RunInv, NEW m \in made \ mixed, machine[m].current = "SUCCESS",
                        Within(m) = {}
                 PROVE  \E run \in WholeRuns : IsSuffix(run, machine[m].history)
      BY DEF SuccessAfterWholeRun
    <2>1. m \in Machines /\ machine[m].history \in Seq(Statuses)
      BY DEF RunInv, MachinesTyped
    <2>2. PICK run \in RunsTo("SUCCESS") : Ends(machine[m].history, run)
      <3>1. machine[m].history \in Records(m)
        BY DEF Records
      <3> QED BY <2>1, <3>1 DEF RunInv, RunsRecorded
    <2>3. run \in Seq(Statuses)
      BY RunsAreSequences DEF Statuses
    <2>4. IsSuffix(run, machine[m].history)
      BY <2>1, <2>2, <2>3, EndsIsSuffix
    <2> QED BY <2>4, RunsToSuccess
  <1> QED BY <1>1, InitRunInv, NextRunInv, PTL DEF Spec

-----------------------------------------------------------------------------
(* What no overlap can undo.                                               *)

\* The stages every way to a status leads through, it included.
StagesTo(s) ==
  CASE s = "ROUTING"            -> {"ROUTING"}
    [] s = "PREPROCESSING"      -> {"ROUTING", "PREPROCESSING"}
    [] s = "ELEMENT_PROCESSING" -> {"ROUTING", "PREPROCESSING"}
    [] s = "CLEANING"           -> {"ROUTING", "PREPROCESSING", "CLEANING"}
    [] s = "VALIDATING"         -> {"ROUTING", "PREPROCESSING", "CLEANING", "VALIDATING"}
    [] s \in {"GENERATING_OUTPUT", "SUCCESS"} -> NeededStages
    [] OTHER                    -> {}

\* The machine passed the stages that lead to its status; a status some thread is about to
\* set, after a check that may be out of date, had all but itself behind it when it was
\* checked, and what a machine passed stays passed.
StagesPassed ==
  /\ \A m \in made : StagesTo(machine[m].current) \subseteq Passed(m)
  /\ \A t \in Threads : pc[t] = "set" =>
       StagesTo(target[t]) \ {target[t]} \subseteq Passed(handle[t])

\* A status that may follow needs no other stage than itself besides those before.
LEMMA StagesFollow ==
  ASSUME NEW s \in Statuses, NEW t \in NextStates[s]
  PROVE  StagesTo(t) \ {t} \subseteq StagesTo(s)
  BY DEF StagesTo, NextStates, Statuses, NeededStages

\* What a machine passed stays passed, and what a thread set counts at once.
LEMMA PassedGrows ==
  ASSUME RunInv, NEW t \in Threads, NEW m \in Machines,
         \/ CreateFinds(t) \/ CreateMisses(t) \/ CreateInserts(t) \/ Get(t) \/ RemoveTask(t)
         \/ Transition(t) \/ SetStatus(t) \/ AppendHistory(t)
  PROVE  Passed(m) \subseteq Passed(m)'
  <1> DEFINE Pending == {u \in Threads : pc[u] = "append" /\ handle[u] = m}
  <1>1. /\ Passed(m) = ToSet(machine[m].history) \cup {target[u] : u \in Pending}
        /\ Passed(m)' = ToSet(machine'[m].history) \cup {target'[u] : u \in Pending'}
    <2>1. /\ Pending = {v \in Within(m) : pc[v] = "append"}
          /\ Pending' = {v \in Within(m)' : pc'[v] = "append"}
      BY DEF Within
    <2> QED BY <2>1, Zenon DEF Passed
  <1>2. CASE \/ CreateFinds(t) \/ CreateMisses(t) \/ CreateInserts(t) \/ Get(t)
             \/ RemoveTask(t) \/ Transition(t) \/ SetStatus(t)
    <2>1. pc[t] # "append" /\ machine'[m].history = machine[m].history
      <3>1. CASE SetStatus(t)
        <4>1. /\ machine[m] \in [current : Statuses, history : Seq(Statuses)]
              /\ machine' = [machine EXCEPT ![handle[t]].current = target[t]]
          BY <3>1 DEF RunInv, MachinesTyped, SetStatus
        <4>2. machine'[m] = IF m = handle[t] THEN [machine[m] EXCEPT !.current = target[t]]
                            ELSE machine[m]
          BY <4>1 DEF RunInv, MachinesTyped
        <4> QED BY <3>1, <4>1, <4>2 DEF SetStatus
      <3>2. CASE ~SetStatus(t)
        BY <1>2, <3>2 DEF CreateFinds, CreateMisses, CreateInserts, Get, RemoveTask, Transition
      <3> QED BY <3>1, <3>2
    <2>2. \A u \in Threads \ {t} :
            pc'[u] = pc[u] /\ handle'[u] = handle[u] /\ target'[u] = target[u]
      BY <1>2 DEF RunInv, MachinesTyped, CreateFinds, CreateMisses, CreateInserts, Get,
         RemoveTask, Transition, SetStatus, Goto
    <2>3. \A u \in Pending : u \in Pending' /\ target'[u] = target[u]
      BY <2>1, <2>2
    <2> QED BY <1>1, <2>1, <2>3
  <1>3. CASE AppendHistory(t)
    <2> DEFINE n == handle[t]  h == machine[n].history  s == target[t]
    <2>1. /\ n \in Machines /\ s \in Statuses /\ pc[t] = "append"
          /\ machine' = [machine EXCEPT ![n].history = Append(@, s)]
          /\ handle' = handle
      BY <1>3 DEF RunInv, MachinesTyped, CallsTyped, AppendHistory, EntryOf
    <2>2. /\ \A o \in Machines : machine[o].history \in Seq(Statuses)
          /\ machine'[n].history = Append(h, s)
          /\ n # m => machine'[m].history = machine[m].history
      BY <2>1 DEF RunInv, MachinesTyped
    <2>3. ToSet(Append(h, s)) = ToSet(h) \cup {s}
      <3> DEFINE g == Append(h, s)
      <3>1. /\ g[Len(h) + 1] = s /\ \A i \in 1 .. Len(h) : g[i] = h[i]
            /\ DOMAIN h = 1 .. Len(h) /\ DOMAIN g = 1 .. Len(h) + 1 /\ Len(h) \in Nat
        BY <2>1, <2>2
      <3> HIDE DEF h, g, s
      <3>2. 1 .. Len(h) + 1 = (1 .. Len(h)) \cup {Len(h) + 1}
        BY <3>1
      <3>3. {g[i] : i \in DOMAIN g} = {h[i] : i \in DOMAIN h} \cup {s}
        BY <3>1, <3>2
      <3> QED BY <3>3 DEF ToSet, g
    <2>4. \A u \in Threads \ {t} : pc'[u] = pc[u] /\ target'[u] = target[u]
      BY <1>3 DEF RunInv, MachinesTyped, AppendHistory, Goto
    <2>5. \A u \in Pending \ {t} : u \in Pending' /\ target'[u] = target[u]
      BY <2>1, <2>4
    <2>6. ToSet(machine[m].history) \subseteq ToSet(machine'[m].history)
      BY <2>2, <2>3
    <2>7. t \in Pending => target[t] \in ToSet(machine'[m].history)
      BY <2>2, <2>3
    <2> HIDE DEF Pending
    <2> QED BY <1>1, <2>5, <2>6, <2>7
  <1> QED BY <1>2, <1>3

\* Every step keeps the stages on the record.
LEMMA NextStages ==
  ASSUME RunInv, RunInv', StagesPassed, NEW t \in Threads,
         \/ CreateFinds(t) \/ CreateMisses(t) \/ CreateInserts(t) \/ Get(t) \/ RemoveTask(t)
         \/ Transition(t) \/ SetStatus(t) \/ AppendHistory(t)
  PROVE  StagesPassed'
  <1>1. /\ made \subseteq Machines /\ made' \subseteq Machines
        /\ \A u \in Threads : pc[u] = "set" => handle[u] \in made /\ target[u] \in Statuses
        /\ \A m \in Machines : machine[m].current \in Statuses
        /\ \A m \in Machines \ made : machine[m].current = "PENDING"
    BY DEF RunInv, MachinesTyped, CallsTyped, NewMachine
  <1>2. \A m \in Machines : Passed(m) \subseteq Passed(m)'
    BY PassedGrows
  <1>3. ASSUME NEW m \in made'
        PROVE  StagesTo(machine'[m].current) \subseteq Passed(m)'
    <2>0. m \in Machines
      BY <1>1
    <2>1. CASE machine'[m].current = machine[m].current
      <3>1. StagesTo(machine[m].current) \subseteq Passed(m)
        BY <1>1, <2>0 DEF StagesPassed, StagesTo
      <3> QED BY <1>2, <2>0, <2>1, <3>1
    <2>2. CASE machine'[m].current # machine[m].current
      <3>1. SetStatus(t) /\ m = handle[t] /\ m \in made
        <4>1. SetStatus(t) \/ AppendHistory(t)
          BY <2>2 DEF CreateFinds, CreateMisses, CreateInserts, Get, RemoveTask, Transition
        <4>2. /\ handle[t] \in made /\ handle[t] \in Machines
              /\ machine \in [Machines -> [current : Statuses, history : Seq(Statuses)]]
          BY <4>1 DEF RunInv, MachinesTyped, CallsTyped, SetStatus, AppendHistory
        <4>3. CASE SetStatus(t)
          BY <2>0, <2>2, <4>2, <4>3 DEF SetStatus
        <4>4. CASE AppendHistory(t)
          BY <2>0, <2>2, <4>2, <4>4 DEF AppendHistory
        <4> QED BY <4>1, <4>3, <4>4
      <3>2. /\ machine'[m].current = target[t] /\ pc[t] = "set" /\ pc'[t] = "append"
            /\ target'[t] = target[t] /\ handle'[t] = m
        BY <2>0, <3>1 DEF RunInv, MachinesTyped, SetStatus, Goto
      <3>3. target[t] \in Passed(m)'
        BY <3>2 DEF Passed, Within
      <3>4. StagesTo(target[t]) \ {target[t]} \subseteq Passed(m)
        BY <3>1, <3>2 DEF StagesPassed
      <3> QED BY <1>2, <2>0, <3>2, <3>3, <3>4
    <2> QED BY <2>1, <2>2
  <1>4. ASSUME NEW u \in Threads, pc'[u] = "set"
        PROVE  StagesTo(target'[u]) \ {target'[u]} \subseteq Passed(handle[u])'
    <2>1. CASE pc[u] = "set"
      <3>1. target'[u] = target[u] /\ handle'[u] = handle[u]
        BY <1>4, <2>1 DEF RunInv, MachinesTyped, CreateFinds, CreateMisses,
           CreateInserts, Get, RemoveTask, Transition, SetStatus, AppendHistory, Goto
      <3>2. PICK m \in Machines : m = handle[u] /\ m = handle'[u]
        BY <1>1, <2>1, <3>1
      <3>3. StagesTo(target[u]) \ {target[u]} \subseteq Passed(m)
        BY <2>1, <3>2 DEF StagesPassed
      <3>4. Passed(m) \subseteq Passed(m)' /\ Passed(handle[u])' = Passed(m)'
        BY <1>2, <3>2
      <3> QED BY <3>1, <3>3, <3>4
    <2>2. CASE pc[u] # "set"
      <3>1. Transition(t) /\ u = t
        BY <1>4, <2>2 DEF RunInv, MachinesTyped, CreateFinds, CreateMisses,
           CreateInserts, Get, RemoveTask, Transition, SetStatus, AppendHistory, Goto
      <3>2. /\ handle[t] \in made /\ handle'[t] = handle[t]
            /\ target'[t] \in NextStates[machine[handle[t]].current]
        BY <3>1 DEF RunInv, MachinesTyped, Transition, CanTransitTo
      <3>3. /\ StagesTo(machine[handle[t]].current) \subseteq Passed(handle[t])
            /\ machine[handle[t]].current \in Statuses /\ handle[t] \in Machines
        BY <1>1, <3>2 DEF StagesPassed
      <3>4. PICK m \in Machines : m = handle[t] /\ m = handle'[t]
        BY <3>2, <3>3
      <3>5. Passed(m) \subseteq Passed(m)' /\ Passed(handle[t])' = Passed(m)'
        BY <1>2, <3>4
      <3> QED BY <3>1, <3>2, <3>3, <3>4, <3>5, StagesFollow
    <2> QED BY <2>1, <2>2
  <1> QED BY <1>3, <1>4 DEF StagesPassed

\* For any number of threads and transitions, and however the calls of transition overlap:
\* no machine succeeds without every stage on its record, or about to be.
THEOREM NoStageSkipped == Spec => []EveryStagePassed
  <1>1. Init => StagesPassed
    BY DEF Init, StagesPassed
  <1>2. RunInv /\ RunInv' /\ StagesPassed /\ [Next]_vars => StagesPassed'
    <2> SUFFICES ASSUME RunInv, RunInv', StagesPassed, [Next]_vars PROVE StagesPassed'
      OBVIOUS
    <2>1. CASE Next
      BY <2>1, NextStages DEF Next
    <2>2. CASE UNCHANGED vars
      <3>1. \A m : Passed(m)' = Passed(m)
        BY <2>2 DEF vars, Passed, Within
      <3> QED BY <2>2, <3>1 DEF vars, StagesPassed
    <2> QED BY <2>1, <2>2
  <1>3. StagesPassed => EveryStagePassed
    BY DEF StagesPassed, EveryStagePassed, StagesTo
  <1> QED BY <1>1, <1>2, <1>3, InitRunInv, NextRunInv, PTL DEF Spec

=============================================================================

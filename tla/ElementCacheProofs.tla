-------------------------- MODULE ElementCacheProofs --------------------------
(***************************************************************************)
(* How stale the answers of ElementCacheManager get, for any processes,    *)
(* threads, values, times to live and duration of calls.                   *)
(***************************************************************************)
EXTENDS ElementCacheProps, TLAPS

Entry == [value : Versions \cup {None}, age : 0 .. L1Ttl]

Typed ==
  /\ home \in [Threads -> Procs]
  /\ l1 \in [Procs -> Entry]
  /\ l2 \in Versions \cup {None} /\ ttl \in 0 .. L2Ttl
  /\ late \subseteq Versions \cup {None}
  /\ pc \in [Threads -> {"idle", "look", "take", "drop", "read", "fill", "write", "erase"}]
  /\ value \in [Threads -> Versions \cup {None}]
  /\ left \in [Threads -> 0 .. CallTicks]
  /\ gone \in [Versions -> 0 .. L1Ttl + CallTicks]

\* A local entry is at most the time of a call staler than old.
EntriesFollow ==
  \A p \in Procs : l1[p].value # None /\ l1[p].age < L1Ttl
                     => gone[l1[p].value] <= l1[p].age + CallTicks

\* What a call has read is not staler than the call is old.
ReadsFollow ==
  \A t \in Threads : pc[t] = "fill" =>
    value[t] \in Versions /\ gone[value[t]] <= CallTicks - left[t]

\* What Redis has is current.
RedisCurrent == l2 # None => gone[l2] = 0

IInv == Typed /\ EntriesFollow /\ ReadsFollow /\ RedisCurrent

-----------------------------------------------------------------------------
LEMMA InitIInv == Init => IInv
  BY ElementCacheAssumption
     DEF Init, IInv, Typed, Entry, EntriesFollow, ReadsFollow, RedisCurrent, NoEntry

\* The steps of get.
LEMMA GetIInv ==
  ASSUME IInv, NEW t \in Threads, Get(t)
  PROVE  IInv'
  <1> USE ElementCacheAssumption
      DEF IInv, Typed, Entry, EntriesFollow, ReadsFollow, RedisCurrent, Goto
  <1>1. CASE StartGet(t)
    BY <1>1 DEF StartGet, Begin
  <1>2. CASE Look(t)
    BY <1>2 DEF Look
  <1>3. CASE TakeEnds(t)
    BY <1>3 DEF TakeEnds, End
  <1>4. CASE TakeOld(t)
    BY <1>4 DEF TakeOld
  <1>5. CASE DropEntry(t)
    <2>1. l1' = [l1 EXCEPT ![home[t]] = [value |-> None, age |-> 0]]
      BY <1>5 DEF DropEntry, SetLocal, NoEntry
    <2>2. /\ pc[t] = "drop" /\ UNCHANGED <<home, l2, ttl, late, gone>>
          /\ \/ pc' = [pc EXCEPT ![t] = "read"] /\ UNCHANGED <<value, left>>
             \/ /\ pc' = [pc EXCEPT ![t] = "idle"]
                /\ value' = [value EXCEPT ![t] = None]
                /\ left' = [left EXCEPT ![t] = 0]
      BY <1>5 DEF DropEntry, End
    <2>3. Typed'
      <3>1. l1' \in [Procs -> Entry]
        BY <2>1
      <3>2. /\ pc' \in [Threads -> {"idle", "look", "take", "drop", "read", "fill", "write",
                                    "erase"}]
            /\ value' \in [Threads -> Versions \cup {None}]
            /\ left' \in [Threads -> 0 .. CallTicks]
        <4> HIDE DEF IInv, Entry, EntriesFollow, ReadsFollow, RedisCurrent
        <4>1. Typed
          BY DEF IInv
        <4>2. CASE pc' = [pc EXCEPT ![t] = "read"] /\ UNCHANGED <<value, left>>
          BY <4>1, <4>2
        <4>3. CASE /\ pc' = [pc EXCEPT ![t] = "idle"]
                   /\ value' = [value EXCEPT ![t] = None]
                   /\ left' = [left EXCEPT ![t] = 0]
          BY <4>1, <4>3
        <4> QED BY <2>2, <4>2, <4>3
      <3>3. home' = home /\ l2' = l2 /\ ttl' = ttl /\ late' = late /\ gone' = gone
        BY <2>2
      <3> HIDE DEF IInv, Entry, EntriesFollow, ReadsFollow, RedisCurrent
      <3>4. Typed
        BY DEF IInv
      <3> QED BY <3>1, <3>2, <3>3, <3>4
    <2>4. EntriesFollow'
      BY <2>1, <2>2
    <2>5. ReadsFollow' /\ RedisCurrent'
      BY <2>2
    <2> QED BY <2>3, <2>4, <2>5
  <1>6. CASE ReadL2(t)
    BY <1>6 DEF ReadL2
  <1>7. CASE MissL2(t)
    BY <1>7 DEF MissL2, End
  <1>8. CASE Fill(t)
    BY <1>8 DEF Fill, SetLocal, End
  <1> QED BY <1>1, <1>2, <1>3, <1>4, <1>5, <1>6, <1>7, <1>8 DEF Get

\* The local half of set and invalidate.
LEMMA StartIInv ==
  ASSUME IInv, NEW t \in Threads, StartSet(t) \/ StartInvalidate(t)
  PROVE  IInv'
  <1> USE ElementCacheAssumption
      DEF IInv, Typed, Entry, EntriesFollow, ReadsFollow, RedisCurrent, Goto, Begin, SetLocal
  <1>1. CASE StartSet(t)
    <2>1. PICK v \in Versions : /\ NewVersion(v)
                                /\ value' = [value EXCEPT ![t] = v]
                                /\ l1' = [l1 EXCEPT ![home[t]] = [value |-> v, age |-> 0]]
      BY <1>1 DEF StartSet
    <2>2. gone[v] = 0
      BY <2>1 DEF NewVersion
    <2> QED BY <1>1, <2>1, <2>2 DEF StartSet
  <1>2. CASE StartInvalidate(t)
    BY <1>2 DEF StartInvalidate, NoEntry
  <1> QED BY <1>1, <1>2

\* A command makes its value current and no other value more so.
LEMMA StoreIInv ==
  ASSUME IInv, NEW v \in Versions \cup {None}, Store(v)
  PROVE  /\ l2' \in Versions \cup {None} /\ ttl' \in 0 .. L2Ttl
         /\ gone' \in [Versions -> 0 .. L1Ttl + CallTicks]
         /\ \A w \in Versions : gone'[w] <= gone[w]
         /\ RedisCurrent'
  BY ElementCacheAssumption DEF IInv, Typed, RedisCurrent, Store

\* The half of set and invalidate in Redis, at once or late.
LEMMA WriteIInv ==
  ASSUME IInv,
         (\E t \in Threads : Written(t) \/ WriteFails(t))
           \/ \E v \in Versions \cup {None} : CarryOut(v)
  PROVE  IInv'
  <1> USE ElementCacheAssumption DEF IInv, Typed
  <1>1. ASSUME NEW t \in Threads, Written(t) PROVE IInv'
    <2>1. /\ Store(value[t])
          /\ pc' = [pc EXCEPT ![t] = "idle"] /\ value' = [value EXCEPT ![t] = None]
          /\ left' = [left EXCEPT ![t] = 0] /\ UNCHANGED <<home, l1, late>>
      BY <1>1 DEF Written, End, Goto
    <2>2. /\ l2' \in Versions \cup {None} /\ ttl' \in 0 .. L2Ttl
          /\ gone' \in [Versions -> 0 .. L1Ttl + CallTicks]
          /\ \A w \in Versions : gone'[w] <= gone[w]
          /\ RedisCurrent'
      BY <2>1, StoreIInv
    <2>3. Typed'
      BY <2>1, <2>2
    <2>4. EntriesFollow'
      BY <2>1, <2>2 DEF EntriesFollow, Entry
    <2>5. ReadsFollow'
      BY <2>1, <2>2 DEF ReadsFollow
    <2> QED BY <2>2, <2>3, <2>4, <2>5
  <1>2. ASSUME NEW t \in Threads, WriteFails(t) PROVE IInv'
    BY <1>2 DEF WriteFails, End, Goto, EntriesFollow, ReadsFollow, RedisCurrent
  <1>3. ASSUME NEW v \in Versions \cup {None}, CarryOut(v) PROVE IInv'
    <2>1. Store(v) /\ late' = late \ {v} /\ UNCHANGED <<home, l1, pc, value, left>>
      BY <1>3 DEF CarryOut
    <2>2. /\ l2' \in Versions \cup {None} /\ ttl' \in 0 .. L2Ttl
          /\ gone' \in [Versions -> 0 .. L1Ttl + CallTicks]
          /\ \A w \in Versions : gone'[w] <= gone[w]
          /\ RedisCurrent'
      BY <2>1, StoreIInv
    <2>3. Typed'
      BY <2>1, <2>2
    <2>4. EntriesFollow'
      BY <2>1, <2>2 DEF EntriesFollow, Entry
    <2>5. ReadsFollow'
      BY <2>1, <2>2 DEF ReadsFollow
    <2> QED BY <2>2, <2>3, <2>4, <2>5
  <1> QED BY <1>1, <1>2, <1>3

\* Entries and calls age with the values they hold.
LEMMA TickIInv ==
  ASSUME IInv, Tick
  PROVE  IInv'
  <1> USE ElementCacheAssumption DEF IInv, Typed, Tick
  <1>1. \A v \in Versions : gone'[v] \in {gone[v], gone[v] + 1} \cap (0 .. L1Ttl + CallTicks)
    BY DEF Older, LongestGone
  <1>2. \A p \in Procs : /\ l1'[p] \in Entry /\ l1'[p].value = l1[p].value
                         /\ l1[p].value # None /\ l1[p].age < L1Ttl => l1'[p].age = l1[p].age + 1
                         /\ l1'[p].age >= l1[p].age
    <2> SUFFICES ASSUME NEW p \in Procs
                 PROVE  /\ l1'[p] \in Entry /\ l1'[p].value = l1[p].value
                        /\ l1[p].value # None /\ l1[p].age < L1Ttl
                             => l1'[p].age = l1[p].age + 1
                        /\ l1'[p].age >= l1[p].age
      OBVIOUS
    <2>1. l1[p] \in Entry
      OBVIOUS
    <2>2. CASE l1[p] = NoEntry
      BY <2>1, <2>2 DEF NoEntry
    <2>3. CASE l1[p] # NoEntry
      <3>1. l1'[p] = [l1[p] EXCEPT !.age = Older(@, OldestEntry)]
        BY <2>3
      <3> QED BY <2>1, <3>1 DEF Older, OldestEntry, Entry
    <2> QED BY <2>2, <2>3
  <1>3. Typed'
    <2>1. gone' \in [Versions -> 0 .. L1Ttl + CallTicks]
      BY <1>1
    <2>2. l1' \in [Procs -> Entry]
      BY <1>2
    <2> QED BY <2>1, <2>2
  <1>4. EntriesFollow'
    <2> SUFFICES ASSUME NEW p \in Procs, l1'[p].value # None, l1'[p].age < L1Ttl
                 PROVE  gone'[l1'[p].value] <= l1'[p].age + CallTicks
      BY DEF EntriesFollow
    <2> DEFINE v == l1[p].value
               a == l1[p].age
    <2>1. l1[p] \in Entry /\ l1'[p].value = v /\ v # None
      BY <1>2
    <2>2. v \in Versions /\ a \in 0 .. L1Ttl
      BY <2>1 DEF Entry
    <2>3. a < L1Ttl /\ l1'[p].age = a + 1
      <3>1. l1'[p].age \in 0 .. L1Ttl /\ l1'[p].age >= a
        BY <1>2 DEF Entry
      <3>2. a < L1Ttl
        BY <2>2, <3>1
      <3>3. v # None
        BY <2>1
      <3> QED BY <1>2, <3>2, <3>3
    <2>4. gone[v] <= a + CallTicks /\ gone[v] \in Nat
      BY <2>1, <2>2, <2>3 DEF EntriesFollow
    <2>5. gone'[v] <= gone[v] + 1 /\ gone'[v] \in Nat
      BY <1>1, <2>2, <2>4
    <2> HIDE DEF v, a
    <2> QED BY <2>1, <2>2, <2>3, <2>4, <2>5
  <1>5. ReadsFollow'
    BY <1>1 DEF ReadsFollow
  <1>6. RedisCurrent'
    <2>1. l2' # None => l2' = l2 /\ l2 \in Versions
      OBVIOUS
    <2>2. l2 \in Versions => gone'[l2] = gone[l2]
      OBVIOUS
    <2> QED BY <2>1, <2>2 DEF RedisCurrent
  <1> QED BY <1>3, <1>4, <1>5, <1>6

\* Entries that disappear, and processes that start over.
LEMMA RestartIInv ==
  ASSUME IInv, NEW p \in Procs, EvictExpired(p) \/ Restart(p)
  PROVE  IInv'
  <1> USE ElementCacheAssumption
      DEF IInv, Typed, Entry, EntriesFollow, ReadsFollow, RedisCurrent
  <1>1. CASE EvictExpired(p)
    <2>1. /\ l1' = [l1 EXCEPT ![p] = [value |-> None, age |-> 0]]
          /\ UNCHANGED <<home, l2, ttl, late, pc, value, left, gone>>
      BY <1>1 DEF EvictExpired, NoEntry
    <2> QED BY <2>1
  <1>2. CASE Restart(p)
    <2>1. /\ l1' = [l1 EXCEPT ![p] = [value |-> None, age |-> 0]]
          /\ UNCHANGED <<home, l2, ttl, late, gone>>
      BY <1>2 DEF Restart, NoEntry
    <2>2. \A t \in Threads :
            /\ pc'[t] = (IF home[t] = p THEN "idle" ELSE pc[t])
            /\ value'[t] = (IF home[t] = p THEN None ELSE value[t])
            /\ left'[t] = (IF home[t] = p THEN 0 ELSE left[t])
      BY <1>2 DEF Restart
    <2>3. /\ pc' \in [Threads -> {"idle", "look", "take", "drop", "read", "fill", "write", "erase"}]
          /\ value' \in [Threads -> Versions \cup {None}]
          /\ left' \in [Threads -> 0 .. CallTicks]
      BY <1>2 DEF Restart
    <2>4. EntriesFollow'
      BY <2>1
    <2>5. ReadsFollow'
      BY <2>1, <2>2
    <2> QED BY <2>1, <2>3, <2>4, <2>5
  <1> QED BY <1>1, <1>2

LEMMA NextIInv == IInv /\ [Next]_vars => IInv'
  <1> SUFFICES ASSUME IInv, [Next]_vars PROVE IInv'
    OBVIOUS
  <1>1. CASE Next
    BY <1>1, GetIInv, StartIInv, WriteIInv, TickIInv, RestartIInv DEF Next
  <1>2. CASE UNCHANGED vars
    BY <1>2 DEF vars, IInv, Typed, EntriesFollow, ReadsFollow, RedisCurrent
  <1> QED BY <1>1, <1>2

\* get never answers with a value that Redis has not had for L1Ttl and the time of a call.
THEOREM Staleness == Spec => []BoundedStaleness
  <1>1. IInv => BoundedStaleness
    <2> SUFFICES ASSUME IInv, NEW t \in Threads, NEW v \in Answers(t)
                 PROVE  gone[v] < L1Ttl + CallTicks
      BY DEF BoundedStaleness
    <2> USE ElementCacheAssumption DEF IInv, Typed
    <2>1. CASE pc[t] = "take" /\ FreshEntry(t) /\ v = Local(t).value
      BY <2>1 DEF EntriesFollow, Entry, FreshEntry, Cached, Local
    <2>2. CASE pc[t] = "fill" /\ v = value[t]
      BY <2>2 DEF ReadsFollow
    <2> QED BY <2>1, <2>2 DEF Answers
  <1> QED BY <1>1, InitIInv, NextIInv, PTL DEF Spec

=============================================================================

---------------------------- MODULE ElementCache ----------------------------
(***************************************************************************)
(* ElementCacheManager: one element in the local dictionaries (L1) of      *)
(* several processes and in Redis (L2), read, set and invalidated by their *)
(* threads, step by step, with time.  Level L3 exists in a comment only.   *)
(***************************************************************************)
EXTENDS Integers, FiniteSets

CONSTANTS
  Procs, Threads,
  Versions,    \* the values set for the element, a new one by each call
  None,        \* no value
  L1Ttl,       \* _l1_ttl, in ticks
  L2Ttl,       \* cache_ttl_seconds, in ticks
  CallTicks    \* how long a call of the cache takes at most

ASSUME ElementCacheAssumption ==
  /\ None \notin Versions
  /\ L1Ttl \in Nat \ {0} /\ L2Ttl \in Nat \ {0} /\ CallTicks \in Nat

VARIABLES
  home,    \* the process of each thread
  l1,      \* the local entry of each process: a value and its age
  l2, ttl, \* the value in Redis, and ticks until it expires
  late,    \* commands whose callers got an error, and that Redis may still carry out
  pc,      \* the next step of each thread
  value,   \* the value it sets or has read
  left,    \* ticks until its call ends
  gone     \* ticks since a value was in Redis, or since it was set: for the properties

vars == <<home, l1, l2, ttl, late, pc, value, left, gone>>

NoEntry == [value |-> None, age |-> 0]

\* Nothing counts ticks beyond these.
OldestEntry == L1Ttl
LongestGone == L1Ttl + CallTicks

Init ==
  /\ home \in [Threads -> Procs]
  /\ l1 = [p \in Procs |-> NoEntry]
  /\ l2 = None /\ ttl = 0 /\ late = {}
  /\ pc = [t \in Threads |-> "idle"]
  /\ value = [t \in Threads |-> None]
  /\ left = [t \in Threads |-> 0]
  /\ gone = [v \in Versions |-> 0]

-----------------------------------------------------------------------------
Local(t) == l1[home[t]]
Cached(t) == Local(t).value # None
FreshEntry(t) == Cached(t) /\ Local(t).age < L1Ttl

Goto(t, step) == pc' = [pc EXCEPT ![t] = step]

Begin(t, step) ==
  /\ pc[t] = "idle"
  /\ Goto(t, step)
  /\ left' = [left EXCEPT ![t] = CallTicks]

\* The call of t returns, or raises.
End(t) ==
  /\ Goto(t, "idle")
  /\ value' = [value EXCEPT ![t] = None]
  /\ left' = [left EXCEPT ![t] = 0]

SetLocal(t, entry) == l1' = [l1 EXCEPT ![home[t]] = entry]

-----------------------------------------------------------------------------
(* get: the dictionary is looked into, read, and freed of an old entry in  *)
(* steps between which other threads of the process run.                   *)

StartGet(t) == Begin(t, "look") /\ UNCHANGED <<home, l1, l2, ttl, late, value, gone>>

Look(t) ==
  /\ pc[t] = "look"
  /\ Goto(t, IF Cached(t) THEN "take" ELSE "read")
  /\ UNCHANGED <<home, l1, l2, ttl, late, value, left, gone>>

\* Wrong: an entry lives on when it is used.
TakeAndTouch(t) ==
  /\ pc[t] = "take" /\ (FreshEntry(t) \/ ~Cached(t))
  /\ End(t)
  /\ SetLocal(t, [Local(t) EXCEPT !.age = 0])
  /\ UNCHANGED <<home, l2, ttl, late, gone>>

\* A fresh entry is the answer; the entry may have disappeared, and the call raises.
TakeEnds(t) ==
  /\ pc[t] = "take" /\ (FreshEntry(t) \/ ~Cached(t))
  /\ End(t)
  /\ UNCHANGED <<home, l1, l2, ttl, late, gone>>

TakeOld(t) ==
  /\ pc[t] = "take" /\ Cached(t) /\ ~FreshEntry(t)
  /\ Goto(t, "drop")
  /\ UNCHANGED <<home, l1, l2, ttl, late, value, left, gone>>

\* What is deleted may be another entry by now; if there is none the call raises.
DropEntry(t) ==
  /\ pc[t] = "drop"
  /\ SetLocal(t, NoEntry)
  /\ IF Cached(t) THEN Goto(t, "read") /\ UNCHANGED <<value, left>> ELSE End(t)
  /\ UNCHANGED <<home, l2, ttl, late, gone>>

\* A value that is there goes to the local level next; without one, or with an error of
\* Redis, get returns None.
ReadL2(t) ==
  /\ pc[t] = "read" /\ l2 # None
  /\ value' = [value EXCEPT ![t] = l2]
  /\ Goto(t, "fill")
  /\ UNCHANGED <<home, l1, l2, ttl, late, left, gone>>

MissL2(t) == pc[t] = "read" /\ End(t) /\ UNCHANGED <<home, l1, l2, ttl, late, gone>>

Fill(t) ==
  /\ pc[t] = "fill"
  /\ SetLocal(t, [value |-> value[t], age |-> 0])
  /\ End(t)
  /\ UNCHANGED <<home, l2, ttl, late, gone>>

-----------------------------------------------------------------------------
(* set and invalidate: the local level first.                              *)

NewVersion(v) ==
  /\ gone[v] = 0 /\ v # l2 /\ v \notin late
  /\ \A p \in Procs : l1[p].value # v
  /\ \A t \in Threads : value[t] # v

StartSet(t) ==
  /\ Begin(t, "write")
  /\ \E v \in Versions :
       /\ NewVersion(v)
       /\ value' = [value EXCEPT ![t] = v]
       /\ SetLocal(t, [value |-> v, age |-> 0])
  /\ UNCHANGED <<home, l2, ttl, late, gone>>

StartInvalidate(t) ==
  /\ Begin(t, "erase")
  /\ SetLocal(t, NoEntry)
  /\ UNCHANGED <<home, l2, ttl, late, value, gone>>

\* SETEX with value v, or DEL when v is None.
Store(v) ==
  /\ l2' = v /\ ttl' = (IF v = None THEN 0 ELSE L2Ttl)
  /\ gone' = [w \in Versions |-> IF w = v THEN 0 ELSE gone[w]]

Written(t) ==
  /\ pc[t] \in {"write", "erase"}
  /\ Store(value[t]) /\ End(t)
  /\ UNCHANGED <<home, l1, late>>

\* The error is swallowed; Redis may have the command all the same.
WriteFails(t) ==
  /\ pc[t] \in {"write", "erase"}
  /\ \E lost \in BOOLEAN : late' = IF lost THEN late ELSE late \cup {value[t]}
  /\ End(t)
  /\ UNCHANGED <<home, l1, l2, ttl, gone>>

-----------------------------------------------------------------------------
(* Redis, time, other elements, restarts.                                  *)

CarryOut(v) ==
  /\ v \in late /\ late' = late \ {v}
  /\ Store(v)
  /\ UNCHANGED <<home, l1, pc, value, left>>

Older(n, most) == IF n < most THEN n + 1 ELSE most

Tick ==
  /\ \A t \in Threads : pc[t] # "idle" => left[t] > 0
  /\ left' = [t \in Threads |-> IF left[t] > 0 THEN left[t] - 1 ELSE 0]
  /\ l1' = [p \in Procs |-> IF l1[p] = NoEntry THEN NoEntry
                            ELSE [l1[p] EXCEPT !.age = Older(@, OldestEntry)]]
  /\ ttl' = (IF ttl > 0 THEN ttl - 1 ELSE 0)
  /\ l2' = (IF ttl <= 1 THEN None ELSE l2)
  /\ gone' = [v \in Versions |->
                IF l2 # v /\ ~NewVersion(v) THEN Older(gone[v], LongestGone) ELSE gone[v]]
  /\ UNCHANGED <<home, late, pc, value>>

\* A call for another element finds the dictionary too large and takes out what is old.
EvictExpired(p) ==
  /\ l1[p].age = OldestEntry
  /\ l1' = [l1 EXCEPT ![p] = NoEntry]
  /\ UNCHANGED <<home, l2, ttl, late, pc, value, left, gone>>

Restart(p) ==
  LET ended == {t \in Threads : home[t] = p}
  IN  /\ l1' = [l1 EXCEPT ![p] = NoEntry]
      /\ pc' = [t \in Threads |-> IF t \in ended THEN "idle" ELSE pc[t]]
      /\ value' = [t \in Threads |-> IF t \in ended THEN None ELSE value[t]]
      /\ left' = [t \in Threads |-> IF t \in ended THEN 0 ELSE left[t]]
      /\ UNCHANGED <<home, l2, ttl, late, gone>>

-----------------------------------------------------------------------------
Get(t) ==
  \/ StartGet(t) \/ Look(t) \/ TakeEnds(t) \/ TakeOld(t) \/ DropEntry(t) \/ ReadL2(t)
  \/ MissL2(t) \/ Fill(t)

Next ==
  \/ \E t \in Threads :
       Get(t) \/ StartSet(t) \/ StartInvalidate(t) \/ Written(t) \/ WriteFails(t)
  \/ \E v \in Versions \cup {None} : CarryOut(v)
  \/ Tick
  \/ \E p \in Procs : EvictExpired(p) \/ Restart(p)

Spec == Init /\ [][Next]_vars

=============================================================================

--------------------------- MODULE RedisLockProofs ---------------------------
(***************************************************************************)
(* The lock of RedisClient excludes, for any clients, tokens, time to live *)
(* and number of tries.                                                    *)
(***************************************************************************)
EXTENDS RedisLockProps, TLAPS

\* The server told c, or is telling it, that it has the lock.
Won(c) == pc[c] = "locked" \/ (pc[c] = "setting" /\ reply[c] = "ok")

\* No two clients have the same token.
TokensDiffer == \A c, d \in Clients : token[c] = token[d] /\ token[c] # NoToken => c = d

\* Answers wait only for those that wait for them.
RepliesAwaited == \A c \in Clients : pc[c] # "setting" => reply[c] = "none"

\* Until its lease ends the server keeps the key for the winner, and longer.
KeyKept == \A c \in Clients : Won(c) /\ lease[c] > 0 => key = token[c] /\ lease[c] <= ttl

\* Only who is done with its token asks for it to be deleted.
DeletesAreLate ==
  \A c \in Clients : CompareAndDelete(token[c]) \in commands => pc[c] = "releasing" \/ pc[c] = "idle"

IInv == TypeOK /\ TokensDiffer /\ RepliesAwaited /\ KeyKept /\ DeletesAreLate

-----------------------------------------------------------------------------
\* No state starts with a lock held.
LEMMA InitIInv == Init => IInv
  BY RedisLockAssumption
     DEF Init, IInv, TypeOK, TokensDiffer, RepliesAwaited, KeyKept, DeletesAreLate, Won,
         CompareAndDelete

\* What a client that forgets leaves behind does not concern the others.
LEMMA ForgetIInv ==
  ASSUME IInv, NEW c \in Clients, Forget(c)
  PROVE  IInv'
  <1> USE RedisLockAssumption DEF IInv, Forget
  <1>1. TypeOK'
    BY DEF TypeOK
  <1>2. TokensDiffer'
    BY DEF TypeOK, TokensDiffer
  <1>3. RepliesAwaited'
    BY DEF TypeOK, RepliesAwaited
  <1>4. KeyKept'
    BY DEF TypeOK, KeyKept, Won
  <1>5. DeletesAreLate'
    BY DEF TypeOK, DeletesAreLate, CompareAndDelete
  <1> QED BY <1>1, <1>2, <1>3, <1>4, <1>5

\* A call starts with a token nobody has and nothing refers to.
LEMMA AcquireIInv ==
  ASSUME IInv, NEW c \in Clients, AcquireLock(c)
  PROVE  IInv'
  <1> USE RedisLockAssumption DEF IInv
  <1>1. PICK t \in Tokens : /\ Fresh(t)
                            /\ token' = [token EXCEPT ![c] = t]
                            /\ SendSet(c, t)
    BY DEF AcquireLock
  <1>2. /\ pc[c] = "idle" /\ tries' = [tries EXCEPT ![c] = 1]
        /\ UNCHANGED <<key, ttl, reply>>
    BY DEF AcquireLock
  <1>3. TypeOK'
    BY <1>1, <1>2 DEF TypeOK, SendSet, Set
  <1>4. TokensDiffer'
    BY <1>1 DEF TypeOK, TokensDiffer, Fresh
  <1>5. RepliesAwaited'
    BY <1>1, <1>2 DEF TypeOK, RepliesAwaited, SendSet
  <1>6. KeyKept'
    BY <1>1, <1>2 DEF TypeOK, KeyKept, RepliesAwaited, Won, SendSet
  <1>7. DeletesAreLate'
    BY <1>1 DEF TypeOK, DeletesAreLate, SendSet, Fresh, Set, CompareAndDelete
  <1> QED BY <1>3, <1>4, <1>5, <1>6, <1>7

\* The client of a call that goes on, or holds, or begins to release.
LEMMA ClientIInv ==
  ASSUME IInv, NEW c \in Clients,
         Granted(c) \/ Refused(c) \/ TryAgain(c) \/ ReleaseLock(c)
  PROVE  IInv'
  <1> USE RedisLockAssumption DEF IInv
  <1>1. CASE Granted(c)
    BY <1>1 DEF Granted, TypeOK, TokensDiffer, RepliesAwaited, KeyKept, DeletesAreLate, Won,
                CompareAndDelete
  <1>2. CASE Refused(c)
    BY <1>2 DEF Refused, TypeOK, TokensDiffer, RepliesAwaited, KeyKept, DeletesAreLate, Won,
                CompareAndDelete
  <1>3. CASE TryAgain(c)
    <2> USE <1>3 DEF TryAgain, SendSet
    <2>1. TypeOK'
      BY DEF TypeOK, Set
    <2>2. TokensDiffer' /\ RepliesAwaited'
      BY DEF TypeOK, TokensDiffer, RepliesAwaited
    <2>3. KeyKept'
      BY DEF TypeOK, RepliesAwaited, KeyKept, Won
    <2>4. DeletesAreLate'
      BY DEF TypeOK, DeletesAreLate, Set, CompareAndDelete
    <2> QED BY <2>1, <2>2, <2>3, <2>4
  <1>4. CASE ReleaseLock(c)
    <2> USE <1>4 DEF ReleaseLock
    <2>1. TypeOK'
      BY DEF TypeOK, CompareAndDelete
    <2>2. TokensDiffer' /\ RepliesAwaited'
      BY DEF TypeOK, TokensDiffer, RepliesAwaited
    <2>3. KeyKept'
      BY DEF TypeOK, KeyKept, Won
    <2>4. DeletesAreLate'
      BY DEF TypeOK, TokensDiffer, DeletesAreLate, CompareAndDelete
    <2> QED BY <2>1, <2>2, <2>3, <2>4
  <1> QED BY <1>1, <1>2, <1>3, <1>4

\* The server gives the key away only when nobody counts on it, and deletes it only for one
\* who does not count on it any more.
LEMMA ServerIInv ==
  ASSUME IInv, NEW t \in Tokens, Server(t)
  PROVE  IInv'
  <1> USE RedisLockAssumption DEF IInv
  <1>1. CASE CarryOutSet(t)
    <2> USE <1>1 DEF CarryOutSet
    <2>1. CASE key = NoToken
      <3>1. /\ key' = t /\ ttl' = LockTtl
            /\ reply' = [c \in Clients |->
                           IF pc[c] = "setting" /\ token[c] = t THEN "ok" ELSE reply[c]]
        BY <2>1 DEF SetIfAbsent
      <3>2. TypeOK'
        BY <3>1 DEF TypeOK, Set
      <3>3. TokensDiffer' /\ RepliesAwaited'
        BY <3>1 DEF TypeOK, TokensDiffer, RepliesAwaited
      <3>4. \A c \in Clients : ~(Won(c) /\ lease[c] > 0)
        BY <2>1 DEF TypeOK, KeyKept, RepliesAwaited, Won
      <3>5. KeyKept'
        BY <3>1, <3>4 DEF TypeOK, KeyKept, Won
      <3>6. DeletesAreLate'
        BY DEF DeletesAreLate, Set, CompareAndDelete
      <3> QED BY <3>2, <3>3, <3>5, <3>6
    <2>2. CASE key # NoToken
      <3>1. /\ key' = key /\ ttl' = ttl
            /\ reply' = [c \in Clients |->
                           IF pc[c] = "setting" /\ token[c] = t THEN "no" ELSE reply[c]]
        BY <2>2 DEF SetIfAbsent
      <3>2. TypeOK'
        BY <3>1 DEF TypeOK, Set
      <3>3. TokensDiffer' /\ RepliesAwaited'
        BY <3>1 DEF TypeOK, TokensDiffer, RepliesAwaited
      <3>4. KeyKept'
        BY <3>1 DEF TypeOK, KeyKept, Won
      <3>5. DeletesAreLate'
        BY DEF DeletesAreLate, Set, CompareAndDelete
      <3> QED BY <3>2, <3>3, <3>4, <3>5
    <2> QED BY <2>1, <2>2
  <1>2. CASE CarryOutDelete(t)
    <2> USE <1>2 DEF CarryOutDelete
    <2>1. TypeOK'
      BY DEF TypeOK, CompareAndDelete
    <2>2. TokensDiffer' /\ RepliesAwaited'
      BY DEF TypeOK, TokensDiffer, RepliesAwaited
    <2>3. \A c \in Clients : Won(c) => token[c] # t
      BY DEF TypeOK, DeletesAreLate, Won, CompareAndDelete
    <2>4. KeyKept'
      BY <2>3 DEF TypeOK, KeyKept, Won, MayDelete
    <2>5. DeletesAreLate'
      BY DEF DeletesAreLate, CompareAndDelete
    <2> QED BY <2>1, <2>2, <2>4, <2>5
  <1>3. CASE Lose(Set(t)) \/ Lose(CompareAndDelete(t))
    BY <1>3 DEF Lose, TypeOK, TokensDiffer, RepliesAwaited, KeyKept, DeletesAreLate, Won
  <1> QED BY <1>1, <1>2, <1>3 DEF Server

\* A lease ends no later than the key.
LEMMA TickIInv ==
  ASSUME IInv, Tick
  PROVE  IInv'
  <1> USE RedisLockAssumption DEF IInv, Tick
  <1>1. TypeOK'
    BY DEF TypeOK
  <1>2. TokensDiffer' /\ RepliesAwaited' /\ DeletesAreLate'
    BY DEF TypeOK, TokensDiffer, RepliesAwaited, DeletesAreLate
  <1>3. KeyKept'
    BY DEF TypeOK, KeyKept, Won
  <1> QED BY <1>1, <1>2, <1>3

LEMMA NextIInv == IInv /\ [Next]_vars => IInv'
  <1> SUFFICES ASSUME IInv, [Next]_vars PROVE IInv'
    OBVIOUS
  <1>1. CASE \E c \in Clients : Client(c)
    <2>1. PICK c \in Clients : Client(c)
      BY <1>1
    <2>2. CASE AcquireLock(c)
      BY <2>2, AcquireIInv
    <2>3. CASE Granted(c) \/ Refused(c) \/ TryAgain(c) \/ ReleaseLock(c)
      BY <2>3, ClientIInv
    <2>4. CASE GiveUp(c) \/ AcquireRaises(c) \/ Released(c) \/ Crash(c)
      BY <2>4, ForgetIInv DEF GiveUp, AcquireRaises, Released, Crash
    <2> QED BY <2>1, <2>2, <2>3, <2>4 DEF Client
  <1>2. CASE \E t \in Tokens : Server(t)
    BY <1>2, ServerIInv
  <1>3. CASE Tick
    BY <1>3, TickIInv
  <1>4. CASE UNCHANGED vars
    BY <1>4 DEF vars, IInv, TypeOK, TokensDiffer, RepliesAwaited, KeyKept, DeletesAreLate, Won
  <1> QED BY <1>1, <1>2, <1>3, <1>4 DEF Next

LEMMA Inductive == Spec => []IInv
  BY InitIInv, NextIInv, PTL DEF Spec

-----------------------------------------------------------------------------
\* The lock is type correct: no client tries more often than it may, and it has a token
\* exactly while its call lasts or it holds.
THEOREM TypeCorrect == Spec => []TypeOK
  <1>1. IInv => TypeOK
    BY DEF IInv
  <1> QED BY <1>1, Inductive, PTL

\* acquire_lock and release_lock exclude: two clients that got the lock and sent the
\* winning SET less than lock_ttl_seconds ago are one.
THEOREM LockExcludes == Spec => []LeaseExcludes
  <1>1. IInv => LeaseExcludes
    <2> SUFFICES ASSUME IInv, NEW c \in Clients, NEW d \in Clients, Leases(c), Leases(d)
                 PROVE  c = d
      BY DEF LeaseExcludes
    <2>1. token[c] = key /\ token[d] = key
      BY DEF IInv, KeyKept, Won, Leases
    <2>2. token[c] # NoToken
      BY DEF IInv, TypeOK, Leases
    <2> QED BY <2>1, <2>2 DEF IInv, TokensDiffer
  <1> QED BY <1>1, Inductive, PTL

=============================================================================

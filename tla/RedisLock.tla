------------------------------ MODULE RedisLock ------------------------------
(***************************************************************************)
(* The distributed lock of RedisClient: acquire_lock and release_lock of   *)
(* several clients on one key, the server behind them, and time.           *)
(*                                                                         *)
(* A command is a message the server carries out at some later moment, or  *)
(* never.  A client that gets an error or no answer in time drops the      *)
(* connection; what it sent may still be carried out.                      *)
(***************************************************************************)
EXTENDS Integers, FiniteSets

CONSTANTS
  Clients,    \* threads that share the key
  Tokens,     \* the values uuid4 may return, and the bound on those in use at once
  NoToken,    \* no value
  LockTtl,    \* lock_ttl_seconds, in ticks
  LockRetry   \* lock_retry_times

ASSUME RedisLockAssumption ==
  /\ NoToken \notin Tokens
  /\ LockTtl \in Nat \ {0}
  /\ LockRetry \in Nat \ {0}

VARIABLES
  key,       \* what the server holds under the key of the lock
  ttl,       \* ticks until it expires
  commands,  \* commands sent and not yet carried out
  pc,        \* what each client does
  token,     \* the token of each client's current or last successful call
  tries,     \* how often the call has sent its SET
  reply,     \* the answer on its way to the client
  lease      \* ticks left of LockTtl since the client last sent a SET

vars == <<key, ttl, commands, pc, token, tries, reply, lease>>

Set(t) == <<"set", t>>
CompareAndDelete(t) == <<"delete", t>>

Init ==
  /\ key = NoToken /\ ttl = 0 /\ commands = {}
  /\ pc = [c \in Clients |-> "idle"]
  /\ token = [c \in Clients |-> NoToken]
  /\ tries = [c \in Clients |-> 0]
  /\ reply = [c \in Clients |-> "none"]
  /\ lease = [c \in Clients |-> 0]

-----------------------------------------------------------------------------
(* acquire_lock.                                                           *)

\* A token that has not been seen before.
Fresh(t) ==
  /\ t # key /\ Set(t) \notin commands /\ CompareAndDelete(t) \notin commands
  /\ \A c \in Clients : t # token[c]

SendSet(c, t) ==
  /\ pc' = [pc EXCEPT ![c] = "setting"]
  /\ commands' = commands \cup {Set(t)}
  /\ lease' = [lease EXCEPT ![c] = LockTtl]

AcquireLock(c) ==
  /\ pc[c] = "idle"
  /\ \E t \in Tokens :
       /\ Fresh(t)
       /\ token' = [token EXCEPT ![c] = t]
       /\ SendSet(c, t)
  /\ tries' = [tries EXCEPT ![c] = 1]
  /\ UNCHANGED <<key, ttl, reply>>

Granted(c) ==
  /\ pc[c] = "setting" /\ reply[c] = "ok"
  /\ pc' = [pc EXCEPT ![c] = "locked"]
  /\ reply' = [reply EXCEPT ![c] = "none"]
  /\ UNCHANGED <<key, ttl, commands, token, tries, lease>>

\* The client sleeps, after its last try as well.
Refused(c) ==
  /\ pc[c] = "setting" /\ reply[c] = "no"
  /\ pc' = [pc EXCEPT ![c] = "sleeping"]
  /\ reply' = [reply EXCEPT ![c] = "none"]
  /\ UNCHANGED <<key, ttl, commands, token, tries, lease>>

\* Wrong: one try more than configured.
TryOnceMore(c) ==
  /\ pc[c] = "sleeping" /\ tries[c] <= LockRetry
  /\ SendSet(c, token[c])
  /\ tries' = [tries EXCEPT ![c] = @ + 1]
  /\ UNCHANGED <<key, ttl, token, reply>>

TryAgain(c) ==
  /\ pc[c] = "sleeping" /\ tries[c] < LockRetry
  /\ SendSet(c, token[c])
  /\ tries' = [tries EXCEPT ![c] = @ + 1]
  /\ UNCHANGED <<key, ttl, token, reply>>

\* The call, or the process, of c ends, and c knows its token no more.
Forget(c) ==
  /\ pc' = [pc EXCEPT ![c] = "idle"]
  /\ token' = [token EXCEPT ![c] = NoToken]
  /\ tries' = [tries EXCEPT ![c] = 0]
  /\ reply' = [reply EXCEPT ![c] = "none"]
  /\ lease' = [lease EXCEPT ![c] = 0]
  /\ UNCHANGED <<key, ttl, commands>>

GiveUp(c) == pc[c] = "sleeping" /\ tries[c] = LockRetry /\ Forget(c)

\* A RedisError leaves acquire_lock.
AcquireRaises(c) == pc[c] = "setting" /\ Forget(c)

-----------------------------------------------------------------------------
(* release_lock.                                                           *)

\* The holder may call it as late as it likes.
ReleaseLock(c) ==
  /\ pc[c] = "locked"
  /\ pc' = [pc EXCEPT ![c] = "releasing"]
  /\ commands' = commands \cup {CompareAndDelete(token[c])}
  /\ UNCHANGED <<key, ttl, token, tries, reply, lease>>

\* release_lock returns when it has an answer and when it gets an error.
Released(c) == pc[c] = "releasing" /\ Forget(c)

\* The process of c ends; its threads start over with a new one.
Crash(c) == pc[c] # "idle" /\ Forget(c)

-----------------------------------------------------------------------------
(* The server.                                                             *)

\* Wrong: every try starts the time of the key again.
ExtendAlways(t) == IF key = NoToken THEN [key |-> t, ttl |-> LockTtl, reply |-> "ok"]
                   ELSE [key |-> key, ttl |-> LockTtl, reply |-> "no"]

\* SET with NX and EX.
SetIfAbsent(t) == IF key = NoToken THEN [key |-> t, ttl |-> LockTtl, reply |-> "ok"]
                  ELSE [key |-> key, ttl |-> ttl, reply |-> "no"]

\* Wrong: whoever asks has the key deleted.
DeleteAnyway(t) == TRUE

\* The script deletes the key of its caller only.
MayDelete(t) == key = t

CarryOutSet(t) ==
  /\ Set(t) \in commands
  /\ commands' = commands \ {Set(t)}
  /\ key' = SetIfAbsent(t).key
  /\ ttl' = SetIfAbsent(t).ttl
  /\ reply' = [c \in Clients |->
                 IF pc[c] = "setting" /\ token[c] = t THEN SetIfAbsent(t).reply ELSE reply[c]]
  /\ UNCHANGED <<pc, token, tries, lease>>

CarryOutDelete(t) ==
  /\ CompareAndDelete(t) \in commands
  /\ commands' = commands \ {CompareAndDelete(t)}
  /\ IF MayDelete(t) THEN key' = NoToken /\ ttl' = 0 ELSE UNCHANGED <<key, ttl>>
  /\ UNCHANGED <<pc, token, tries, reply, lease>>

\* A command gets lost.
Lose(x) ==
  /\ x \in commands
  /\ commands' = commands \ {x}
  /\ UNCHANGED <<key, ttl, pc, token, tries, reply, lease>>

Tick ==
  /\ ttl' = IF ttl > 0 THEN ttl - 1 ELSE 0
  /\ key' = IF ttl <= 1 THEN NoToken ELSE key
  /\ lease' = [c \in Clients |-> IF lease[c] > 0 THEN lease[c] - 1 ELSE 0]
  /\ UNCHANGED <<commands, pc, token, tries, reply>>

-----------------------------------------------------------------------------
Client(c) ==
  \/ AcquireLock(c) \/ Granted(c) \/ Refused(c) \/ TryAgain(c) \/ GiveUp(c)
  \/ AcquireRaises(c) \/ ReleaseLock(c) \/ Released(c) \/ Crash(c)

Server(t) ==
  CarryOutSet(t) \/ CarryOutDelete(t) \/ Lose(Set(t)) \/ Lose(CompareAndDelete(t))

Next == (\E c \in Clients : Client(c)) \/ (\E t \in Tokens : Server(t)) \/ Tick

\* Time goes on; nobody has to do anything else.
Spec == Init /\ [][Next]_vars /\ WF_vars(Tick)

=============================================================================

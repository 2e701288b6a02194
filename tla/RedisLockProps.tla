--------------------------- MODULE RedisLockProps ---------------------------
(***************************************************************************)
(* What acquire_lock and release_lock guarantee their callers.             *)
(***************************************************************************)
EXTENDS RedisLock

\* The types of the variables; a client that waits or holds has a token.
TypeOK ==
  /\ key \in Tokens \cup {NoToken}
  /\ ttl \in 0 .. LockTtl
  /\ commands \subseteq {"set", "delete"} \X Tokens
  /\ pc \in [Clients -> {"idle", "setting", "sleeping", "locked", "releasing"}]
  /\ token \in [Clients -> Tokens \cup {NoToken}]
  /\ tries \in [Clients -> 0 .. LockRetry]
  /\ reply \in [Clients -> {"none", "ok", "no"}]
  /\ lease \in [Clients -> 0 .. LockTtl]
  /\ \A c \in Clients : pc[c] = "idle" <=> token[c] = NoToken

\* A client whose SET was answered with success, and sent less than LockTtl ago.
Leases(c) == pc[c] = "locked" /\ lease[c] > 0

\* Two clients never hold the lock at once, as long as each counts the time of its lock
\* from when it sent the SET that won: late and lost commands, answers that come late,
\* calls that raised after the server had taken their token, and releases after the lock
\* had expired and gone to another do not change that.
LeaseExcludes == \A c, d \in Clients : Leases(c) /\ Leases(d) => c = d

\* No token keeps the key for ever: neither one whose owner crashed or was told of an error
\* although the server took it, nor one whose release was lost, however often others try.
LockFreed == \A t \in Tokens : key = t ~> key # t

=============================================================================

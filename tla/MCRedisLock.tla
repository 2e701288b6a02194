----------------------------- MODULE MCRedisLock -----------------------------
(***************************************************************************)
(* Constants for checking RedisLock.                                       *)
(***************************************************************************)
EXTENDS RedisLockProps

=============================================================================

-------------------------- MODULE ElementCacheProps --------------------------
(***************************************************************************)
(* What ElementCacheManager promises about the age of its answers.         *)
(***************************************************************************)
EXTENDS ElementCache

\* The values get answers with, if the thread takes its next step now.
Answers(t) ==
  (IF pc[t] = "take" /\ FreshEntry(t) THEN {Local(t).value} ELSE {})
    \cup (IF pc[t] = "fill" THEN {value[t]} ELSE {})

\* A value that was replaced, deleted or expired in Redis is answered for less than L1Ttl
\* and the time of a call longer, by any process: also when it was read before and put in
\* the local level after it was invalidated, by the very process that invalidated it, and
\* when calls failed or were carried out late.
BoundedStaleness ==
  \A t \in Threads : \A v \in Answers(t) : gone[v] < L1Ttl + CallTicks

=============================================================================

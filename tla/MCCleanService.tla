--------------------------- MODULE MCCleanService ---------------------------
(***************************************************************************)
(* Constants for checking CleanService: requests for one document, whose   *)
(* file changed between the first two; every version shows the same logo.  *)
(***************************************************************************)
EXTENDS CleanServiceProps

CONSTANTS first, changed, again, t1, t2, report, logo

MCModules == <<"image", "table">>

Logo  == [kind |-> "image", hash |-> logo]
Empty == [kind |-> "image", hash |-> NoHash]
Grid  == [kind |-> "table", hash |-> NoHash]

MCDoc  == [r \in Requests |-> report]
MCTask == [r \in Requests |-> IF r = first THEN t1 ELSE t2]
MCElements ==
  [r \in Requests |-> IF r = changed THEN <<Logo, Empty>> ELSE <<Logo, Grid>>]

=============================================================================

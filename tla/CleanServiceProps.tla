------------------------- MODULE CleanServiceProps -------------------------
(***************************************************************************)
(* What concurrent Clean calls guarantee.                                  *)
(***************************************************************************)
EXTENDS CleanService

Results == {"processed", "raised", "skipped", "duplicate", "described", "plain"}

Holder == Requests \cup {None}

Hashes == UNION {{Elements[r][i].hash : i \in 1 .. Len(Elements[r])} : r \in Requests}

TypeOK ==
  /\ registry \in Holder /\ procs \in [Requests -> [Kinds -> Nat]]
  /\ seen \in Seq(SUBSET Hashes)
  /\ \A g \in Requests, k \in Kinds : procs[g][k] <= Len(seen)
  /\ loaded \subseteq Kinds /\ importer \in [Kinds -> Holder]
  /\ pc \in [Requests -> {"new", "check", "obtain", "lookup", "match", "process",
                          "remember", "describe", "markdown", "metadata"}
                           \cup Discovery \cup Final]
  /\ reg \in [Requests -> Holder] /\ bound \in [Requests -> Holder]
  /\ idx \in [Requests -> Nat \ {0}] /\ num \in [Requests -> Nat]
  /\ out \in [Requests -> Seq(Results)]
  /\ machines \subseteq {Task[r] : r \in Requests} /\ crashes \in Nat
  /\ markdown \in [Docs -> Holder] /\ metadata \in [Docs -> Holder]
  /\ overlaps \subseteq Docs

-----------------------------------------------------------------------------
(* Safety.                                                                 *)

\* Once nobody is in get_element_registry, the global registry has a processor
\* for every element kind, even if several requests created registries and
\* filled them together.
SettledRegistryComplete ==
  registry # None /\ (\A r \in Requests : pc[r] \notin Discovery) =>
    \A k \in Kinds : procs[registry][k] # 0

\* An image called a duplicate has a first copy: some image with the same hash
\* was handed to OCR and description, or is about to be, or the process ended
\* while it was.
DuplicatesHaveOriginal ==
  \A r \in Requests : \A i \in 1 .. Len(out[r]) :
    out[r][i] = "duplicate" =>
      \E q \in Requests : \E j \in 1 .. Len(Elements[q]) :
        /\ Elements[q][j].hash = Elements[r][i].hash
        /\ IF j <= Len(out[q]) THEN out[q][j] \in {"described", "plain"}
                               ELSE j = idx[q] /\ pc[q] \in {"describe", "dead"}

\* What is stored belongs to its document and comes from a run that went
\* through all of the document's elements: an exception on the way never
\* leaves half a document.
StoredAreWhole ==
  \A d \in Docs : \A r \in {markdown[d], metadata[d]} \ {None} :
    Doc[r] = d /\ Len(out[r]) = Len(Elements[r])

\* Markdown and metadata of a document come from the same run, unless two runs
\* stored them at the same time or one was cut short between the two puts.
PairsMatch ==
  \A d \in Docs :
    \/ markdown[d] = metadata[d]
    \/ d \in overlaps
    \/ \E r \in Requests : Doc[r] = d /\ pc[r] \in {"metadata", "partial", "dead"}

-----------------------------------------------------------------------------
(* Liveness.                                                               *)

\* Every accepted request is answered or ends with its process: the imports of
\* concurrent first requests wait for one another but not for ever.
EveryRequestEnds ==
  \A r \in Requests : pc[r] \notin Final \cup {"new"} ~> pc[r] \in Final

-----------------------------------------------------------------------------
(* What the repository says of the program and the program does not do.    *)

\* pipeline.py: "Dispatch every element to its registered processor(s)".
SuccessMeansDispatched ==
  \A r \in Requests : pc[r] = "success" =>
    \A i \in 1 .. Len(out[r]) : out[r][i] # "skipped"

=============================================================================

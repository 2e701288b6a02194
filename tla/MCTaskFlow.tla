----------------------------- MODULE MCTaskFlow -----------------------------
(***************************************************************************)
(* Constants for checking TaskFlow: a PDF, which is preprocessed, a        *)
(* Markdown file, which is not, and a file of no supported format.         *)
(***************************************************************************)
EXTENDS TaskFlowProps

CONSTANTS pdf, note, exe

MCFile == [k \in Tasks |->
             CASE k = pdf  -> [ext |-> "pdf", mime |-> ""]
               [] k = note -> [ext |-> "", mime |-> "markdown"]
               [] k = exe  -> [ext |-> "exe", mime |-> "octet-stream"]]

AllViews == {ConsumeTopics}

\* The broker may know every topic, or none, which makes start() subscribe.
SomeViews == {ConsumeTopics, {}}

=============================================================================

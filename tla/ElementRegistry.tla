--------------------------- MODULE ElementRegistry ---------------------------
(***************************************************************************)
(* The element processors as the requests of the gRPC thread pool share    *)
(* them (elements/registry.py, elements/base.py, Pipeline.                 *)
(* _stage_element_process, the image processor).                           *)
(*                                                                         *)
(* The registry is created by the first request that asks for it and       *)
(* filled by importing one module per kind of processor; nothing is locked *)
(* but the import of a module, which Python serialises.  A step of a       *)
(* request is one access to what the requests share.                       *)
(***************************************************************************)
EXTENDS Naturals, Sequences, FiniteSets

CONSTANTS
  Requests,   \* Clean requests, each handled by a thread of its own
  Modules,    \* the modules of elements.processors, in import order
  Elements,   \* the elements of the document of a request: [kind, hash]
  None, NoHash

ASSUME RegistryAssumption ==
  /\ None \notin Requests
  /\ Modules \in Seq(STRING)
  /\ \A i, j \in 1 .. Len(Modules) : Modules[i] = Modules[j] => i = j
  /\ DOMAIN Elements = Requests
  /\ \A r \in Requests : Elements[r] \in Seq({Elements[r][i] : i \in DOMAIN Elements[r]})
  /\ \A r \in Requests : \A i \in 1 .. Len(Elements[r]) :
       Elements[r][i].kind \in {Modules[j] : j \in 1 .. Len(Modules)}

Kinds == {Modules[i] : i \in 1 .. Len(Modules)}

VARIABLES
  \* the process
  registry,   \* _global_registry: None, or the request that created it
  procs,      \* registry -> kind -> its processor, 0 if there is none
  seen,       \* processor -> its _seen_hashes
  loaded,     \* modules whose import is complete
  importer,   \* module -> the request importing it
  \* the threads
  pc,         \* where the thread of a request is
  reg,        \* the registry it holds
  bound,      \* the registry the module it imports registers with
  idx,        \* the module or the element it is at
  num,        \* the size of the registry, or the processor, it looked up
  out         \* what became of the elements so far

shared == <<registry, procs, seen, loaded, importer>>
local  == <<reg, bound, idx, num, out>>

Go(r, from, to) == pc[r] = from /\ pc' = [pc EXCEPT ![r] = to]

Module(r)  == Modules[idx[r]]
Element(r) == Elements[r][idx[r]]

\* An instance of the processor of kind k joins registry g; it replaces the
\* one that is there.
Register(g, k) == /\ procs' = [procs EXCEPT ![g][k] = Len(seen) + 1]
                  /\ seen' = Append(seen, {})

NoProcessors == [k \in Kinds |-> 0]

InitRegistry ==
  /\ registry = None /\ procs = [g \in Requests |-> NoProcessors]
  /\ seen = <<>> /\ loaded = {} /\ importer = [k \in Kinds |-> None]

InitLocal ==
  /\ reg = [r \in Requests |-> None] /\ bound = [r \in Requests |-> None]
  /\ idx = [r \in Requests |-> 1] /\ num = [r \in Requests |-> 0]
  /\ out = [r \in Requests |-> <<>>]

-----------------------------------------------------------------------------
(* get_element_registry and discover.                                      *)

Discovery == {"create", "discover", "import", "exec", "scan", "register"}

Check(r) ==
  /\ \/ registry = None /\ Go(r, "check", "create")
     \/ registry # None /\ Go(r, "check", "obtain")
  /\ UNCHANGED <<shared, local>>

\* The new registry is visible from here on.
Create(r) ==
  /\ Go(r, "create", "discover")
  /\ registry' = r
  /\ UNCHANGED <<procs, seen, loaded, importer, local>>

\* discover runs on whatever _global_registry is by now.
Discover(r) ==
  /\ Go(r, "discover", "import")
  /\ reg' = [reg EXCEPT ![r] = registry] /\ idx' = [idx EXCEPT ![r] = 1]
  /\ UNCHANGED <<shared, bound, num, out>>

\* Wrong: a plain lock around get_element_registry, which the import of a
\* module calls again.
MayReadLocked(r) == \A q \in Requests : pc[q] \notin Discovery

\* The import of a module may call get_element_registry at any time.
MayRead(r) == TRUE

\* import_module: the module is there, or this thread takes its import lock and
\* executes it, which binds the registry that is global now.
Import(r) ==
  /\ pc[r] = "import" /\ idx[r] <= Len(Modules)
  /\ \/ /\ Module(r) \in loaded /\ Go(r, "import", "scan")
        /\ UNCHANGED <<importer, bound>>
     \/ /\ Module(r) \notin loaded /\ importer[Module(r)] = None /\ MayRead(r)
        /\ Go(r, "import", "exec")
        /\ importer' = [importer EXCEPT ![Module(r)] = r]
        /\ bound' = [bound EXCEPT ![r] = registry]
  /\ UNCHANGED <<registry, procs, seen, loaded, reg, idx, num, out>>

\* The decorator registers the class; the import is complete.
Exec(r) ==
  /\ Go(r, "exec", "scan")
  /\ Register(bound[r], Module(r))
  /\ loaded' = loaded \cup {Module(r)}
  /\ importer' = [importer EXCEPT ![Module(r)] = None]
  /\ UNCHANGED <<registry, local>>

\* Wrong: only the decorator registers.
MissingNever(r) == FALSE

\* discover finds the class in the module and its name not in the registry.
Missing(r) == procs[reg[r]][Module(r)] = 0

Scan(r) ==
  /\ pc[r] = "scan"
  /\ \/ Missing(r) /\ Go(r, "scan", "register") /\ UNCHANGED idx
     \/ ~Missing(r) /\ Go(r, "scan", "import") /\ idx' = [idx EXCEPT ![r] = @ + 1]
  /\ UNCHANGED <<shared, reg, bound, num, out>>

RegisterScanned(r) ==
  /\ Go(r, "register", "import")
  /\ Register(reg[r], Module(r))
  /\ idx' = [idx EXCEPT ![r] = @ + 1]
  /\ UNCHANGED <<registry, loaded, importer, reg, bound, num, out>>

\* All modules seen; load_config has nothing to set in the shipped settings.
Discovered(r) ==
  /\ Go(r, "import", "obtain") /\ idx[r] > Len(Modules)
  /\ UNCHANGED <<shared, local>>

\* get_element_registry returns; it reads the global once more.
Obtain(r) ==
  /\ Go(r, "obtain", "lookup")
  /\ reg' = [reg EXCEPT ![r] = registry] /\ idx' = [idx EXCEPT ![r] = 1]
  /\ UNCHANGED <<shared, bound, num, out>>

Registering(r) ==
  \/ Check(r) \/ Create(r) \/ Discover(r) \/ Import(r) \/ Exec(r) \/ Scan(r)
  \/ RegisterScanned(r) \/ Discovered(r) \/ Obtain(r)

-----------------------------------------------------------------------------
(* _stage_element_process, one element after the other.                    *)

Size(g) == Cardinality({k \in Kinds : procs[g][k] # 0})

Result(r, result) ==
  /\ out' = [out EXCEPT ![r] = Append(@, result)]
  /\ idx' = [idx EXCEPT ![r] = @ + 1]

\* get_for_element begins to iterate over the processors.
Lookup(r) ==
  /\ idx[r] <= Len(Elements[r]) /\ Go(r, "lookup", "match")
  /\ num' = [num EXCEPT ![r] = Size(reg[r])]
  /\ UNCHANGED <<shared, reg, bound, idx, out>>

\* Wrong: an exception of the lookup ends the stage, not the request.
StageEnds == "markdown"

\* Python raises when a dictionary grows under its iterator; the call is
\* outside the try of _stage_element_process, so Clean answers FAILED.
LookupRaised == "failed"

\* Wrong: the element is replaced by the result of a call nobody made.
ElementLost == None

\* The loop over no processor at all leaves the element as it is.
Untouched == "skipped"

\* get_for_element ends.
Match(r) ==
  LET processor == procs[reg[r]][Element(r).kind]
  IN  /\ pc[r] = "match"
      /\ \/ /\ Size(reg[r]) # num[r] /\ Go(r, "match", LookupRaised)
            /\ UNCHANGED <<num, out, idx>>
         \/ /\ Size(reg[r]) = num[r] /\ processor # 0 /\ Go(r, "match", "process")
            /\ num' = [num EXCEPT ![r] = processor]
            /\ UNCHANGED <<out, idx>>
         \/ /\ Size(reg[r]) = num[r] /\ processor = 0 /\ Go(r, "match", "lookup")
            /\ Result(r, Untouched)
            /\ UNCHANGED num
      /\ UNCHANGED <<shared, reg, bound>>

\* execute, for all processors but the image processor; what it raises is
\* logged and the element stays as it is.
Process(r) ==
  /\ Go(r, "process", "lookup") /\ Element(r).kind # "image"
  /\ \E result \in {"processed", "raised"} : Result(r, result)
  /\ UNCHANGED <<shared, reg, bound, num>>

\* Wrong: the hash is noted before it is looked for.
NotedHashes(r) == seen[num[r]] \cup {Element(r).hash}

SeenHashes(r) == seen[num[r]]

\* ImageProcessor.process looks for the hash of the image.
ProcessImage(r) ==
  /\ pc[r] = "process" /\ Element(r).kind = "image"
  /\ \/ /\ Element(r).hash \in SeenHashes(r) /\ Go(r, "process", "lookup")
        /\ Result(r, "duplicate")
     \/ /\ Element(r).hash \notin SeenHashes(r) \cup {NoHash}
        /\ Go(r, "process", "remember") /\ UNCHANGED <<out, idx>>
     \/ /\ Element(r).hash = NoHash
        /\ Go(r, "process", "describe") /\ UNCHANGED <<out, idx>>
  /\ UNCHANGED <<shared, reg, bound, num>>

\* It notes the hash of an image it had not seen.
Remember(r) ==
  /\ Go(r, "remember", "describe")
  /\ seen' = [seen EXCEPT ![num[r]] = @ \cup {Element(r).hash}]
  /\ UNCHANGED <<registry, procs, loaded, importer, local>>

\* OCR and description; both swallow their exceptions.
Describe(r) ==
  /\ Go(r, "describe", "lookup")
  /\ \E result \in {"described", "plain"} : Result(r, result)
  /\ UNCHANGED <<shared, reg, bound, num>>

Processing(r) ==
  \/ Lookup(r) \/ Match(r) \/ Process(r) \/ ProcessImage(r) \/ Remember(r)
  \/ Describe(r)

=============================================================================

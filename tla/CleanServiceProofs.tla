-------------------------- MODULE CleanServiceProofs --------------------------
(***************************************************************************)
(* Theorems about CleanService, for any number of requests, modules and    *)
(* elements.  Every step but a crash is one of one request, so an          *)
(* invariant about what requests hold needs a look at that request, and at *)
(* what the others share with it.                                          *)
(***************************************************************************)
EXTENDS CleanServiceProps, FiniteSetTheorems, TLAPS

\* Where a request fills a registry, and where it works on its elements.
Filling == {"import", "exec", "scan", "register"}
Working == {"lookup", "match", "process", "remember", "describe"}

\* Where a request is before it looks at the first element.
Early == {"new", "check", "obtain"} \cup Discovery

\* What request r holds where it is.
Holds(r) ==
  /\ pc[r] \notin {"new", "check", "create"} \cup Final => registry # None
  /\ pc[r] \in Filling \cup Working => reg[r] # None
  /\ pc[r] = "exec" => bound[r] # None
  /\ pc[r] \in {"exec", "scan", "register"} => idx[r] <= Len(Modules)
  /\ pc[r] \in {"process", "remember"} => num[r] \in 1 .. Len(seen)

\* The results of request r so far are those of the elements before idx[r].
InStep(r) ==
  /\ pc[r] \in Early => out[r] = <<>>
  /\ pc[r] \in Working => idx[r] = Len(out[r]) + 1 /\ Len(out[r]) <= Len(Elements[r])
  /\ pc[r] \in Working \ {"lookup"} => idx[r] <= Len(Elements[r])
  /\ pc[r] \in {"markdown", "metadata", "success", "partial"} =>
       Len(out[r]) = Len(Elements[r])

IInv == TypeOK /\ \A r \in Requests : Holds(r) /\ InStep(r)

\* Registry g has a processor of each kind in the first n modules.
FilledTo(g, n) == \A i \in 1 .. n : i <= Len(Modules) => procs[g][Modules[i]] # 0

\* What a request is done with is in its registry, and as long as something is
\* missing from the global one a request is there to register it.
RegistryInv ==
  /\ \A r \in Requests : pc[r] \in Filling => FilledTo(reg[r], idx[r] - 1)
  /\ registry # None =>
       \/ FilledTo(registry, Len(Modules))
       \/ \E r \in Requests :
            pc[r] = "discover" \/ (pc[r] \in Filling /\ reg[r] = registry)

\* An image with hash h was handed to OCR and description, or is about to be.
HasOriginal(h) ==
  \E q \in Requests : \E j \in 1 .. Len(Elements[q]) :
    /\ Elements[q][j].hash = h
    /\ IF j <= Len(out[q]) THEN out[q][j] \in {"described", "plain"}
                           ELSE j = idx[q] /\ pc[q] \in {"describe", "dead"}

\* Every hash that is noted anywhere has its first image.
NotedInv == \A p \in 1 .. Len(seen) : \A h \in seen[p] : HasOriginal(h)

\* What is stored was stored by a request that had all elements, and between its
\* two puts a request finds its Markdown there, unless another overlapped it.
StoredInv ==
  /\ \A d \in Docs : \A r \in {markdown[d], metadata[d]} \ {None} :
       /\ Doc[r] = d /\ Len(out[r]) = Len(Elements[r])
       /\ pc[r] \in {"metadata", "success", "partial", "dead"}
  /\ \A r \in Requests : pc[r] = "metadata" =>
       markdown[Doc[r]] = r \/ Doc[r] \in overlaps

-----------------------------------------------------------------------------
(* Modules, elements and processors.                                       *)

LEMMA ModuleFacts ==
  /\ Len(Modules) \in Nat
  /\ \A i \in 1 .. Len(Modules) : Modules[i] \in Kinds
  /\ \A k \in Kinds : \E i \in 1 .. Len(Modules) : k = Modules[i]
BY RegistryAssumption DEF Kinds

LEMMA ElementFacts ==
  ASSUME NEW r \in Requests
  PROVE  /\ Len(Elements[r]) \in Nat
         /\ \A i \in 1 .. Len(Elements[r]) : /\ Elements[r][i].kind \in Kinds
                                             /\ Elements[r][i].hash \in Hashes
BY RegistryAssumption DEF Kinds, Hashes

LEMMA RegisterTyped ==
  ASSUME TypeOK, NEW g \in Requests, NEW k \in Kinds, Register(g, k)
  PROVE  /\ procs' \in [Requests -> [Kinds -> Nat]]
         /\ seen' \in Seq(SUBSET Hashes)
         /\ Len(seen) \in Nat /\ Len(seen') = Len(seen) + 1
         /\ \A h \in Requests, l \in Kinds : procs'[h][l] <= Len(seen')
         /\ \A h \in Requests, l \in Kinds :
              procs'[h][l] = IF h = g /\ l = k THEN Len(seen) + 1 ELSE procs[h][l]
<1>1. /\ procs \in [Requests -> [Kinds -> Nat]] /\ seen \in Seq(SUBSET Hashes)
      /\ \A h \in Requests, l \in Kinds : procs[h][l] <= Len(seen)
  BY DEF TypeOK
<1>2. Len(seen) \in Nat
  BY <1>1
<1>3. seen' \in Seq(SUBSET Hashes) /\ Len(seen') = Len(seen) + 1
  BY <1>1 DEF Register
<1>4. procs' = [procs EXCEPT ![g][k] = Len(seen) + 1]
  BY DEF Register
<1>5. procs' \in [Requests -> [Kinds -> Nat]]
  BY <1>1, <1>2, <1>4
<1>6. \A h \in Requests, l \in Kinds :
        procs'[h][l] = IF h = g /\ l = k THEN Len(seen) + 1 ELSE procs[h][l]
  BY <1>1, <1>4
<1> QED
  BY <1>1, <1>2, <1>3, <1>5, <1>6

LEMMA AtModule ==
  ASSUME TypeOK, NEW r \in Requests, idx[r] <= Len(Modules)
  PROVE  idx[r] \in 1 .. Len(Modules) /\ Module(r) \in Kinds
<1>1. idx[r] \in 1 .. Len(Modules)
  BY ModuleFacts DEF TypeOK
<1> QED
  BY <1>1, ModuleFacts DEF Module

LEMMA NextIdx ==
  ASSUME TypeOK, NEW r \in Requests
  PROVE  [idx EXCEPT ![r] = @ + 1] \in [Requests -> Nat \ {0}]
<1>1. idx \in [Requests -> Nat \ {0}]
  BY DEF TypeOK
<1>2. \A n \in Nat \ {0} : n + 1 \in Nat \ {0}
  OBVIOUS
<1> QED
  BY <1>1, <1>2

LEMMA AtElement ==
  ASSUME TypeOK, NEW r \in Requests, idx[r] <= Len(Elements[r])
  PROVE  /\ idx[r] \in 1 .. Len(Elements[r])
         /\ Element(r).kind \in Kinds /\ Element(r).hash \in Hashes
<1>1. idx[r] \in 1 .. Len(Elements[r])
  BY ElementFacts DEF TypeOK
<1> QED
  BY <1>1, ElementFacts DEF Element

LEMMA ResultTyped ==
  ASSUME TypeOK, NEW r \in Requests, NEW result \in Results, Result(r, result)
  PROVE  /\ out' \in [Requests -> Seq(Results)]
         /\ idx' \in [Requests -> Nat \ {0}]
         /\ idx'[r] = idx[r] + 1
         /\ Len(out[r]) \in Nat /\ Len(out'[r]) = Len(out[r]) + 1
         /\ out'[r][Len(out[r]) + 1] = result
         /\ \A i \in 1 .. Len(out[r]) : out'[r][i] = out[r][i]
         /\ \A q \in Requests \ {r} : out'[q] = out[q] /\ idx'[q] = idx[q]
<1>1. out \in [Requests -> Seq(Results)] /\ idx \in [Requests -> Nat \ {0}]
  BY DEF TypeOK
<1>2. /\ out' = [out EXCEPT ![r] = Append(@, result)]
      /\ idx' = [idx EXCEPT ![r] = @ + 1]
  BY DEF Result
<1>3. out[r] \in Seq(Results)
  BY <1>1
<1>4. /\ Append(out[r], result) \in Seq(Results)
      /\ Len(out[r]) \in Nat /\ Len(Append(out[r], result)) = Len(out[r]) + 1
      /\ Append(out[r], result)[Len(out[r]) + 1] = result
      /\ \A i \in 1 .. Len(out[r]) : Append(out[r], result)[i] = out[r][i]
  BY <1>3
<1>5. out'[r] = Append(out[r], result)
  BY <1>1, <1>2
<1>6. out' \in [Requests -> Seq(Results)] /\ idx' \in [Requests -> Nat \ {0}]
  BY <1>1, <1>2, <1>4, NextIdx
<1> QED
  BY <1>1, <1>2, <1>4, <1>5, <1>6

\* The kinds are finitely many, so the size of a registry is a number.
LEMMA SizeTyped ==
  ASSUME NEW g
  PROVE  Size(g) \in Nat
<1> DEFINE f == [i \in 1 .. Len(Modules) |-> Modules[i]]
<1>1. f \in Surjection(1 .. Len(Modules), Kinds)
  BY DEF Surjection, Kinds
<1>2. IsFiniteSet(1 .. Len(Modules))
  BY ModuleFacts, FS_Interval
<1>3. IsFiniteSet(Kinds)
  BY <1>1, <1>2, FS_Surjection
<1>4. IsFiniteSet({k \in Kinds : procs[g][k] # 0})
  BY <1>3, FS_Subset
<1> QED
  BY <1>4, FS_CardinalityType DEF Size

-----------------------------------------------------------------------------
LEMMA InvInit == Init => IInv
<1> SUFFICES ASSUME Init PROVE IInv
  OBVIOUS
<1>1. TypeOK
  BY DEF Init, InitRegistry, InitLocal, TypeOK, NoProcessors, Holder
<1>2. \A r \in Requests : Holds(r) /\ InStep(r)
  BY DEF Init, InitLocal, Holds, InStep, Filling, Working, Final, Early
<1> QED
  BY <1>1, <1>2 DEF IInv

\* What the steps of request r that register processors change.
LEMMA RegisteringInv ==
  ASSUME IInv, NEW r \in Requests, Registering(r),
         UNCHANGED <<machines, objects, crashes>>
  PROVE  IInv'
<1> USE DEF Go
<1>1. CASE Check(r)
  <2>1. TypeOK'
    BY <1>1 DEF IInv, TypeOK, Check, shared, local, objects, Discovery
  <2>2. \A q \in Requests : Holds(q)' /\ InStep(q)'
    BY <1>1 DEF IInv, TypeOK, Holds, InStep, Filling, Working, Early, Discovery, Final,
       Check, shared, local
  <2> QED
    BY <2>1, <2>2 DEF IInv
<1>2. CASE Create(r)
  <2>1. TypeOK'
    BY <1>2 DEF IInv, TypeOK, Create, local, objects, Discovery, Holder
  <2>2. \A q \in Requests : Holds(q)' /\ InStep(q)'
    BY <1>2, RegistryAssumption DEF IInv, TypeOK, Holds, InStep, Filling, Working, Early,
       Discovery, Final, Create, local
  <2> QED
    BY <2>1, <2>2 DEF IInv
<1>3. CASE Discover(r)
  <2>1. TypeOK'
    BY <1>3 DEF IInv, TypeOK, Discover, shared, objects, Discovery
  <2>2. \A q \in Requests : Holds(q)' /\ InStep(q)'
    BY <1>3 DEF IInv, TypeOK, Holds, InStep, Filling, Working, Early,
       Discovery, Final, Discover, shared
  <2> QED
    BY <2>1, <2>2 DEF IInv
<1>4. CASE Import(r)
  <2>1. TypeOK'
    <3>1. /\ importer \in [Kinds -> Holder] /\ bound \in [Requests -> Holder]
          /\ registry \in Holder /\ r \in Holder
      BY DEF IInv, TypeOK, Holder
    <3>2. Module(r) \in Kinds
      BY <1>4, AtModule DEF IInv, Import
    <3>3. importer' \in [Kinds -> Holder] /\ bound' \in [Requests -> Holder]
      BY <1>4, <3>1, <3>2 DEF Import
    <3> QED
      BY <1>4, <3>3 DEF IInv, TypeOK, Import, objects, Discovery
  <2>2. \A q \in Requests : Holds(q)' /\ InStep(q)'
    BY <1>4 DEF IInv, TypeOK, Holds, InStep, Filling, Working, Early,
       Discovery, Final, Import
  <2> QED
    BY <2>1, <2>2 DEF IInv
<1>5. CASE Exec(r)
  <2>1. bound[r] \in Requests /\ Module(r) \in Kinds
    BY <1>5, AtModule DEF IInv, TypeOK, Exec, Holds, Holder
  <2>2. /\ procs' \in [Requests -> [Kinds -> Nat]] /\ seen' \in Seq(SUBSET Hashes)
        /\ Len(seen) \in Nat /\ Len(seen') = Len(seen) + 1
        /\ \A h \in Requests, l \in Kinds : procs'[h][l] <= Len(seen')
    BY <1>5, <2>1, RegisterTyped DEF IInv, Exec
  <2>3. TypeOK'
    BY <1>5, <2>1, <2>2 DEF IInv, TypeOK, Exec, objects, Discovery, Holder, local
  <2>4. \A q \in Requests : Holds(q)' /\ InStep(q)'
    BY <1>5, <2>2 DEF IInv, TypeOK, Holds, InStep, Filling, Working, Early,
       Discovery, Final, Exec, local
  <2> QED
    BY <2>3, <2>4 DEF IInv
<1>6. CASE Scan(r)
  <2>1. idx' \in [Requests -> Nat \ {0}]
    BY <1>6, NextIdx DEF IInv, Scan, TypeOK
  <2>2. TypeOK'
    BY <1>6, <2>1 DEF IInv, TypeOK, Scan, objects, Discovery, shared
  <2>3. \A q \in Requests : Holds(q)' /\ InStep(q)'
    BY <1>6 DEF IInv, TypeOK, Holds, InStep, Filling, Working, Early,
       Discovery, Final, Scan, shared
  <2> QED
    BY <2>2, <2>3 DEF IInv
<1>7. CASE RegisterScanned(r)
  <2>1. reg[r] \in Requests /\ Module(r) \in Kinds
    BY <1>7, AtModule DEF IInv, TypeOK, RegisterScanned, Holds, Holder, Filling
  <2>2. /\ procs' \in [Requests -> [Kinds -> Nat]] /\ seen' \in Seq(SUBSET Hashes)
        /\ Len(seen) \in Nat /\ Len(seen') = Len(seen) + 1
        /\ \A h \in Requests, l \in Kinds : procs'[h][l] <= Len(seen')
    BY <1>7, <2>1, RegisterTyped DEF IInv, RegisterScanned
  <2>3. idx' \in [Requests -> Nat \ {0}]
    BY <1>7, NextIdx DEF IInv, RegisterScanned
  <2>4. TypeOK'
    BY <1>7, <2>2, <2>3 DEF IInv, TypeOK, RegisterScanned, objects, Discovery
  <2>5. \A q \in Requests : Holds(q)' /\ InStep(q)'
    BY <1>7, <2>2 DEF IInv, TypeOK, Holds, InStep, Filling, Working, Early,
       Discovery, Final, RegisterScanned
  <2> QED
    BY <2>4, <2>5 DEF IInv
<1>8. CASE Discovered(r)
  <2>1. TypeOK'
    BY <1>8 DEF IInv, TypeOK, Discovered, objects, Discovery, shared, local
  <2>2. \A q \in Requests : Holds(q)' /\ InStep(q)'
    BY <1>8 DEF IInv, TypeOK, Holds, InStep, Filling, Working, Early,
       Discovery, Final, Discovered, shared, local
  <2> QED
    BY <2>1, <2>2 DEF IInv
<1>9. CASE Obtain(r)
  <2>1. TypeOK'
    BY <1>9 DEF IInv, TypeOK, Obtain, objects, Discovery, shared
  <2>2. \A q \in Requests : Holds(q)' /\ InStep(q)'
    BY <1>9, ElementFacts DEF IInv, TypeOK, Holds, InStep, Filling, Working, Early,
       Discovery, Final, Obtain, shared
  <2> QED
    BY <2>1, <2>2 DEF IInv
<1> QED
  BY <1>1, <1>2, <1>3, <1>4, <1>5, <1>6, <1>7, <1>8, <1>9 DEF Registering

\* A step that ends the element in hand with a result.
LEMMA ResultInv ==
  ASSUME IInv, NEW r \in Requests, NEW from \in Working \ {"lookup"},
         Go(r, from, "lookup"), NEW result \in Results, Result(r, result),
         UNCHANGED <<shared, reg, bound, num, machines, objects, crashes>>
  PROVE  IInv'
<1>1. pc[r] = from /\ pc' = [pc EXCEPT ![r] = "lookup"]
  BY DEF Go
<1>2. TypeOK'
  BY <1>1, ResultTyped DEF IInv, TypeOK, shared, objects, Discovery
<1>3. idx[r] = Len(out[r]) + 1 /\ idx[r] <= Len(Elements[r])
  BY <1>1 DEF IInv, InStep, Working
<1>4. \A q \in Requests : Holds(q)'
  BY <1>1, ResultTyped DEF IInv, TypeOK, Holds, Filling, Working, Final, shared
<1>5. ASSUME NEW q \in Requests PROVE InStep(q)'
  <2>1. CASE q = r
    BY <1>1, <1>3, <2>1, ResultTyped, ElementFacts
       DEF IInv, TypeOK, InStep, Working, Early, Discovery
  <2>2. CASE q # r
    BY <1>1, <2>2, ResultTyped DEF IInv, TypeOK, InStep, Working, Early, Discovery
  <2> QED
    BY <2>1, <2>2
<1> QED
  BY <1>2, <1>4, <1>5 DEF IInv

LEMMA ProcessingInv ==
  ASSUME IInv, NEW r \in Requests, Processing(r),
         UNCHANGED <<machines, objects, crashes>>
  PROVE  IInv'
<1>1. CASE Lookup(r)
  <2>1. TypeOK'
    BY <1>1, SizeTyped DEF IInv, TypeOK, Lookup, Go, shared, objects, Discovery
  <2>2. \A q \in Requests : Holds(q)' /\ InStep(q)'
    BY <1>1 DEF IInv, TypeOK, Holds, InStep, Filling, Working, Early, Discovery, Final,
       Lookup, Go, shared
  <2> QED
    BY <2>1, <2>2 DEF IInv
<1>2. CASE Match(r)
  <2> DEFINE processor == procs[reg[r]][Element(r).kind]
  <2>1. /\ reg[r] \in Requests /\ pc[r] = "match"
        /\ Element(r).kind \in Kinds
    BY <1>2, AtElement DEF IInv, TypeOK, Match, Holds, InStep, Holder, Working
  <2>2. processor \in Nat /\ processor <= Len(seen) /\ Len(seen) \in Nat
    BY <2>1 DEF IInv, TypeOK
  <2>3. CASE Go(r, "match", "lookup") /\ Result(r, "skipped") /\ UNCHANGED num
    BY <1>2, <2>3, ResultInv DEF Match, Working, Results
  <2>4. CASE /\ pc' = [pc EXCEPT ![r] = "failed"] \/ pc' = [pc EXCEPT ![r] = "process"]
             /\ \/ UNCHANGED num /\ pc'[r] = "failed"
                \/ num' = [num EXCEPT ![r] = processor] /\ processor # 0
             /\ UNCHANGED <<out, idx>>
    <3>1. TypeOK'
      BY <1>2, <2>2, <2>4 DEF IInv, TypeOK, Match, shared, objects, Discovery, Final
    <3>2. \A q \in Requests : Holds(q)'
      BY <1>2, <2>1, <2>2, <2>4 DEF IInv, TypeOK, Holds, Filling, Working, Final,
         Match, shared
    <3>3. \A q \in Requests : InStep(q)'
      BY <2>1, <2>4 DEF IInv, TypeOK, InStep, Working, Early, Discovery
    <3> QED
      BY <3>1, <3>2, <3>3 DEF IInv
  <2> QED
    BY <1>2, <2>3, <2>4 DEF Match, Go, LookupRaised, Untouched, IInv, TypeOK
<1>3. CASE Process(r) \/ Describe(r)
  BY <1>3, ResultInv DEF Process, Describe, Working, Results
<1>4. CASE ProcessImage(r)
  <2>1. CASE Go(r, "process", "lookup") /\ Result(r, "duplicate")
    BY <1>4, <2>1, ResultInv DEF ProcessImage, Working, Results
  <2>2. CASE /\ \/ Go(r, "process", "remember")
                \/ Go(r, "process", "describe")
             /\ UNCHANGED <<out, idx>>
    <3>1. TypeOK'
      BY <1>4, <2>2 DEF IInv, TypeOK, ProcessImage, Go, shared, objects, Discovery
    <3>2. \A q \in Requests : Holds(q)' /\ InStep(q)'
      BY <1>4, <2>2 DEF IInv, TypeOK, Holds, InStep, Filling, Working, Early, Discovery,
         Final, ProcessImage, Go, shared
    <3> QED
      BY <3>1, <3>2 DEF IInv
  <2> QED
    BY <1>4, <2>1, <2>2 DEF ProcessImage
<1>5. CASE Remember(r)
  <2>1. /\ num[r] \in 1 .. Len(seen) /\ Element(r).hash \in Hashes
        /\ seen \in Seq(SUBSET Hashes)
    BY <1>5, AtElement DEF IInv, TypeOK, Remember, Go, Holds, InStep, Working
  <2>2. /\ seen' = [seen EXCEPT ![num[r]] = @ \cup {Element(r).hash}]
        /\ seen[num[r]] \in SUBSET Hashes
    BY <1>5, <2>1 DEF Remember
  <2>3. seen' \in Seq(SUBSET Hashes) /\ Len(seen') = Len(seen)
    BY <2>1, <2>2
  <2>4. TypeOK'
    BY <1>5, <2>3 DEF IInv, TypeOK, Remember, Go, local, objects, Discovery
  <2>5. \A q \in Requests : Holds(q)' /\ InStep(q)'
    BY <1>5, <2>3 DEF IInv, TypeOK, Holds, InStep, Filling, Working, Early, Discovery,
       Final, Remember, Go, local
  <2> QED
    BY <2>4, <2>5 DEF IInv
<1> QED
  BY <1>1, <1>2, <1>3, <1>4, <1>5 DEF Processing

LEMMA InvNext == IInv /\ [Next]_vars => IInv'
<1> SUFFICES ASSUME IInv, [Next]_vars PROVE IInv'
  OBVIOUS
<1>1. CASE Crash
  <2>1. TypeOK'
    BY <1>1 DEF IInv, TypeOK, Crash, local, objects, NoProcessors, Holder, Final, Discovery
  <2>2. \A q \in Requests : Holds(q)' /\ InStep(q)'
    BY <1>1 DEF IInv, TypeOK, Crash, Holds, InStep, Filling, Working, Early, Discovery,
       Final, local
  <2> QED
    BY <2>1, <2>2 DEF IInv
<1>2. ASSUME NEW r \in Requests, Accept(r) PROVE IInv'
  <2>1. TypeOK'
    BY <1>2 DEF IInv, TypeOK, Accept, Go, shared, local, objects, Final, Discovery
  <2>2. \A q \in Requests : Holds(q)' /\ InStep(q)'
    BY <1>2 DEF IInv, TypeOK, Accept, Go, Holds, InStep, Filling, Working, Early, Discovery,
       Final, shared, local
  <2> QED
    BY <2>1, <2>2 DEF IInv
<1>3. ASSUME NEW r \in Requests, Finish(r) PROVE IInv'
  <2>1. TypeOK'
    BY <1>3 DEF IInv, TypeOK, Finish, Go, shared, local, objects, Final, Discovery
  <2>2. Len(out[r]) = Len(Elements[r])
    BY <1>3, ElementFacts DEF IInv, TypeOK, InStep, Finish, Working
  <2>3. \A q \in Requests : Holds(q)' /\ InStep(q)'
    BY <1>3, <2>2 DEF IInv, TypeOK, Finish, Go, Holds, InStep, Filling, Working, Early,
       Discovery, Final, shared, local
  <2> QED
    BY <2>1, <2>3 DEF IInv
<1>4. ASSUME NEW r \in Requests, PutMarkdown(r) \/ PutMetadata(r) PROVE IInv'
  <2>1. Doc[r] \in Docs /\ r \in Holder
    BY DEF Docs, Holder
  <2>2. /\ markdown' \in [Docs -> Holder] /\ metadata' \in [Docs -> Holder]
        /\ overlaps' \subseteq Docs
    <3>1. /\ markdown \in [Docs -> Holder] /\ metadata \in [Docs -> Holder]
          /\ overlaps \subseteq Docs
      BY DEF IInv, TypeOK
    <3>2. /\ markdown' \in {markdown, [markdown EXCEPT ![Doc[r]] = r]}
          /\ metadata' \in {metadata, [metadata EXCEPT ![Doc[r]] = r]}
          /\ overlaps' \subseteq overlaps \cup {Doc[r]}
      BY <1>4 DEF PutMarkdown, PutMetadata
    <3> QED
      BY <2>1, <3>1, <3>2
  <2>3. /\ \/ pc' = [pc EXCEPT ![r] = "metadata"] /\ pc[r] = "markdown"
           \/ pc' = [pc EXCEPT ![r] = "success"] /\ pc[r] = "metadata"
           \/ /\ pc' = [pc EXCEPT ![r] = "partial"]
              /\ pc[r] \in {"markdown", "metadata"}
        /\ UNCHANGED <<shared, local, machines, crashes>>
    BY <1>4 DEF PutMarkdown, PutMetadata, AfterMarkdown, Go
  <2>4. TypeOK'
    BY <2>2, <2>3 DEF IInv, TypeOK, shared, local, Final, Discovery
  <2>5. \A q \in Requests : Holds(q)' /\ InStep(q)'
    BY <2>3 DEF IInv, TypeOK, Holds, InStep, Filling, Working, Early, Discovery,
       Final, shared, local
  <2> QED
    BY <2>4, <2>5 DEF IInv
<1>5. CASE UNCHANGED vars
  <2>1. TypeOK'
    BY <1>5 DEF IInv, TypeOK, vars, shared, local, objects
  <2>2. \A q \in Requests : Holds(q)' /\ InStep(q)'
    BY <1>5 DEF IInv, Holds, InStep, vars, shared, local
  <2> QED
    BY <2>1, <2>2 DEF IInv
<1> QED
  BY <1>1, <1>2, <1>3, <1>4, <1>5, RegisteringInv, ProcessingInv DEF Next, Serve

LEMMA InvHolds == Spec => []IInv
BY InvInit, InvNext, PTL DEF Spec

\* The state of the service keeps its types, for all requests, modules and elements.
THEOREM TypeCorrect == Spec => []TypeOK
<1>1. IInv => TypeOK
  BY DEF IInv
<1> QED
  BY <1>1, InvHolds, PTL

-----------------------------------------------------------------------------
(* The global registry.                                                    *)

\* Processors are replaced but not taken away.
LEMMA FilledStays ==
  ASSUME NEW g \in Requests, NEW n \in Nat, FilledTo(g, n),
         \A h \in Requests, k \in Kinds : procs[h][k] # 0 => procs'[h][k] # 0
  PROVE  \A i \in 1 .. n : i <= Len(Modules) => procs'[g][Modules[i]] # 0
<1> SUFFICES ASSUME NEW i \in 1 .. n, i <= Len(Modules)
             PROVE  procs'[g][Modules[i]] # 0
  OBVIOUS
<1>1. procs[g][Modules[i]] # 0
  BY DEF FilledTo
<1>2. Modules[i] \in Kinds
  BY ModuleFacts
<1> QED
  BY <1>1, <1>2

\* A step of request r that takes no part in filling registries.
Aloof(r) ==
  /\ pc[r] \notin Filling \cup {"discover"}
  /\ \E to : /\ pc' = [pc EXCEPT ![r] = to]
             /\ to \notin Filling \cup {"discover"}
  /\ UNCHANGED <<registry, procs>>
  /\ \A q \in Requests \ {r} : reg'[q] = reg[q] /\ idx'[q] = idx[q]

LEMMA AloofSteps ==
  ASSUME IInv, NEW r \in Requests,
         \/ Accept(r) \/ Check(r) \/ Obtain(r) \/ Processing(r) \/ Finish(r)
         \/ PutMarkdown(r) \/ PutMetadata(r)
  PROVE  Aloof(r)
<1> USE DEF IInv, TypeOK, Aloof, Filling, Go, shared, local
<1>1. CASE Accept(r) \/ Check(r) \/ Obtain(r)
  BY <1>1 DEF Accept, Check, Obtain
<1>2. CASE Processing(r)
  BY <1>2 DEF Processing, Lookup, Match, Process, ProcessImage, Remember, Describe, Result,
     LookupRaised
<1>3. CASE Finish(r) \/ PutMarkdown(r) \/ PutMetadata(r)
  BY <1>3 DEF Finish, PutMarkdown, PutMetadata, AfterMarkdown
<1> QED
  BY <1>1, <1>2, <1>3

LEMMA RegistryAloof ==
  ASSUME IInv, RegistryInv, NEW r \in Requests, Aloof(r)
  PROVE  RegistryInv'
<1>1. ASSUME NEW q \in Requests, pc'[q] \in Filling
      PROVE  pc[q] = pc'[q] /\ reg'[q] = reg[q] /\ idx'[q] = idx[q]
  BY <1>1 DEF Aloof, IInv, TypeOK
<1>2. ASSUME NEW q \in Requests, pc[q] \in Filling \cup {"discover"}
      PROVE  pc[q] = pc'[q] /\ reg'[q] = reg[q]
  BY <1>2 DEF Aloof, IInv, TypeOK
<1>3. \A g, n : FilledTo(g, n)' <=> FilledTo(g, n)
  BY DEF FilledTo, Aloof
<1>4. \A q \in Requests : pc'[q] \in Filling => FilledTo(reg[q], idx[q] - 1)'
  BY <1>1, <1>3 DEF RegistryInv
<1>5. \A q \in Requests : (pc[q] \in Filling => FilledTo(reg[q], idx[q] - 1))'
  BY <1>4
<1> QED
  BY <1>2, <1>3, <1>5 DEF RegistryInv, Aloof

\* A request that fills a registry is at it, and what it is done with is there.
LEMMA RegistryFilled ==
  ASSUME IInv, RegistryInv, NEW r \in Requests,
         \/ Create(r) \/ Discover(r) \/ Import(r) \/ Exec(r) \/ Scan(r)
         \/ RegisterScanned(r) \/ Discovered(r)
  PROVE  RegistryInv'
<1> USE DEF Go
<1>1. /\ Len(Modules) \in Nat
      /\ \A q \in Requests : /\ idx[q] \in Nat \ {0} /\ idx[q] - 1 \in Nat
                             /\ pc[q] \in Filling => reg[q] \in Requests
      /\ registry # None => registry \in Requests
  <2>1. \A q \in Requests : idx[q] \in Nat \ {0}
    BY DEF IInv, TypeOK
  <2>2. \A q \in Requests : pc[q] \in Filling => reg[q] \in Requests
    BY DEF IInv, TypeOK, Holds, Holder
  <2>3. registry # None => registry \in Requests
    BY DEF IInv, TypeOK, Holder
  <2> QED
    BY <2>1, <2>2, <2>3, ModuleFacts
<1>2. /\ \A h \in Requests, k \in Kinds : procs[h][k] # 0 => procs'[h][k] # 0
      /\ Exec(r) => procs'[bound[r]][Module(r)] # 0
      /\ RegisterScanned(r) => procs'[reg[r]][Module(r)] # 0
  <2>1. CASE Exec(r)
    <3>1. bound[r] \in Requests /\ Module(r) \in Kinds /\ Register(bound[r], Module(r))
      BY <2>1, AtModule DEF IInv, TypeOK, Exec, Holds, Holder
    <3>2. Len(seen) \in Nat
      BY <3>1, RegisterTyped DEF IInv
    <3>3. \A h \in Requests, l \in Kinds :
            procs'[h][l] = IF h = bound[r] /\ l = Module(r) THEN Len(seen) + 1
                                                            ELSE procs[h][l]
      BY <3>1, RegisterTyped DEF IInv
    <3>4. ~RegisterScanned(r)
      BY <2>1 DEF Exec, RegisterScanned
    <3> QED
      BY <3>1, <3>2, <3>3, <3>4
  <2>2. CASE RegisterScanned(r)
    <3>1. reg[r] \in Requests /\ Module(r) \in Kinds /\ Register(reg[r], Module(r))
      BY <2>2, AtModule DEF IInv, TypeOK, RegisterScanned, Holds, Holder, Filling
    <3>2. Len(seen) \in Nat
      BY <3>1, RegisterTyped DEF IInv
    <3>3. \A h \in Requests, l \in Kinds :
            procs'[h][l] = IF h = reg[r] /\ l = Module(r) THEN Len(seen) + 1
                                                          ELSE procs[h][l]
      BY <3>1, RegisterTyped DEF IInv
    <3>4. ~Exec(r)
      BY <2>2 DEF Exec, RegisterScanned
    <3> QED
      BY <3>1, <3>2, <3>3, <3>4
  <2>3. CASE ~Exec(r) /\ ~RegisterScanned(r)
    BY <2>3 DEF Create, Discover, Import, Scan, Discovered, shared
  <2> QED
    BY <2>1, <2>2, <2>3
<1>3. \A q \in Requests \ {r} : pc'[q] = pc[q] /\ reg'[q] = reg[q] /\ idx'[q] = idx[q]
  BY DEF IInv, TypeOK, Create, Discover, Import, Exec, Scan, RegisterScanned, Discovered,
     shared, local
<1>4. \A g \in Requests : \A n \in Nat : FilledTo(g, n) => FilledTo(g, n)'
  BY <1>2, FilledStays DEF FilledTo
<1>5. ASSUME NEW q \in Requests, pc'[q] \in Filling
      PROVE  FilledTo(reg[q], idx[q] - 1)'
  <2>1. CASE q # r
    <3>1. FilledTo(reg[q], idx[q] - 1) /\ reg[q] \in Requests /\ idx[q] - 1 \in Nat
      BY <1>1, <1>3, <1>5, <2>1 DEF RegistryInv
    <3>2. FilledTo(reg[q], idx[q] - 1) => \A n \in Nat : n = idx[q] - 1 =>
            \A g \in Requests : g = reg[q] => FilledTo(g, n)'
      BY <1>4
    <3>3. reg'[q] = reg[q] /\ idx'[q] = idx[q]
      BY <1>3, <2>1
    <3> QED
      BY <3>1, <3>2, <3>3 DEF FilledTo
  <2>2. CASE q = r /\ Discover(r)
    <3>1. idx'[r] = 1
      BY <2>2 DEF Discover, IInv, TypeOK
    <3> QED
      BY <2>2, <3>1 DEF FilledTo
  <2>3. CASE q = r /\ ~Discover(r) /\ pc[r] \in Filling
    <3>1. FilledTo(reg[r], idx[r] - 1) /\ reg[r] \in Requests /\ idx[r] - 1 \in Nat
      BY <1>1, <2>3 DEF RegistryInv
    <3>2. \A i \in 1 .. idx[r] - 1 : i <= Len(Modules) => procs'[reg[r]][Modules[i]] # 0
      BY <1>2, <3>1, FilledStays
    <3>3. reg'[r] = reg[r]
      BY <2>3 DEF Create, Import, Exec, Scan, RegisterScanned, Discovered, local
    <3>4. \/ idx'[r] = idx[r]
          \/ /\ idx'[r] = idx[r] + 1
             /\ procs'[reg[r]][Modules[idx[r]]] # 0
      <4>1. CASE Create(r) \/ Import(r) \/ Exec(r) \/ Discovered(r)
        BY <4>1 DEF Create, Import, Exec, Discovered, local
      <4>2. CASE Scan(r)
        BY <1>2, <4>2 DEF Scan, Missing, Module, shared, IInv, TypeOK
      <4>3. CASE RegisterScanned(r)
        BY <1>2, <4>3 DEF RegisterScanned, Module, IInv, TypeOK
      <4> QED
        BY <2>3, <4>1, <4>2, <4>3
    <3> QED
      BY <1>1, <2>3, <3>2, <3>3, <3>4 DEF FilledTo
  <2>4. CASE q = r /\ ~Discover(r) /\ pc[r] \notin Filling
    BY <1>5, <2>4 DEF Create, Import, Exec, Scan, RegisterScanned, Discovered, Filling,
       IInv, TypeOK
  <2> QED
    BY <2>1, <2>2, <2>3, <2>4
<1>6. ASSUME registry' # None
      PROVE  \/ FilledTo(registry, Len(Modules))'
             \/ \E q \in Requests :
                  pc'[q] = "discover" \/ (pc'[q] \in Filling /\ reg'[q] = registry')
  <2>1. CASE Create(r)
    BY <2>1 DEF Create, IInv, TypeOK
  <2>2. CASE Discover(r)
    BY <2>2 DEF Discover, IInv, TypeOK, Filling, shared
  <2>3. CASE ~Create(r) /\ ~Discover(r)
    <3>1. registry' = registry /\ registry \in Requests
      BY <1>1, <1>6, <2>3 DEF Import, Exec, Scan, RegisterScanned, Discovered, shared
    <3>2. CASE FilledTo(registry, Len(Modules))
      <4>1. FilledTo(registry, Len(Modules)) =>
              \A g \in Requests : g = registry => FilledTo(g, Len(Modules))'
        BY <1>1, <1>4
      <4> QED
        BY <3>1, <3>2, <4>1 DEF FilledTo
    <3>3. ASSUME NEW q \in Requests,
                 pc[q] = "discover" \/ (pc[q] \in Filling /\ reg[q] = registry)
          PROVE  \/ FilledTo(registry, Len(Modules))'
                 \/ pc'[q] = "discover" \/ (pc'[q] \in Filling /\ reg'[q] = registry')
      <4>1. CASE q # r
        BY <1>3, <3>1, <3>3, <4>1
      <4>2. CASE q = r /\ ~Discovered(r)
        BY <2>3, <3>1, <3>3, <4>2
           DEF Import, Exec, Scan, RegisterScanned, Filling, local, IInv, TypeOK
      <4>3. CASE q = r /\ Discovered(r)
        <5>1. /\ pc[r] \in Filling /\ idx[r] > Len(Modules) /\ reg[r] = registry
              /\ UNCHANGED procs
          BY <3>3, <4>3 DEF Discovered, Filling, shared
        <5>2. FilledTo(registry, idx[r] - 1)
          BY <5>1 DEF RegistryInv
        <5>3. \A i \in 1 .. Len(Modules) : i \in 1 .. idx[r] - 1
          BY <1>1, <5>1
        <5> QED
          BY <3>1, <5>1, <5>2, <5>3 DEF FilledTo
      <4> QED
        BY <4>1, <4>2, <4>3
    <3>4. \/ FilledTo(registry, Len(Modules))
          \/ \E q \in Requests :
               pc[q] = "discover" \/ (pc[q] \in Filling /\ reg[q] = registry)
      BY <1>6, <3>1 DEF RegistryInv
    <3> QED
      BY <3>2, <3>3, <3>4
  <2> QED
    BY <2>1, <2>2, <2>3
<1> QED
  BY <1>5, <1>6 DEF RegistryInv

\* Once nobody is in get_element_registry, the global registry is complete, however
\* many requests created and filled registries together.
THEOREM RegistryCompletes == Spec => []SettledRegistryComplete
<1>1. Init => RegistryInv
  BY DEF Init, InitRegistry, RegistryInv, Filling
<1>2. IInv /\ RegistryInv /\ [Next]_vars => RegistryInv'
  <2> SUFFICES ASSUME IInv, RegistryInv, [Next]_vars PROVE RegistryInv'
    OBVIOUS
  <2>1. CASE Crash
    BY <2>1 DEF Crash, RegistryInv, Filling, Final
  <2>2. CASE UNCHANGED vars
    BY <2>2 DEF vars, shared, local, RegistryInv, FilledTo
  <2>3. ASSUME NEW r \in Requests, Accept(r) \/ Serve(r) PROVE RegistryInv'
    BY <2>3, AloofSteps, RegistryAloof, RegistryFilled DEF Serve, Registering
  <2> QED
    BY <2>1, <2>2, <2>3 DEF Next
<1>3. IInv /\ RegistryInv => SettledRegistryComplete
  BY ModuleFacts DEF RegistryInv, SettledRegistryComplete, FilledTo, Filling, Discovery
<1> QED
  BY <1>1, <1>2, <1>3, InvHolds, PTL DEF Spec

-----------------------------------------------------------------------------
(* The first images of the duplicates.                                     *)

\* A step of request r that does not end or begin the description of an image,
\* nor change what others did.
LEMMA OriginalStays ==
  ASSUME IInv, NEW r \in Requests, pc[r] \notin {"describe", "dead"},
         \E to : pc' = [pc EXCEPT ![r] = to],
         \A q \in Requests \ {r} : out'[q] = out[q] /\ idx'[q] = idx[q],
         Len(out[r]) \in Nat, Len(out'[r]) \in Nat, Len(out[r]) <= Len(out'[r]),
         \A i \in 1 .. Len(out[r]) : out'[r][i] = out[r][i],
         NEW h, HasOriginal(h)
  PROVE  HasOriginal(h)'
<1> PICK q \in Requests : \E j \in 1 .. Len(Elements[q]) :
        /\ Elements[q][j].hash = h
        /\ IF j <= Len(out[q]) THEN out[q][j] \in {"described", "plain"}
                               ELSE j = idx[q] /\ pc[q] \in {"describe", "dead"}
  BY DEF HasOriginal
<1>1. PICK j \in 1 .. Len(Elements[q]) :
        /\ Elements[q][j].hash = h
        /\ IF j <= Len(out[q]) THEN out[q][j] \in {"described", "plain"}
                               ELSE j = idx[q] /\ pc[q] \in {"describe", "dead"}
  OBVIOUS
<1>2. Len(Elements[q]) \in Nat
  BY ElementFacts
<1>3. CASE q # r
  <2>1. pc'[q] = pc[q] /\ out'[q] = out[q] /\ idx'[q] = idx[q]
    BY <1>3 DEF IInv, TypeOK
  <2> QED
    BY <1>1, <2>1 DEF HasOriginal
<1>4. CASE q = r
  <2>1. j <= Len(out[r]) /\ j \in Nat /\ j \in 1 .. Len(out[r])
    BY <1>1, <1>2, <1>4
  <2>2. j <= Len(out'[r]) /\ out'[r][j] \in {"described", "plain"}
    BY <1>1, <1>4, <2>1
  <2> QED
    BY <1>1, <1>4, <2>2 DEF HasOriginal
<1> QED
  BY <1>3, <1>4

\* The image of request r that is described is the first with its hash.
LEMMA OriginalDescribed ==
  ASSUME IInv, NEW r \in Requests, Describe(r), NEW h, HasOriginal(h)
  PROVE  HasOriginal(h)'
<1> PICK q \in Requests : \E j \in 1 .. Len(Elements[q]) :
        /\ Elements[q][j].hash = h
        /\ IF j <= Len(out[q]) THEN out[q][j] \in {"described", "plain"}
                               ELSE j = idx[q] /\ pc[q] \in {"describe", "dead"}
  BY DEF HasOriginal
<1>1. PICK j \in 1 .. Len(Elements[q]) :
        /\ Elements[q][j].hash = h
        /\ IF j <= Len(out[q]) THEN out[q][j] \in {"described", "plain"}
                               ELSE j = idx[q] /\ pc[q] \in {"describe", "dead"}
  OBVIOUS
<1>2. PICK result \in {"described", "plain"} : Result(r, result)
  BY DEF Describe
<1>3. /\ Len(out[r]) \in Nat /\ Len(out'[r]) = Len(out[r]) + 1
      /\ out'[r][Len(out[r]) + 1] = result
      /\ \A i \in 1 .. Len(out[r]) : out'[r][i] = out[r][i]
      /\ \A p \in Requests \ {r} : out'[p] = out[p] /\ idx'[p] = idx[p]
  BY <1>2, ResultTyped DEF IInv, Results
<1>4. /\ Len(Elements[q]) \in Nat
      /\ pc[r] = "describe" /\ pc' = [pc EXCEPT ![r] = "lookup"]
      /\ idx[r] = Len(out[r]) + 1
  BY ElementFacts DEF Describe, Go, IInv, InStep, Working
<1>5. CASE q # r
  <2>1. pc'[q] = pc[q] /\ out'[q] = out[q] /\ idx'[q] = idx[q]
    BY <1>3, <1>4, <1>5 DEF IInv, TypeOK
  <2> QED
    BY <1>1, <2>1 DEF HasOriginal
<1>6. CASE q = r
  <2>1. j <= Len(out'[r]) /\ out'[r][j] \in {"described", "plain"}
    BY <1>1, <1>2, <1>3, <1>4, <1>6
  <2> QED
    BY <1>1, <1>6, <2>1 DEF HasOriginal
<1> QED
  BY <1>5, <1>6

LEMMA OriginalCrash ==
  ASSUME IInv, Crash, NEW h, HasOriginal(h)
  PROVE  HasOriginal(h)'
<1>1. /\ out' = out /\ idx' = idx
      /\ \A q \in Requests : pc[q] \in {"describe", "dead"} => pc'[q] = "dead"
  BY DEF Crash, local, Final
<1> QED
  BY <1>1 DEF HasOriginal

Duplicates ==
  \A r \in Requests : \A i \in 1 .. Len(out[r]) :
    out[r][i] = "duplicate" => HasOriginal(Elements[r][i].hash)

\* What a step of request r does to hashes and results: it notes at most the hash
\* of its image, which is the one it describes next, and adds at most one result,
\* a duplicate only when it found the hash noted.
Notes(r) ==
  /\ \A p \in 1 .. Len(seen') : \A h \in seen'[p] :
       \/ p \in 1 .. Len(seen) /\ h \in seen[p]
       \/ HasOriginal(h)'
  /\ \A q \in Requests : \A i \in 1 .. Len(out'[q]) :
       \/ i \in 1 .. Len(out[q]) /\ out'[q][i] = out[q][i]
       \/ out'[q][i] # "duplicate"
       \/ \E p \in 1 .. Len(seen) : Elements[q][i].hash \in seen[p]
  /\ \A h : HasOriginal(h) => HasOriginal(h)'

LEMMA NotesNext ==
  ASSUME NotedInv, Duplicates, NEW r \in Requests, Notes(r)
  PROVE  NotedInv' /\ Duplicates'
<1>1. ASSUME NEW p \in 1 .. Len(seen'), NEW h \in seen'[p]
      PROVE  HasOriginal(h)'
  BY <1>1 DEF Notes, NotedInv
<1>2. ASSUME NEW q \in Requests, NEW i \in 1 .. Len(out'[q]), out'[q][i] = "duplicate"
      PROVE  HasOriginal(Elements[q][i].hash)'
  BY <1>2 DEF Notes, NotedInv, Duplicates
<1> QED
  BY <1>1, <1>2 DEF NotedInv, Duplicates

\* Steps that touch no result.
LEMMA NotesNothing ==
  ASSUME IInv, NEW r \in Requests, pc[r] \notin {"describe", "dead"},
         \E to : pc' = [pc EXCEPT ![r] = to],
         \A q \in Requests \ {r} : idx'[q] = idx[q],
         out' = out, seen' = seen \/ seen' = Append(seen, {})
  PROVE  Notes(r)
<1>1. Len(out[r]) \in Nat
  BY DEF IInv, TypeOK
<1>2. seen \in Seq(SUBSET Hashes)
  BY DEF IInv, TypeOK
<1>3. \A p \in 1 .. Len(seen') : \A h \in seen'[p] : p \in 1 .. Len(seen) /\ h \in seen[p]
  BY <1>2
<1>4. /\ \A q \in Requests \ {r} : out'[q] = out[q] /\ idx'[q] = idx[q]
      /\ Len(out'[r]) \in Nat /\ Len(out[r]) <= Len(out'[r])
      /\ \A i \in 1 .. Len(out[r]) : out'[r][i] = out[r][i]
  BY <1>1
<1>5. ASSUME NEW h, HasOriginal(h) PROVE HasOriginal(h)'
  BY <1>1, <1>4, <1>5, OriginalStays
<1> QED
  BY <1>3, <1>5 DEF Notes

\* Steps that end an image or another element without a description.
LEMMA NotesResult ==
  ASSUME IInv, NEW r \in Requests, NEW from \in Working \ {"describe"},
         Go(r, from, "lookup"), NEW result \in Results, Result(r, result), seen' = seen,
         result = "duplicate" =>
           \E p \in 1 .. Len(seen) : Elements[r][Len(out[r]) + 1].hash \in seen[p]
  PROVE  Notes(r)
<1>1. /\ Len(out[r]) \in Nat /\ Len(out'[r]) = Len(out[r]) + 1
      /\ out'[r][Len(out[r]) + 1] = result
      /\ \A i \in 1 .. Len(out[r]) : out'[r][i] = out[r][i]
      /\ \A q \in Requests \ {r} : out'[q] = out[q] /\ idx'[q] = idx[q]
  BY ResultTyped DEF IInv
<1>2. ASSUME NEW h, HasOriginal(h) PROVE HasOriginal(h)'
  <2>1. /\ pc[r] \notin {"describe", "dead"} /\ pc' = [pc EXCEPT ![r] = "lookup"]
        /\ Len(out'[r]) \in Nat /\ Len(out[r]) <= Len(out'[r])
    BY <1>1 DEF Go, Working
  <2> QED
    BY <1>1, <1>2, <2>1, OriginalStays
<1>3. ASSUME NEW q \in Requests, NEW i \in 1 .. Len(out'[q])
      PROVE  \/ i \in 1 .. Len(out[q]) /\ out'[q][i] = out[q][i]
             \/ out'[q][i] # "duplicate"
             \/ \E p \in 1 .. Len(seen) : Elements[q][i].hash \in seen[p]
  <2>1. CASE q # r
    BY <1>1, <2>1
  <2>2. CASE q = r
    <3>1. i \in 1 .. Len(out[r]) \/ i = Len(out[r]) + 1
      BY <1>1, <2>2
    <3> QED
      BY <1>1, <2>2, <3>1
  <2> QED
    BY <2>1, <2>2
<1> QED
  BY <1>2, <1>3 DEF Notes

\* The hash that is noted is that of the image to be described next.
LEMMA NotesRemember ==
  ASSUME IInv, NEW r \in Requests, Remember(r)
  PROVE  Notes(r)
<1>1. /\ pc[r] = "remember" /\ pc' = [pc EXCEPT ![r] = "describe"]
      /\ seen' = [seen EXCEPT ![num[r]] = @ \cup {Element(r).hash}]
      /\ UNCHANGED local
  BY DEF Remember, Go
<1>2. /\ num[r] \in 1 .. Len(seen) /\ seen \in Seq(SUBSET Hashes)
      /\ idx[r] = Len(out[r]) + 1 /\ idx[r] \in 1 .. Len(Elements[r])
      /\ Len(out[r]) \in Nat
  BY <1>1, AtElement DEF IInv, TypeOK, Holds, InStep, Working
<1>3. HasOriginal(Element(r).hash)'
  <2>1. /\ idx'[r] = idx[r] /\ out'[r] = out[r] /\ pc'[r] = "describe"
        /\ ~(idx[r] <= Len(out[r]))
    BY <1>1, <1>2 DEF local, IInv, TypeOK
  <2>2. Element(r)' = Elements[r][idx[r]]
    BY <2>1 DEF Element
  <2> QED
    BY <1>2, <2>1, <2>2 DEF HasOriginal
<1>4. Element(r)' = Element(r)
  BY <1>1 DEF Element, local
<1>5. ASSUME NEW p \in 1 .. Len(seen'), NEW h \in seen'[p]
      PROVE  \/ p \in 1 .. Len(seen) /\ h \in seen[p]
             \/ HasOriginal(h)'
  <2>1. Len(seen') = Len(seen)
    BY <1>1, <1>2
  <2>2. h \in seen[p] \/ h = Element(r).hash
    BY <1>1, <1>2, <2>1
  <2> QED
    BY <1>3, <1>4, <2>1, <2>2
<1>6. ASSUME NEW h, HasOriginal(h) PROVE HasOriginal(h)'
  <2>1. /\ \A q \in Requests \ {r} : out'[q] = out[q] /\ idx'[q] = idx[q]
        /\ Len(out'[r]) \in Nat /\ Len(out[r]) <= Len(out'[r])
        /\ \A i \in 1 .. Len(out[r]) : out'[r][i] = out[r][i]
        /\ pc[r] \notin {"describe", "dead"}
    BY <1>1, <1>2 DEF local
  <2> QED
    BY <1>1, <1>2, <1>6, <2>1, OriginalStays
<1> QED
  BY <1>1, <1>5, <1>6 DEF Notes, local

LEMMA NotesStep ==
  ASSUME IInv, NEW r \in Requests, Accept(r) \/ Serve(r)
  PROVE  Notes(r)
<1> USE DEF Go, shared, local
<1>1. CASE Accept(r) \/ Finish(r) \/ PutMarkdown(r) \/ PutMetadata(r)
  BY <1>1, NotesNothing DEF Accept, Finish, PutMarkdown, PutMetadata
<1>2. CASE Registering(r)
  BY <1>2, NotesNothing
     DEF Registering, Check, Create, Discover, Import, Exec, Scan, RegisterScanned,
         Discovered, Obtain, Register, IInv, TypeOK
<1>3. CASE Lookup(r)
  BY <1>3, NotesNothing DEF Lookup
<1>4. CASE Match(r)
  <2>1. CASE Go(r, "match", "lookup") /\ Result(r, "skipped")
    BY <1>4, <2>1, NotesResult DEF Match, Results, Working
  <2>2. CASE pc[r] = "match" /\ (\E to : pc' = [pc EXCEPT ![r] = to]) /\ UNCHANGED <<out, idx>>
    BY <1>4, <2>2, NotesNothing DEF Match
  <2> QED
    BY <1>4, <2>1, <2>2 DEF Match, Untouched
<1>5. CASE Process(r)
  <2>1. PICK result \in {"processed", "raised"} : Result(r, result)
    BY <1>5 DEF Process
  <2> QED
    BY <1>5, <2>1, NotesResult DEF Process, Results, Working
<1>6. CASE ProcessImage(r)
  <2>1. /\ pc[r] = "process" /\ num[r] \in 1 .. Len(seen) /\ idx[r] = Len(out[r]) + 1
    BY <1>6 DEF ProcessImage, IInv, Holds, InStep, Working
  <2>2. CASE /\ Element(r).hash \in seen[num[r]]
             /\ Go(r, "process", "lookup") /\ Result(r, "duplicate")
    <3>1. \E p \in 1 .. Len(seen) : Elements[r][Len(out[r]) + 1].hash \in seen[p]
      BY <2>1, <2>2 DEF Element
    <3> QED
      BY <1>6, <2>2, <3>1, NotesResult DEF ProcessImage, Results, Working
  <2>3. CASE (\E to : pc' = [pc EXCEPT ![r] = to]) /\ UNCHANGED <<out, idx>>
    BY <1>6, <2>1, <2>3, NotesNothing DEF ProcessImage
  <2> QED
    BY <1>6, <2>2, <2>3 DEF ProcessImage, SeenHashes
<1>7. CASE Describe(r)
  <2>1. PICK result \in {"described", "plain"} : Result(r, result)
    BY <1>7 DEF Describe
  <2>2. /\ Len(out[r]) \in Nat /\ Len(out'[r]) = Len(out[r]) + 1
        /\ out'[r][Len(out[r]) + 1] = result
        /\ \A i \in 1 .. Len(out[r]) : out'[r][i] = out[r][i]
        /\ \A q \in Requests \ {r} : out'[q] = out[q]
    BY <2>1, ResultTyped DEF IInv, Results
  <2>3. \A q \in Requests : \A i \in 1 .. Len(out'[q]) :
          (i \in 1 .. Len(out[q]) /\ out'[q][i] = out[q][i]) \/ out'[q][i] # "duplicate"
    <3> SUFFICES ASSUME NEW q \in Requests, NEW i \in 1 .. Len(out'[q]),
                        out'[q][i] = "duplicate"
                 PROVE  i \in 1 .. Len(out[q]) /\ out'[q][i] = out[q][i]
      OBVIOUS
    <3>1. CASE q # r
      BY <2>2, <3>1
    <3>2. CASE q = r
      <4>1. i \in 1 .. Len(out[r]) \/ i = Len(out[r]) + 1
        BY <2>2, <3>2
      <4> QED
        BY <2>1, <2>2, <3>2, <4>1
    <3> QED
      BY <3>1, <3>2
  <2>4. \A h : HasOriginal(h) => HasOriginal(h)'
    BY <1>7, OriginalDescribed
  <2> QED
    BY <1>7, <2>3, <2>4 DEF Notes, Describe
<1> QED
  BY <1>1, <1>2, <1>3, <1>4, <1>5, <1>6, <1>7, NotesRemember DEF Serve, Processing

\* An image is called a duplicate only when another with its hash was handed to OCR
\* and description, or is about to be, or its request died there; for any requests
\* that share processors, and across crashes.
THEOREM DuplicatesAreOfOriginals == Spec => []DuplicatesHaveOriginal
<1>1. Init => NotedInv /\ Duplicates
  BY DEF Init, InitRegistry, InitLocal, NotedInv, Duplicates
<1>2. IInv /\ NotedInv /\ Duplicates /\ [Next]_vars => NotedInv' /\ Duplicates'
  <2> SUFFICES ASSUME IInv, NotedInv, Duplicates, [Next]_vars
               PROVE  NotedInv' /\ Duplicates'
    OBVIOUS
  <2>1. CASE Crash
    <3>1. seen' = <<>> /\ out' = out
      BY <2>1 DEF Crash, local
    <3>2. \A h : HasOriginal(h) => HasOriginal(h)'
      BY <2>1, OriginalCrash
    <3> QED
      BY <3>1, <3>2 DEF NotedInv, Duplicates
  <2>2. CASE UNCHANGED vars
    BY <2>2 DEF vars, shared, local, NotedInv, Duplicates, HasOriginal
  <2>3. ASSUME NEW r \in Requests, Accept(r) \/ Serve(r)
        PROVE  NotedInv' /\ Duplicates'
    BY <2>3, NotesStep, NotesNext
  <2> QED
    BY <2>1, <2>2, <2>3 DEF Next
<1>3. Duplicates => DuplicatesHaveOriginal
  BY DEF Duplicates, DuplicatesHaveOriginal, HasOriginal
<1> QED
  BY <1>1, <1>2, <1>3, InvHolds, PTL DEF Spec

-----------------------------------------------------------------------------
(* What is stored.                                                         *)

\* A request that stores nothing in this step leaves what it and others stored.
LEMMA StoredStays ==
  ASSUME IInv, StoredInv, PairsMatch, NEW r \in Requests,
         pc[r] \notin {"metadata", "success", "partial", "dead"},
         \E to : pc' = [pc EXCEPT ![r] = to] /\ to # "metadata",
         \A q \in Requests \ {r} : out'[q] = out[q], UNCHANGED objects
  PROVE  StoredInv' /\ PairsMatch'
<1>1. \A q \in Requests : pc[q] \in {"metadata", "success", "partial", "dead"} =>
        q # r /\ pc'[q] = pc[q] /\ out'[q] = out[q]
  BY DEF IInv, TypeOK
<1>2. \A q \in Requests : pc'[q] = "metadata" => pc[q] = "metadata"
  BY DEF IInv, TypeOK
<1>3. UNCHANGED <<markdown, metadata, overlaps>>
  BY DEF objects
<1>4. \A d \in Docs : {markdown[d], metadata[d]} \ {None} \subseteq Requests
  BY DEF IInv, TypeOK, Holder
<1>5. StoredInv'
  BY <1>1, <1>2, <1>3, <1>4 DEF StoredInv
<1>6. PairsMatch'
  BY <1>1, <1>3 DEF PairsMatch
<1> QED
  BY <1>5, <1>6

LEMMA StoredStep ==
  ASSUME IInv, StoredInv, PairsMatch, NEW r \in Requests, Accept(r) \/ Serve(r)
  PROVE  StoredInv' /\ PairsMatch'
<1> USE DEF Go
<1>1. CASE Accept(r) \/ Finish(r)
  BY <1>1, StoredStays DEF Accept, Finish, local
<1>2. CASE Registering(r) /\ UNCHANGED objects
  BY <1>2, StoredStays
     DEF Registering, Check, Create, Discover, Import, Exec, Scan, RegisterScanned,
         Discovered, Obtain, local, IInv, TypeOK
<1>3. CASE Processing(r) /\ UNCHANGED objects
  <2>1. \A q \in Requests \ {r} : out'[q] = out[q]
    BY <1>3 DEF Processing, Lookup, Match, Process, ProcessImage, Remember, Describe,
       Result, local, IInv, TypeOK
  <2>2. /\ pc[r] \in Working
        /\ \E to : pc' = [pc EXCEPT ![r] = to] /\ to # "metadata"
    BY <1>3 DEF Processing, Lookup, Match, Process, ProcessImage, Remember, Describe,
       Working, LookupRaised
  <2> QED
    BY <1>3, <2>1, <2>2, StoredStays DEF Working
<1>4. Doc[r] \in Docs /\ r # None
  BY RegistryAssumption DEF Docs
<1>5. /\ markdown \in [Docs -> Requests \cup {None}] /\ pc = [q \in Requests |-> pc[q]]
      /\ metadata \in [Docs -> Requests \cup {None}]
  BY DEF IInv, TypeOK, Holder, Discovery, Final
<1>6. CASE PutMarkdown(r)
  <2>1. pc[r] = "markdown" /\ Len(out[r]) = Len(Elements[r])
    BY <1>6 DEF PutMarkdown, IInv, InStep
  <2>2. /\ UNCHANGED <<out, metadata>>
        /\ overlaps' = overlaps \cup {d \in {Doc[r]} : \E q \in Requests :
                                        pc[q] = "metadata" /\ Doc[q] = d}
    BY <1>6 DEF PutMarkdown, local
  <2>3. \/ /\ pc' = [pc EXCEPT ![r] = "metadata"]
           /\ markdown' = [markdown EXCEPT ![Doc[r]] = r]
        \/ /\ pc' = [pc EXCEPT ![r] = "partial"]
           /\ markdown' \in {markdown, [markdown EXCEPT ![Doc[r]] = r]}
    BY <1>6 DEF PutMarkdown, AfterMarkdown
  <2>4. \A d \in Docs : \/ markdown'[d] = markdown[d]
                        \/ d = Doc[r] /\ markdown'[d] = r
    BY <1>4, <1>5, <2>3
  <2>5. \A q \in Requests \ {r} : pc'[q] = pc[q]
    BY <1>5, <2>3
  <2>6. pc'[r] \in {"metadata", "partial"}
    BY <1>5, <2>3
  <2>7. pc'[r] = "metadata" => markdown'[Doc[r]] = r
    BY <1>4, <1>5, <2>3
  <2>8. StoredInv'
    <3>1. ASSUME NEW d \in Docs, NEW q \in {markdown'[d], metadata'[d]} \ {None}
          PROVE  /\ Doc[q] = d /\ Len(out'[q]) = Len(Elements[q])
                 /\ pc'[q] \in {"metadata", "success", "partial", "dead"}
      <4>1. q \in Requests
        BY <1>5, <2>2, <2>4, <3>1
      <4>2. (q = r /\ d = Doc[r]) \/ q \in {markdown[d], metadata[d]} \ {None}
        BY <2>2, <2>4, <3>1
      <4> QED
        BY <2>1, <2>2, <2>5, <2>6, <4>1, <4>2 DEF StoredInv
    <3>2. ASSUME NEW q \in Requests, pc'[q] = "metadata"
          PROVE  markdown'[Doc[q]] = q \/ Doc[q] \in overlaps'
      <4>1. CASE q = r
        BY <2>7, <3>2, <4>1
      <4>2. CASE q # r
        <5>1. Doc[q] \in Docs /\ pc[q] = "metadata"
          BY <2>5, <3>2, <4>2 DEF Docs
        <5> QED
          BY <2>2, <2>4, <5>1 DEF StoredInv
      <4> QED
        BY <4>1, <4>2
    <3> QED
      BY <3>1, <3>2 DEF StoredInv
  <2>9. PairsMatch'
    <3> SUFFICES ASSUME NEW d \in Docs
                 PROVE  \/ markdown'[d] = metadata'[d]
                        \/ d \in overlaps'
                        \/ \E q \in Requests :
                             Doc[q] = d /\ pc'[q] \in {"metadata", "partial", "dead"}
      BY DEF PairsMatch
    <3>1. CASE d = Doc[r]
      BY <2>6, <3>1
    <3>2. CASE d # Doc[r]
      BY <2>2, <2>4, <2>5, <3>2 DEF PairsMatch
    <3> QED
      BY <3>1, <3>2
  <2> QED
    BY <2>8, <2>9
<1>7. CASE PutMetadata(r)
  <2>1. pc[r] = "metadata" /\ Len(out[r]) = Len(Elements[r])
    BY <1>7 DEF PutMetadata, IInv, InStep
  <2>2. UNCHANGED <<out, markdown, overlaps>>
    BY <1>7 DEF PutMetadata, local
  <2>3. \/ /\ pc' = [pc EXCEPT ![r] = "success"]
           /\ metadata' = [metadata EXCEPT ![Doc[r]] = r]
        \/ /\ pc' = [pc EXCEPT ![r] = "partial"]
           /\ metadata' \in {metadata, [metadata EXCEPT ![Doc[r]] = r]}
    BY <1>7 DEF PutMetadata
  <2>4. \A d \in Docs : \/ metadata'[d] = metadata[d]
                        \/ d = Doc[r] /\ metadata'[d] = r
    BY <1>4, <1>5, <2>3
  <2>5. \A q \in Requests \ {r} : pc'[q] = pc[q]
    BY <1>5, <2>3
  <2>6. pc'[r] = "partial" \/ (pc'[r] = "success" /\ metadata'[Doc[r]] = r)
    BY <1>4, <1>5, <2>3
  <2>7. markdown[Doc[r]] = r \/ Doc[r] \in overlaps
    BY <2>1 DEF StoredInv
  <2>8. StoredInv'
    <3>1. ASSUME NEW d \in Docs, NEW q \in {markdown'[d], metadata'[d]} \ {None}
          PROVE  /\ Doc[q] = d /\ Len(out'[q]) = Len(Elements[q])
                 /\ pc'[q] \in {"metadata", "success", "partial", "dead"}
      <4>1. q \in Requests
        BY <1>5, <2>2, <2>4, <3>1
      <4>2. (q = r /\ d = Doc[r]) \/ q \in {markdown[d], metadata[d]} \ {None}
        BY <2>2, <2>4, <3>1
      <4> QED
        BY <2>1, <2>2, <2>5, <2>6, <4>1, <4>2 DEF StoredInv
    <3>2. ASSUME NEW q \in Requests, pc'[q] = "metadata"
          PROVE  markdown'[Doc[q]] = q \/ Doc[q] \in overlaps'
      BY <2>2, <2>5, <2>6, <3>2 DEF StoredInv
    <3> QED
      BY <3>1, <3>2 DEF StoredInv
  <2>9. PairsMatch'
    <3> SUFFICES ASSUME NEW d \in Docs
                 PROVE  \/ markdown'[d] = metadata'[d]
                        \/ d \in overlaps'
                        \/ \E q \in Requests :
                             Doc[q] = d /\ pc'[q] \in {"metadata", "partial", "dead"}
      BY DEF PairsMatch
    <3>1. CASE d = Doc[r]
      BY <2>2, <2>6, <2>7, <3>1
    <3>2. CASE d # Doc[r]
      BY <2>2, <2>4, <2>5, <3>2 DEF PairsMatch
    <3> QED
      BY <3>1, <3>2
  <2> QED
    BY <2>8, <2>9
<1> QED
  BY <1>1, <1>2, <1>3, <1>6, <1>7 DEF Serve

LEMMA StoredHolds == Spec => [](StoredInv /\ PairsMatch)
<1>1. Init => StoredInv /\ PairsMatch
  BY DEF Init, StoredInv, PairsMatch
<1>2. IInv /\ StoredInv /\ PairsMatch /\ [Next]_vars => StoredInv' /\ PairsMatch'
  <2> SUFFICES ASSUME IInv, StoredInv, PairsMatch, [Next]_vars
               PROVE  StoredInv' /\ PairsMatch'
    OBVIOUS
  <2>1. CASE Crash
    <3>1. /\ UNCHANGED <<out, markdown, metadata, overlaps>>
          /\ pc' = [q \in Requests |->
                      IF pc[q] \in Final \cup {"new"} THEN pc[q] ELSE "dead"]
      BY <2>1 DEF Crash, local, objects
    <3>2. \A d \in Docs : {markdown[d], metadata[d]} \ {None} \subseteq Requests
      BY DEF IInv, TypeOK, Holder
    <3>3. StoredInv'
      BY <3>1, <3>2 DEF StoredInv, Final
    <3>4. PairsMatch'
      BY <3>1 DEF PairsMatch, Final
    <3> QED
      BY <3>3, <3>4
  <2>2. CASE UNCHANGED vars
    BY <2>2 DEF vars, local, objects, StoredInv, PairsMatch
  <2>3. CASE \E r \in Requests : Accept(r) \/ Serve(r)
    BY <2>3, StoredStep
  <2> QED
    BY <2>1, <2>2, <2>3 DEF Next
<1> QED
  BY <1>1, <1>2, InvHolds, PTL DEF Spec

\* What is stored for a document comes from a run through all of its elements.
THEOREM NothingHalfIsStored == Spec => []StoredAreWhole
<1>1. StoredInv => StoredAreWhole
  BY DEF StoredInv, StoredAreWhole
<1> QED
  BY <1>1, StoredHolds, PTL

\* Markdown and metadata of a document come from one run, unless two runs stored them
\* at the same time or one was cut short between its two puts.
THEOREM PairsAreOfOneRun == Spec => []PairsMatch
BY StoredHolds, PTL

=============================================================================

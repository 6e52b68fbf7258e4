--------------------------- MODULE BatchWorkerProofs ---------------------------
(***************************************************************************)
(* Proofs about BatchWorker, for every BATCH_SIZE and every length of the  *)
(* list: BatchInv and WorkerInv are inductive, the safety properties       *)
(* follow from them, and the worker implements CopyJob.                    *)
(***************************************************************************)
EXTENDS BatchRefinement, FiniteSetTheorems, TLAPS

\* Euclidean division, as SMT knows it.
LEMMA DivMod ==
    ASSUME NEW n \in Nat, NEW d \in Nat \ {0}
    PROVE  /\ n \div d \in Nat
           /\ n % d \in 0 .. d - 1
           /\ n = (n \div d) * d + (n % d)
OBVIOUS

\* Multiplication by a natural number is monotone.
LEMMA MulMono ==
    ASSUME NEW j \in Nat, NEW k \in Nat, NEW d \in Nat, j <= k
    PROVE  j * d <= k * d
OBVIOUS

\* The numbers of worker.go:60-64 add up to the length of the slice, only a
\* full batch leaves a remainder, and the remainder is smaller than a batch.
LEMMA SchemaFacts ==
    ASSUME NEW n \in Nat
    PROVE  LET s == BatchSchema(n)
           IN  /\ s.Count \in Nat \ {0}
               /\ s.BatchSize \in Nat /\ s.BatchSize <= BATCH_SIZE
               /\ s.Remainder \in Nat /\ s.Remainder < BATCH_SIZE
               /\ n = s.Count * s.BatchSize + s.Remainder
               /\ (s.Count > 1 \/ s.Remainder > 0) =>
                      n >= BATCH_SIZE /\ s.BatchSize = BATCH_SIZE
<1>. USE BatchAssumption DEF BatchSchema
<1>1. CASE n < BATCH_SIZE
  BY <1>1
<1>2. CASE n >= BATCH_SIZE
  <2>1. /\ n \div BATCH_SIZE \in Nat
        /\ n % BATCH_SIZE \in 0 .. BATCH_SIZE - 1
        /\ n = (n \div BATCH_SIZE) * BATCH_SIZE + (n % BATCH_SIZE)
    BY DivMod
  <2>2. n \div BATCH_SIZE # 0
    BY <2>1, <1>2
  <2>. QED  BY <1>2, <2>1, <2>2
<1>. QED  BY <1>1, <1>2

\* Where the current batch lies in the list of images.
CurrentBatch ==
    /\ b.Count \in Nat \ {0}
    /\ b.BatchSize \in Nat /\ b.BatchSize <= BATCH_SIZE
    /\ b.Remainder \in Nat /\ b.Remainder < BATCH_SIZE
    /\ (b.Count > 1 \/ b.Remainder > 0) =>
           imgs - base >= BATCH_SIZE /\ b.BatchSize = BATCH_SIZE
    /\ Index(0) \in Nat
    /\ \A x \in Nat : Index(x) = Index(0) + x
    /\ Index(b.BatchSize) <= imgs
    /\ batch + 1 >= b.Count => Index(b.BatchSize) + b.Remainder = imgs
    /\ Active \subseteq Image
    /\ IsFiniteSet(Active)
    /\ Cardinality(Active) = b.BatchSize
    /\ Frontier \in Nat /\ Index(0) <= Frontier /\ Frontier <= Index(b.BatchSize)

\* The current batch lies inside the list: worker.go:85 never indexes past it.
LEMMA Geometry == TypeOK /\ FrameInv => CurrentBatch
<1>. SUFFICES ASSUME TypeOK, FrameInv  PROVE CurrentBatch
  OBVIOUS
<1>. DEFINE n == imgs - base
            B == b.BatchSize
<1>1. n \in Nat /\ imgs \in Nat /\ imgs <= MaxImages
  BY BatchAssumption DEF TypeOK, FrameInv
<1>2. /\ b.Count \in Nat \ {0}
      /\ B \in Nat /\ B <= BATCH_SIZE
      /\ b.Remainder \in Nat /\ b.Remainder < BATCH_SIZE
      /\ n = b.Count * B + b.Remainder
      /\ (b.Count > 1 \/ b.Remainder > 0) => n >= BATCH_SIZE /\ B = BATCH_SIZE
  BY <1>1, SchemaFacts DEF b
<1>3. batch \in Nat /\ base \in Nat /\ batch + 1 <= b.Count
  BY <1>2 DEF TypeOK, FrameInv
<1>. HIDE DEF B
<1>4. batch * B \in Nat /\ (batch + 1) * B = batch * B + B
  BY <1>2, <1>3
<1>5. Index(0) = base + batch * B /\ \A x \in Nat : Index(x) = base + batch * B + x
  BY <1>3, <1>4 DEF Index, B
<1>6. (batch + 1) * B <= b.Count * B
  BY <1>2, <1>3, MulMono
<1>7. Index(B) = base + (batch + 1) * B
  BY <1>2, <1>3, <1>4, <1>5
<1>8. Index(B) <= imgs
  <2>1. b.Count * B \in Nat
    BY <1>2
  <2>. QED  BY <1>1, <1>2, <1>3, <1>4, <1>6, <1>7, <2>1
<1>9. ASSUME batch + 1 >= b.Count
      PROVE  Index(B) + b.Remainder = imgs
  <2>1. batch + 1 = b.Count
    BY <1>2, <1>3, <1>9
  <2>2. base + b.Count * B + b.Remainder = imgs
    BY <1>1, <1>2, <1>3, <2>1, <1>4
  <2>. QED  BY <1>7, <2>1, <2>2
<1>10. /\ Index(0) \in Nat
       /\ \A x \in Nat : Index(x) = Index(0) + x
  BY <1>3, <1>4, <1>5
<1>. HIDE DEF n
<1>11. B \in Nat /\ Index(B) = Index(0) + B
  BY <1>2, <1>10
<1>15. Active = Index(0) .. Index(0) + B - 1
  <2>1. Active = Index(0) .. Index(B) - 1
    BY DEF Active, B
  <2>. QED  BY <1>10, <1>11, <2>1
<1>12. Active \subseteq Image
  <2>1. SUFFICES ASSUME NEW g \in Active  PROVE g \in Image
    OBVIOUS
  <2>2. g \in Int /\ Index(0) <= g /\ g <= Index(0) + B - 1
    BY <1>10, <1>11, <1>15
  <2>3. Index(0) + B <= MaxImages
    BY <1>1, <1>8, <1>10, <1>11, BatchAssumption
  <2>. QED  BY <1>10, <1>11, <2>2, <2>3, BatchAssumption DEF Image
<1>13. IsFiniteSet(Active) /\ Cardinality(Active) = B
  BY <1>10, <1>11, <1>15, FS_Interval
<1>14. Frontier \in Nat /\ Index(0) <= Frontier /\ Frontier <= Index(B)
  <2>1. CASE wpc = "launch"
    <3>1. launched \in Nat /\ launched <= B /\ Frontier = Index(launched)
      BY <2>1 DEF TypeOK, FrameInv, Frontier, B
    <3>. QED  BY <1>10, <1>11, <3>1
  <2>2. CASE wpc # "launch"
    BY <1>10, <1>11, <2>2 DEF Frontier
  <2>. QED  BY <2>1, <2>2
<1>. QED
  BY <1>2, <1>8, <1>9, <1>10, <1>12, <1>13, <1>14 DEF B, n, CurrentBatch

\* The same in the state a step leads to.
LEMMA GeometryNext == TypeOK' /\ FrameInv' => CurrentBatch'
BY Geometry, PTL

\* A step that leaves Worker's locals alone leaves the current batch alone.
LEMMA SameFrame ==
    ASSUME UNCHANGED worker
    PROVE  /\ b' = b /\ Active' = Active /\ Frontier' = Frontier
           /\ Index(0)' = Index(0)
           /\ FrameInv => FrameInv'
<1>1. b' = b
  BY DEF worker, b, BatchSchema
<1>2. \A x : Index(x)' = Index(x)
  BY <1>1 DEF worker, Index
<1>3. Active' = Active /\ Frontier' = Frontier /\ Index(0)' = Index(0)
  BY <1>1, <1>2 DEF worker, Active, Frontier, Index
<1>4. FrameInv => FrameInv'
  BY <1>1 DEF worker, FrameInv, OneLevelOfRecursion
<1>. QED  BY <1>1, <1>3, <1>4

\* The initial state: one untouched batch, counted by the WaitGroup.
LEMMA InitInv == Init => BatchInv
<1>. SUFFICES ASSUME Init  PROVE BatchInv
  OBVIOUS
<1>1. imgs \in Nat /\ imgs - base = imgs /\ base = 0 /\ batch = 0
  BY BatchAssumption DEF Init
<1>2. b = BatchSchema(imgs)
  BY <1>1 DEF b
<1>3. /\ b.Count \in Nat \ {0} /\ b.BatchSize \in Nat
  BY <1>1, <1>2, SchemaFacts
<1>4. TypeOK
  <2>1. NotLoaded \in [len : Nat, cap : Nat, alloc : Nat, has : SUBSET Words]
    BY DEF NotLoaded
  <2>2. reg \in [Image -> [len : Nat, cap : Nat, alloc : Nat, has : SUBSET Words]]
    BY <2>1 DEF Init
  <2>. QED
    BY <1>2, <1>3, <2>2, BatchAssumption DEF Init, TypeOK, EmptySlice, LiveStates
<1>5. FrameInv
  BY <1>1, <1>3 DEF Init, FrameInv, OneLevelOfRecursion
<1>6. Index(0) = 0 /\ Frontier = 0
  BY <1>1, <1>3 DEF Init, Index, Frontier
<1>7. LaunchInv
  BY <1>6 DEF Init, LaunchInv, Image
<1>8. CallInv
  BY DEF Init, CallInv, LiveStates, EmptySlice
<1>9. WaitGroupExact
  <2>1. Pending = Active
    BY <1>4, <1>5, Geometry DEF CurrentBatch, Init, Pending
  <2>. QED  BY <1>2, <1>4, <1>5, <2>1, Geometry DEF CurrentBatch, Init, WaitGroupExact
<1>10. OkMeansCopied /\ ErrorMeansFailedCopy
  BY DEF Init, OkMeansCopied, ErrorMeansFailedCopy
<1>. QED  BY <1>4, <1>5, <1>7, <1>8, <1>9, <1>10 DEF BatchInv

\* A goroutine that runs belongs to the current batch.
LEMMA LiveIsActive ==
    ASSUME TypeOK, FrameInv, LaunchInv, NEW g \in Image, pc[g] \in LiveStates
    PROVE  g \in Active /\ Index(0) <= g /\ g < Frontier
<1>1. ~(g < Index(0)) /\ ~(Frontier <= g)
  BY DEF LaunchInv, LiveStates
<1>2. g \in Int
  BY BatchAssumption DEF Image
<1>3. Index(0) \in Nat /\ Frontier \in Nat /\ Frontier <= Index(b.BatchSize)
  BY Geometry DEF CurrentBatch
<1>4. Index(b.BatchSize) \in Nat
  BY Geometry DEF CurrentBatch
<1>. QED  BY <1>1, <1>2, <1>3, <1>4 DEF Active

\* Every failure so far is one of the current batch.
LEMMA FailedIsActive ==
    ASSUME BatchInv
    PROVE  failed \subseteq Active
<1>. USE DEF BatchInv
<1>1. SUFFICES ASSUME NEW h \in failed  PROVE h \in Active
  OBVIOUS
<1>2. h \in Image /\ ~(h < Index(0)) /\ ~(Frontier <= h)
  BY DEF TypeOK, LaunchInv, CallInv
<1>3. h \in Int /\ Index(0) \in Nat /\ Index(b.BatchSize) \in Nat
      /\ Frontier \in Nat /\ Frontier <= Index(b.BatchSize)
  BY <1>2, Geometry, BatchAssumption DEF Image, CurrentBatch
<1>. QED  BY <1>2, <1>3 DEF Active

\* A load leaves the goroutine with one more word of the slice header, or takes
\* it on to a store.
LEMMA LoadEffect ==
    ASSUME TypeOK, NEW g \in Image, AppendLoad(g)
    PROVE  /\ UNCHANGED <<worker, wg, hdr, copied, failed>> /\ result = "none" /\ result' \in {"none", "panic"}
           /\ pc[g] = "load"
           /\ \E w \in Words \ reg[g].has : reg' = [reg EXCEPT ![g] = Loaded(g, w)]
           /\ \E s \in {"load", "storeCap", "storeLen"} : pc' = [pc EXCEPT ![g] = s]
<1>1. PICK w \in Words \ reg[g].has :
          /\ reg' = [reg EXCEPT ![g] = Loaded(g, w)]
          /\ \/ UNCHANGED <<pc, result>>
             \/ pc' = [pc EXCEPT ![g] = "storeCap"] /\ result' \in {"none", "panic"}
             \/ pc' = [pc EXCEPT ![g] = "storeLen"] /\ UNCHANGED result
  BY DEF AppendLoad, Touch
<1>2. pc = [pc EXCEPT ![g] = pc[g]]
  BY DEF TypeOK
<1>3. UNCHANGED <<worker, wg, hdr, copied, failed>> /\ result = "none" /\ pc[g] = "load"
  BY DEF AppendLoad
<1>4. \E s \in {"load", "storeCap", "storeLen"} : pc' = [pc EXCEPT ![g] = s]
  BY <1>1, <1>2, <1>3
<1>. QED  BY <1>1, <1>3, <1>4

\* A step of a goroutine preserves the invariant: it works in the current
\* batch, and the errors it stores make errArray non-empty.
LEMMA GoroutineInv ==
    ASSUME BatchInv, NEW g \in Image, Goroutine(g)
    PROVE  BatchInv'
<1>. USE DEF BatchInv
<1>. DEFINE Stores == {"load", "storeCap", "storePtr", "storeLen"}
<1>1. /\ UNCHANGED worker
      /\ result = "none" /\ result' \in {"none", "panic"}
      /\ pc[g] \in LiveStates
      /\ \E s \in Stores \cup {"exit", "done"} : pc' = [pc EXCEPT ![g] = s]
      /\ failed \subseteq failed' /\ failed' \subseteq failed \cup {g}
      /\ copied' \in {copied, copied \cup {g}}
  <2>1. CASE AppendLoad(g)
    BY <2>1, LoadEffect DEF LiveStates
  <2>2. CASE ~AppendLoad(g)
    BY <2>2 DEF Goroutine, RunOk, RunFails, AppendErr, AppendStoreCap,
         AppendStorePtr, AppendStoreLen, Done, Touch, LiveStates
  <2>. QED  BY <2>1, <2>2
<1>2. PICK s \in Stores \cup {"exit", "done"} : pc' = [pc EXCEPT ![g] = s]
  BY <1>1
<1>3. /\ pc \in [Image -> LiveStates \cup {"idle", "done"}]
      /\ pc'[g] = s /\ \A h \in Image \ {g} : pc'[h] = pc[h]
      /\ s \notin {"idle", "running"}
  BY <1>2 DEF TypeOK
<1>4. g \in Active /\ Index(0) <= g /\ g < Frontier
  BY <1>1, LiveIsActive
<1>5. /\ Active' = Active /\ Frontier' = Frontier /\ Index(0)' = Index(0)
      /\ FrameInv'
  BY <1>1, SameFrame
<1>6. Active \subseteq Image /\ IsFiniteSet(Active) /\ Index(0) \in Nat /\ Frontier \in Nat
  BY Geometry DEF CurrentBatch
<1>7. WaitGroupExact' /\ wg' \in Nat
  <2>1. IsFiniteSet(Pending) /\ wg = Cardinality(Pending) /\ wg \in Nat
    <3>1. Pending \in SUBSET Active
      BY DEF Pending
    <3>. QED  BY <1>1, <1>6, <3>1, FS_Subset, FS_CardinalityType DEF WaitGroupExact
  <2>2. CASE Done(g)
    <3>1. Pending' = Pending \ {g} /\ g \in Pending
      BY <1>3, <1>4, <1>5, <1>6, <2>2 DEF Pending, Done, TypeOK
    <3>2. wg' = wg - 1
      BY <2>2 DEF Done
    <3>3. Cardinality(Pending \ {g}) = Cardinality(Pending) - 1
          /\ Cardinality(Pending \ {g}) \in Nat
      BY <2>1, <3>1, FS_RemoveElement, FS_CardinalityType
    <3>. QED  BY <2>1, <3>1, <3>2, <3>3 DEF WaitGroupExact
  <2>3. CASE ~Done(g)
    <3>1. s # "done" /\ wg' = wg
      BY <1>3, <2>3 DEF Goroutine, RunOk, RunFails, AppendErr, AppendLoad,
             AppendStoreCap, AppendStorePtr, AppendStoreLen, TypeOK
    <3>2. Pending' = Pending
      BY <1>1, <1>3, <1>5, <1>6, <3>1 DEF Pending, LiveStates
    <3>. QED  BY <2>1, <3>1, <3>2 DEF WaitGroupExact
  <2>. QED  BY <2>2, <2>3
<1>8. hdr' \in [len : Nat, cap : Nat, alloc : Nat]
      /\ reg' \in [Image -> [len : Nat, cap : Nat, alloc : Nat, has : SUBSET Words]]
  <2>1. /\ hdr \in [len : Nat, cap : Nat, alloc : Nat]
        /\ reg \in [Image -> [len : Nat, cap : Nat, alloc : Nat, has : SUBSET Words]]
        /\ NewCap(reg[g]) \in Nat
    BY DEF TypeOK, NewCap
  <2>2. CASE AppendErr(g)
    <3>1. CASE AppendLoad(g)
      <4>1. PICK w \in Words : reg' = [reg EXCEPT ![g] = Loaded(g, w)] /\ UNCHANGED hdr
        BY <3>1, LoadEffect
      <4>2. Loaded(g, w) \in [len : Nat, cap : Nat, alloc : Nat, has : SUBSET Words]
        BY <2>1 DEF Loaded
      <4>. QED  BY <2>1, <4>1, <4>2
    <3>2. CASE AppendStoreLen(g)
      <4>1. NotLoaded \in [len : Nat, cap : Nat, alloc : Nat, has : SUBSET Words]
        BY DEF NotLoaded
      <4>. QED  BY <2>1, <3>2, <4>1 DEF AppendStoreLen
    <3>3. CASE AppendStoreCap(g) \/ AppendStorePtr(g)
      BY <2>1, <3>3 DEF AppendStoreCap, AppendStorePtr
    <3>. QED  BY <2>2, <3>1, <3>2, <3>3 DEF AppendErr
  <2>3. CASE RunOk(g) \/ RunFails(g) \/ Done(g)
    BY <2>1, <2>3 DEF RunOk, RunFails, Done
  <2>. QED  BY <2>2, <2>3 DEF Goroutine
<1>9. TypeOK'
  <2>1. pc' \in [Image -> LiveStates \cup {"idle", "done"}]
    BY <1>2, <1>3 DEF LiveStates
  <2>2. result' \in {"none", "ok", "error", "panic"}
        /\ copied' \subseteq Image /\ failed' \subseteq Image
    BY <1>1 DEF TypeOK
  <2>3. /\ imgs' \in 0 .. MaxImages
        /\ base' \in Nat /\ depth' \in Nat /\ batch' \in Nat /\ launched' \in Nat
        /\ wpc' \in {"create", "launch"}
    BY <1>1 DEF TypeOK, worker
  <2>. QED  BY <1>7, <1>8, <2>1, <2>2, <2>3 DEF TypeOK
<1>10. LaunchInv'
  <2>1. SUFFICES ASSUME NEW h \in Image
                 PROVE  /\ h < Index(0) => pc'[h] = "done" /\ h \notin failed'
                        /\ Index(0) <= h /\ h < Frontier => pc'[h] # "idle"
                        /\ Frontier <= h => pc'[h] = "idle"
    BY <1>5 DEF LaunchInv
  <2>2. h \in Int /\ g \in Int
    BY BatchAssumption DEF Image
  <2>3. CASE h = g
    BY <1>3, <1>4, <1>6, <2>2, <2>3
  <2>4. CASE h # g
    BY <1>1, <1>3, <2>4 DEF LaunchInv
  <2>. QED  BY <2>3, <2>4
<1>11. CallInv'
  <2>1. hdr.len \in Nat /\ reg[g].len \in Nat
    BY DEF TypeOK
  <2>2. hdr'.len = hdr.len \/ (AppendStoreLen(g) /\ hdr'.len = reg[g].len + 1 /\ g \in failed)
    BY DEF Goroutine, RunOk, RunFails, AppendErr, AppendLoad, AppendStoreCap,
           AppendStorePtr, AppendStoreLen, Done, TypeOK, CallInv, LiveStates
  <2>3. hdr'.len \in Nat /\ (hdr.len > 0 => hdr'.len > 0)
    BY <2>1, <2>2
  <2>4. hdr'.len > 0 => failed' # {}
    BY <1>1, <2>1, <2>2 DEF CallInv
  <2>5. ASSUME NEW h \in Image \ {g}
        PROVE  /\ pc'[h] \in {"idle", "running"} => h \notin failed'
               /\ pc'[h] \in LiveStates \ {"running", "exit"} => h \in failed'
               /\ pc'[h] \in {"exit", "done"} /\ h \notin failed' => h \in copied'
               /\ pc'[h] \in {"exit", "done"} /\ h \in failed' => hdr'.len > 0
    <3>1. pc'[h] = pc[h] /\ (h \in failed' <=> h \in failed) /\ (h \in copied => h \in copied')
      BY <1>1, <1>3
    <3>. QED  BY <2>3, <3>1 DEF CallInv
  <2>6. /\ s \in LiveStates \ {"running", "exit"} => g \in failed'
        /\ s \in {"exit", "done"} /\ g \notin failed' => g \in copied'
        /\ s \in {"exit", "done"} /\ g \in failed' => hdr'.len > 0
    <3>1. CASE RunOk(g)
      <4>1. s = "exit" /\ g \notin failed' /\ g \in copied'
        BY <1>3, <3>1 DEF RunOk, TypeOK, CallInv
      <4>. QED  BY <4>1
    <3>2. CASE RunFails(g)
      <4>1. s = "load" /\ g \in failed'
        BY <1>3, <3>2 DEF RunFails, TypeOK
      <4>. QED  BY <4>1
    <3>3. CASE AppendLoad(g) \/ AppendStoreCap(g) \/ AppendStorePtr(g)
      <4>1. s \in Stores /\ g \in failed /\ failed' = failed
        BY <1>3, <3>3 DEF AppendLoad, AppendStoreCap, AppendStorePtr, TypeOK, CallInv, LiveStates
      <4>. QED  BY <4>1
    <3>4. CASE AppendStoreLen(g)
      <4>1. s = "exit" /\ g \in failed /\ failed' = failed
        BY <1>3, <3>4 DEF AppendStoreLen, TypeOK, CallInv, LiveStates
      <4>2. hdr'.len = reg[g].len + 1
        BY <3>4 DEF AppendStoreLen, TypeOK
      <4>. QED  BY <2>1, <4>1, <4>2 DEF LiveStates
    <3>5. CASE Done(g)
      <4>1. s = "done" /\ pc[g] = "exit" /\ UNCHANGED <<failed, copied, hdr>>
        BY <1>3, <3>5 DEF Done, TypeOK
      <4>. QED  BY <4>1 DEF CallInv, LiveStates
    <3>. QED  BY <3>1, <3>2, <3>3, <3>4, <3>5 DEF Goroutine, AppendErr
  <2>. QED  BY <1>3, <2>4, <2>5, <2>6 DEF CallInv
<1>12. OkMeansCopied' /\ ErrorMeansFailedCopy'
  BY <1>1 DEF OkMeansCopied, ErrorMeansFailedCopy
<1>. QED  BY <1>5, <1>7, <1>9, <1>10, <1>11, <1>12

\* Creating a log file and starting the launch loop preserves the invariant.
LEMMA CreateLogInv == ASSUME BatchInv, CreateLog  PROVE BatchInv'
<1>. USE DEF BatchInv
<1>1. /\ UNCHANGED <<imgs, base, depth, batch, wg, pc, hdr, reg, result, copied, failed>>
      /\ result = "none" /\ wpc = "create" /\ wpc' = "launch" /\ launched' = 0
  BY DEF CreateLog
<1>2. b' = b
  BY <1>1 DEF b, BatchSchema
<1>3. \A x : Index(x)' = Index(x)
  BY <1>1, <1>2 DEF Index
<1>4. CurrentBatch
  BY Geometry
<1>5. Active' = Active /\ Pending' = Pending /\ Index(0)' = Index(0) /\ Frontier' = Frontier
  BY <1>1, <1>2, <1>3 DEF Active, Pending, Frontier, Index
<1>6. FrameInv'
  BY <1>1, <1>2, <1>4 DEF FrameInv, OneLevelOfRecursion, CurrentBatch
<1>7. TypeOK'
  BY <1>1 DEF TypeOK
<1>8. LaunchInv'
  BY <1>1, <1>5 DEF LaunchInv
<1>9. CallInv'
  BY <1>1 DEF CallInv
<1>10. WaitGroupExact' /\ OkMeansCopied' /\ ErrorMeansFailedCopy'
  BY <1>1, <1>5 DEF WaitGroupExact, OkMeansCopied, ErrorMeansFailedCopy
<1>. QED  BY <1>6, <1>7, <1>8, <1>9, <1>10

\* Launching a goroutine preserves the invariant: it starts the first image
\* of the current batch that is still idle.
LEMMA LaunchStepInv == ASSUME BatchInv, Launch  PROVE BatchInv'
<1>. USE DEF BatchInv
<1>. DEFINE g == Index(launched)
<1>1. /\ UNCHANGED <<imgs, base, depth, batch, wpc, wg, hdr, reg,
                      result, copied, failed>>
      /\ result = "none" /\ wpc = "launch" /\ launched < b.BatchSize
      /\ launched' = launched + 1 /\ launched \in Nat
      /\ pc' = [pc EXCEPT ![g] = "running"]
  BY DEF Launch, TypeOK
<1>2. b' = b
  BY <1>1 DEF b, BatchSchema
<1>3. \A x : Index(x)' = Index(x)
  BY <1>1, <1>2 DEF Index
<1>4. CurrentBatch
  BY Geometry
<1>5. Active' = Active /\ Index(0)' = Index(0)
  BY <1>1, <1>2, <1>3 DEF Active, Index
<1>6. /\ Frontier = g /\ Frontier' = g + 1 /\ g \in Nat
      /\ g = Index(0) + launched /\ g \in Active /\ g \in Image
  <2>1. Frontier = g /\ g = Index(0) + launched /\ g \in Nat
    BY <1>1, <1>4 DEF Frontier, CurrentBatch
  <2>2. Frontier' = Index(launched + 1)
    BY <1>1, <1>2 DEF Frontier, Index
  <2>3. Index(launched + 1) = g + 1
    BY <1>1, <1>4, <2>1 DEF CurrentBatch
  <2>4. g \in Active
    <3>1. b.BatchSize \in Nat /\ Index(0) \in Nat
          /\ Index(b.BatchSize) = Index(0) + b.BatchSize
      BY <1>4 DEF CurrentBatch
    <3>2. g \in Nat /\ Index(0) <= g /\ g <= Index(0) + b.BatchSize - 1
      BY <1>1, <2>1, <3>1
    <3>. QED  BY <3>1, <3>2 DEF Active
  <2>. QED  BY <1>4, <2>1, <2>2, <2>3, <2>4 DEF CurrentBatch
<1>. HIDE DEF g
<1>7. pc[g] = "idle" /\ g \notin failed
  BY <1>6 DEF LaunchInv, CallInv
<1>8. pc'[g] = "running" /\ \A h \in Image \ {g} : pc'[h] = pc[h]
  BY <1>1, <1>6 DEF TypeOK
<1>9. FrameInv'
  BY <1>1, <1>2, <1>4 DEF FrameInv, OneLevelOfRecursion, CurrentBatch
<1>10. TypeOK'
  <2>1. pc' \in [Image -> LiveStates \cup {"idle", "done"}]
    BY <1>1 DEF TypeOK, LiveStates
  <2>2. launched' \in Nat
    BY <1>1
  <2>. QED  BY <1>1, <2>1, <2>2 DEF TypeOK
<1>11. LaunchInv'
  <2>1. SUFFICES ASSUME NEW h \in Image
                 PROVE  /\ h < Index(0) => pc'[h] = "done" /\ h \notin failed
                        /\ Index(0) <= h /\ h < g + 1 => pc'[h] # "idle"
                        /\ g + 1 <= h => pc'[h] = "idle"
    BY <1>1, <1>5, <1>6 DEF LaunchInv
  <2>2. h \in Int /\ Index(0) \in Nat
    BY <1>4, BatchAssumption DEF Image, CurrentBatch
  <2>3. CASE h = g
    BY <1>1, <1>6, <1>8, <2>2, <2>3
  <2>4. CASE h # g
    <3>1. pc'[h] = pc[h]
      BY <1>8, <2>4
    <3>2. (h < g + 1 => h < Frontier) /\ (g + 1 <= h => Frontier <= h)
      BY <1>6, <2>2, <2>4
    <3>. QED  BY <3>1, <3>2 DEF LaunchInv
  <2>. QED  BY <2>3, <2>4
<1>12. CallInv'
  <2>1. \A h \in Image :
          /\ pc'[h] \in {"idle", "running"} => h \notin failed
          /\ pc'[h] \in LiveStates \ {"running", "exit"} => h \in failed
          /\ pc'[h] \in {"exit", "done"} /\ h \notin failed => h \in copied
          /\ pc'[h] \in {"exit", "done"} /\ h \in failed => hdr.len > 0
    BY <1>7, <1>8 DEF CallInv
  <2>. QED  BY <1>1, <2>1 DEF CallInv
<1>13. WaitGroupExact'
  <2>1. Pending' = Pending
    BY <1>4, <1>5, <1>7, <1>8 DEF Pending, CurrentBatch
  <2>. QED  BY <1>1, <2>1 DEF WaitGroupExact
<1>14. OkMeansCopied' /\ ErrorMeansFailedCopy'
  BY <1>1 DEF OkMeansCopied, ErrorMeansFailedCopy
<1>. QED  BY <1>9, <1>10, <1>11, <1>12, <1>13, <1>14

\* When wg.Wait returns, every goroutine of this and of the earlier batches
\* has finished, and an empty errArray means that none of them failed.
LEMMA BatchDoneFacts ==
    ASSUME BatchInv, BatchDone
    PROVE  /\ Live = {}
           /\ Frontier = Index(b.BatchSize)
           /\ \A g \in Image : g < Index(b.BatchSize) => pc[g] = "done"
           /\ \A g \in Image : Index(b.BatchSize) <= g => pc[g] = "idle"
           /\ hdr.len = 0 =>
                  /\ failed = {}
                  /\ \A g \in Image : g < Index(b.BatchSize) => g \in copied
<1>. USE DEF BatchInv
<1>1. CurrentBatch
  BY Geometry
<1>2. result = "none" /\ wpc = "launch" /\ launched = b.BatchSize /\ wg = 0
  BY DEF BatchDone
<1>3. Frontier = Index(b.BatchSize)
  BY <1>2 DEF Frontier
<1>4. Pending = {}
  <2>1. Pending \in SUBSET Active
    BY DEF Pending
  <2>. QED  BY <1>1, <1>2, <2>1, FS_Subset, FS_EmptySet DEF WaitGroupExact, CurrentBatch
<1>5. ASSUME NEW g \in Image, g < Index(b.BatchSize)
      PROVE  pc[g] = "done"
  <2>1. g \in Int /\ Index(0) \in Nat /\ Index(b.BatchSize) \in Nat
    BY <1>1, BatchAssumption DEF Image, CurrentBatch
  <2>2. CASE g < Index(0)
    BY <2>2 DEF LaunchInv
  <2>3. CASE g >= Index(0)
    <3>1. g \in Active
      BY <1>5, <2>1, <2>3 DEF Active
    <3>. QED  BY <1>4, <3>1 DEF Pending
  <2>. QED  BY <2>1, <2>2, <2>3
<1>6. \A g \in Image : Index(b.BatchSize) <= g => pc[g] = "idle"
  BY <1>3 DEF LaunchInv
<1>7. \A g \in Image : pc[g] \in {"done", "idle"}
  <2>1. \A g \in Image : g \in Int /\ Index(b.BatchSize) \in Nat
    BY <1>1, BatchAssumption DEF Image, CurrentBatch
  <2>. QED  BY <1>5, <1>6, <2>1
<1>8. Live = {}
  BY <1>7 DEF Live, LiveStates
<1>9. ASSUME hdr.len = 0
      PROVE  /\ failed = {}
             /\ \A g \in Image : g < Index(b.BatchSize) => g \in copied
  <2>1. \A g \in Image : g \notin failed
    BY <1>7, <1>9 DEF CallInv
  <2>2. failed = {}
    BY <2>1 DEF TypeOK
  <2>. QED  BY <1>5, <2>2 DEF CallInv
<1>. QED  BY <1>3, <1>5, <1>6, <1>8, <1>9

\* Worker's two returns preserve the invariant: nil after a last batch with
\* an empty errArray, an error after a batch with a non-empty one.
LEMMA ReturnInv == ASSUME BatchInv, BatchFailed \/ ReturnOk  PROVE BatchInv'
<1>. USE DEF BatchInv
<1>1. /\ BatchDone /\ UNCHANGED <<worker, pc, hdr, reg, copied, failed>>
      /\ wg' = WgAfterBatch
      /\ \/ hdr.len > 0 /\ result' \in {"error", "panic"}
         \/ hdr.len = 0 /\ batch + 1 >= b.Count /\ b.Remainder = 0 /\ result' = "ok"
  BY DEF BatchFailed, ReturnOk, Touch
<1>2. CurrentBatch
  BY Geometry
<1>3. wg' \in Nat
  BY <1>1, BatchAssumption DEF WgAfterBatch, TypeOK
<1>4. TypeOK'
  BY <1>1, <1>3 DEF TypeOK, worker
<1>5. FrameInv' /\ Index(0)' = Index(0) /\ Frontier' = Frontier
  BY <1>1, SameFrame
<1>6. LaunchInv' /\ CallInv'
  BY <1>1, <1>5 DEF LaunchInv, CallInv
<1>7. WaitGroupExact'
  BY <1>1 DEF WaitGroupExact
<1>8. OkMeansCopied'
  <2>1. SUFFICES ASSUME result' = "ok"
                 PROVE  failed = {} /\ \A g \in 0 .. imgs - 1 : g \in copied
    BY <1>1 DEF OkMeansCopied, worker
  <2>2. hdr.len = 0 /\ Index(b.BatchSize) = imgs /\ imgs \in 0 .. MaxImages
    <3>1. hdr.len = 0 /\ batch + 1 >= b.Count /\ b.Remainder = 0
      BY <1>1, <2>1
    <3>2. /\ Index(b.BatchSize) + b.Remainder = imgs
          /\ Index(b.BatchSize) \in Nat
      BY <1>2, <3>1 DEF CurrentBatch
    <3>. QED  BY <3>1, <3>2 DEF TypeOK
  <2>3. \A g \in 0 .. imgs - 1 : g \in Image /\ g < Index(b.BatchSize)
    BY <2>2, BatchAssumption DEF Image
  <2>. QED  BY <1>1, <2>2, <2>3, BatchDoneFacts
<1>9. ErrorMeansFailedCopy'
  <2>1. SUFFICES ASSUME result' = "error"  PROVE failed # {} /\ Live = {}
    BY <1>1 DEF ErrorMeansFailedCopy, Live
  <2>. QED  BY <1>1, <2>1, BatchDoneFacts DEF CallInv
<1>. QED  BY <1>4, <1>5, <1>6, <1>7, <1>8, <1>9

\* Moving on to images that are all idle, with the WaitGroup filled for them
\* and an empty errArray, preserves the invariant.
LEMMA FreshBatchInv ==
    ASSUME BatchInv, BatchDone, hdr.len = 0, TypeOK', FrameInv',
           Index(0)' = Index(b.BatchSize), wpc' = "create", hdr'.len = 0,
           wg' = b'.BatchSize, UNCHANGED <<imgs, pc, result, copied, failed>>
    PROVE  BatchInv'
<1>. USE DEF BatchInv
<1>1. CurrentBatch' /\ CurrentBatch /\ Index(b.BatchSize) \in Nat
  BY Geometry, GeometryNext DEF CurrentBatch
<1>2. Frontier' = Index(0)'
  BY DEF Frontier, Index
<1>3. /\ failed = {} /\ result = "none"
      /\ \A g \in Image : g < Index(b.BatchSize) => pc[g] = "done" /\ g \in copied
      /\ \A g \in Image : Index(b.BatchSize) <= g => pc[g] = "idle"
  BY BatchDoneFacts DEF BatchDone
<1>4. LaunchInv'
  <2>1. \A g \in Image : ~(Index(b.BatchSize) <= g /\ g < Index(b.BatchSize))
    BY <1>1, BatchAssumption DEF Image
  <2>. QED  BY <1>2, <1>3, <2>1 DEF LaunchInv
<1>5. CallInv'
  BY <1>3 DEF CallInv
<1>6. WaitGroupExact'
  <2>1. ASSUME NEW g \in Active'  PROVE g \in Image /\ Index(b.BatchSize) <= g
    <3>1. Active' = Index(0)' .. Index(b.BatchSize)' - 1 /\ Active' \subseteq Image
      BY <1>1 DEF Active, CurrentBatch
    <3>2. Index(b.BatchSize)' \in Nat
      BY <1>1 DEF CurrentBatch
    <3>. QED  BY <1>1, <2>1, <3>1, <3>2
  <2>2. Pending' = Active'
    BY <1>3, <2>1 DEF Pending
  <2>. QED  BY <1>1, <2>2 DEF WaitGroupExact, CurrentBatch
<1>7. OkMeansCopied' /\ ErrorMeansFailedCopy'
  BY <1>3 DEF OkMeansCopied, ErrorMeansFailedCopy
<1>. QED  BY <1>4, <1>5, <1>6, <1>7

\* The loop's next batch preserves the invariant: only full batches follow
\* one another, so that wg.Add(BATCH_SIZE) is the right count.
LEMMA NextBatchInv == ASSUME BatchInv, NextBatch  PROVE BatchInv'
<1>. USE DEF BatchInv
<1>1. /\ BatchDone /\ hdr.len = 0 /\ batch + 1 < b.Count
      /\ batch' = batch + 1 /\ wpc' = "create" /\ wg' = WgAfterBatch
      /\ UNCHANGED <<imgs, base, depth, launched,
                     pc, hdr, reg, result, copied, failed>>
  BY DEF NextBatch
<1>2. CurrentBatch /\ batch \in Nat /\ base \in Nat
  BY Geometry DEF TypeOK
<1>3. b' = b
  BY <1>1 DEF b, BatchSchema
<1>4. wg' = b'.BatchSize
  BY <1>1, <1>2, <1>3, BatchAssumption DEF WgAfterBatch, BatchDone, CurrentBatch
<1>5. Index(0)' = Index(b.BatchSize)
  <2>1. b.BatchSize \in Nat
    BY <1>2 DEF CurrentBatch
  <2>2. /\ Index(0)' = base + (batch + 1) * b.BatchSize + 0
        /\ Index(b.BatchSize) = base + batch * b.BatchSize + b.BatchSize
    BY <1>1, <1>3 DEF Index
  <2>3. batch * b.BatchSize \in Nat
        /\ (batch + 1) * b.BatchSize = batch * b.BatchSize + b.BatchSize
    BY <1>2, <2>1
  <2>. QED  BY <1>2, <2>1, <2>2, <2>3
<1>6. TypeOK'
  <2>1. wg' \in Nat /\ batch' \in Nat
    BY <1>1, <1>2, <1>3, <1>4 DEF CurrentBatch
  <2>. QED  BY <1>1, <2>1 DEF TypeOK
<1>7. FrameInv'
  BY <1>1, <1>3 DEF FrameInv, OneLevelOfRecursion
<1>. QED  BY <1>1, <1>4, <1>5, <1>6, <1>7, FreshBatchInv

\* The recursion preserves the invariant: it is made by the outermost call
\* only, on the images after the last full batch, fewer than BATCH_SIZE.
LEMMA RecurseInv == ASSUME BatchInv, Recurse  PROVE BatchInv'
<1>. USE DEF BatchInv
<1>1. /\ BatchDone /\ hdr.len = 0 /\ batch + 1 >= b.Count /\ b.Remainder > 0
      /\ base' = base + b.Count * BATCH_SIZE /\ depth' = depth + 1
      /\ batch' = 0 /\ wpc' = "create" /\ hdr' = EmptySlice
      /\ wg' = BatchSchema(imgs - base').BatchSize
      /\ UNCHANGED <<imgs, launched, pc, reg, result, copied, failed>>
  BY DEF Recurse
<1>2. /\ CurrentBatch /\ batch \in Nat /\ base \in Nat /\ imgs \in Nat
      /\ batch < b.Count /\ depth \in Nat
  BY Geometry, BatchAssumption DEF TypeOK, FrameInv
<1>3. b.BatchSize = BATCH_SIZE /\ imgs - base >= BATCH_SIZE /\ b.Count \in Nat
  BY <1>1, <1>2 DEF CurrentBatch
<1>4. depth = 0
  BY <1>2, <1>3, BatchAssumption DEF FrameInv, OneLevelOfRecursion
<1>5. base' = Index(b.BatchSize) /\ base' \in Nat
  <2>1. batch + 1 = b.Count
    BY <1>1, <1>2, <1>3
  <2>2. Index(b.BatchSize) = base + batch * BATCH_SIZE + BATCH_SIZE
    BY <1>3 DEF Index
  <2>3. (batch + 1) * BATCH_SIZE = batch * BATCH_SIZE + BATCH_SIZE
        /\ batch * BATCH_SIZE \in Nat
    BY <1>2, BatchAssumption
  <2>. QED  BY <1>1, <1>2, <2>1, <2>2, <2>3, BatchAssumption
<1>6. imgs - base' = b.Remainder /\ b.Remainder \in Nat /\ b.Remainder < BATCH_SIZE
  BY <1>1, <1>2, <1>5 DEF CurrentBatch
<1>7. b' = BatchSchema(imgs - base')
  BY <1>1 DEF b, BatchSchema
<1>8. b'.Count = 1 /\ b'.BatchSize = b.Remainder
  BY <1>6, <1>7 DEF BatchSchema
<1>9. wg' = b'.BatchSize
  BY <1>1, <1>7
<1>10. Index(0)' = Index(b.BatchSize)
  <2>1. Index(0)' = base' + 0 * b'.BatchSize + 0
    BY <1>1 DEF Index
  <2>. QED  BY <1>5, <1>6, <1>8, <2>1
<1>11. TypeOK'
  <2>1. wg' \in Nat /\ batch' \in Nat /\ depth' \in Nat
    BY <1>1, <1>2, <1>6, <1>8, <1>9
  <2>. QED  BY <1>1, <1>5, <2>1 DEF TypeOK, EmptySlice
<1>12. FrameInv'
  <2>1. base' <= imgs
    BY <1>2, <1>5, <1>6
  <2>2. depth' = 1
    BY <1>1, <1>4
  <2>. QED  BY <1>1, <1>6, <1>8, <2>1, <2>2 DEF FrameInv, OneLevelOfRecursion
<1>13. hdr'.len = 0
  BY <1>1 DEF EmptySlice
<1>. QED  BY <1>1, <1>9, <1>10, <1>11, <1>12, <1>13, FreshBatchInv

\* Every step of Worker and of its goroutines preserves the invariant.
LEMMA NextInv == BatchInv /\ [Next]_vars => BatchInv'
<1>. SUFFICES ASSUME BatchInv, [Next]_vars  PROVE BatchInv'
  OBVIOUS
<1>1. CASE Worker
  BY <1>1, CreateLogInv, LaunchStepInv, ReturnInv, NextBatchInv, RecurseInv DEF Worker
<1>2. CASE \E g \in Image : Goroutine(g)
  BY <1>2, GoroutineInv
<1>3. CASE UNCHANGED vars
  <2>1. /\ UNCHANGED worker /\ UNCHANGED <<wg, pc, hdr, reg, result, copied, failed>>
    BY <1>3 DEF vars
  <2>2. FrameInv' /\ Index(0)' = Index(0) /\ Frontier' = Frontier /\ Active' = Active
    BY <2>1, SameFrame DEF BatchInv
  <2>3. TypeOK' /\ LaunchInv' /\ CallInv'
    BY <2>1, <2>2 DEF BatchInv, TypeOK, LaunchInv, CallInv, worker
  <2>4. WaitGroupExact' /\ OkMeansCopied' /\ ErrorMeansFailedCopy'
    BY <2>1, <2>2 DEF BatchInv, WaitGroupExact, Pending, OkMeansCopied,
                      ErrorMeansFailedCopy, Live, worker
  <2>. QED  BY <2>2, <2>3, <2>4 DEF BatchInv
<1>. QED  BY <1>1, <1>2, <1>3 DEF Next, Terminated

\* The inductive invariant holds in every reachable state, whatever the batch
\* size and however many images there are.
THEOREM BatchInvariance == Spec => []BatchInv
<1>. QED  BY InitInv, NextInv, PTL DEF Spec

\* Worker's locals, the WaitGroup counter (never negative) and the slice
\* header stay within their types.
THEOREM TypeCorrect == Spec => []TypeOK
<1>1. BatchInv => TypeOK
  BY DEF BatchInv
<1>. QED  BY <1>1, BatchInvariance, PTL

\* Worker returns nil only when every image was copied and none failed,
\* although the goroutines append their errors to errArray without a lock.
THEOREM NilMeansCopied == Spec => []OkMeansCopied
<1>1. BatchInv => OkMeansCopied
  BY DEF BatchInv
<1>. QED  BY <1>1, BatchInvariance, PTL

\* Worker returns an error only after a copy failed and with no goroutine
\* left running.
THEOREM ErrorIsJustified == Spec => []ErrorMeansFailedCopy
<1>1. BatchInv => ErrorMeansFailedCopy
  BY DEF BatchInv
<1>. QED  BY <1>1, BatchInvariance, PTL

\* The remainder costs exactly the one level of recursion that worker.go:113
\* announces, for every batch size.
THEOREM RecursionIsShallow == Spec => []OneLevelOfRecursion
<1>1. BatchInv => OneLevelOfRecursion
  BY DEF BatchInv, FrameInv
<1>. QED  BY <1>1, BatchInvariance, PTL

\* The WaitGroup counts the unfinished goroutines of the current batch.
THEOREM WaitGroupCounts == Spec => []WaitGroupExact
<1>1. BatchInv => WaitGroupExact
  BY DEF BatchInv
<1>. QED  BY <1>1, BatchInvariance, PTL

\* No more than BATCH_SIZE copies are ever in flight.
THEOREM ConcurrencyIsBounded == Spec => []BoundedConcurrency
<1>1. BatchInv => BoundedConcurrency
  <2>. SUFFICES ASSUME BatchInv  PROVE BoundedConcurrency
    OBVIOUS
  <2>1. CurrentBatch
    BY Geometry DEF BatchInv
  <2>2. Live \subseteq Active
    BY LiveIsActive DEF BatchInv, Live
  <2>3. Cardinality(Live) \in Nat /\ Cardinality(Live) <= b.BatchSize
    BY <2>1, <2>2, FS_Subset, FS_CardinalityType DEF CurrentBatch
  <2>. QED  BY <2>1, <2>3, BatchAssumption DEF BoundedConcurrency, CurrentBatch
<1>. QED  BY <1>1, BatchInvariance, PTL

\* A copy is launched once, after every goroutine of the other batches has
\* finished and only if none of them failed.
THEOREM LaunchesInOrder == Spec => LaunchInOrder
<1>1. BatchInv /\ [Next]_vars => [LaunchesNext]_vars
  <2>. SUFFICES ASSUME BatchInv, Next, NEW g \in Image,
                       pc'[g] = "running", pc[g] # "running"
                PROVE  pc[g] = "idle" /\ Live \cup failed \subseteq Active
    BY DEF LaunchesNext
  <2>. USE DEF BatchInv
  <2>1. CurrentBatch
    BY Geometry
  <2>2. Live \subseteq Active
    BY LiveIsActive DEF Live
  <2>3. failed \subseteq Active
    BY FailedIsActive
  <2>4. pc[g] = "idle"
    <3>1. Launch /\ g = Index(launched)
      BY DEF Next, Worker, CreateLog, Launch, BatchFailed, NextBatch, Recurse, ReturnOk,
             Terminated, vars, Goroutine, RunOk, RunFails, AppendErr, AppendLoad,
             AppendStoreCap, AppendStorePtr, AppendStoreLen, Done, TypeOK
    <3>2. Frontier = g
      BY <3>1 DEF Launch, Frontier
    <3>3. g \in Int
      BY BatchAssumption DEF Image
    <3>. QED  BY <3>2, <3>3 DEF LaunchInv
  <2>. QED  BY <2>2, <2>3, <2>4
<1>. QED  BY <1>1, BatchInvariance, PTL DEF Spec, LaunchInOrder

-----------------------------------------------------------------------------
\* The steps that leave errArray, the failures and the appends alone.
LEMMA NoAppend ==
    ASSUME AppendInv, UNCHANGED <<hdr, reg, failed>>, result' # "panic",
           \A g \in failed : pc'[g] = pc[g] \/ {pc[g], pc'[g]} \subseteq {"exit", "done"}
    PROVE  AppendInv'
<1>1. ASSUME NEW g \in failed', failed' = {g}  PROVE SoloAppend(g)'
  <2>1. SoloAppend(g) /\ g \in failed
    BY <1>1 DEF AppendInv
  <2>2. CASE pc'[g] = pc[g]
    BY <2>1, <2>2 DEF SoloAppend
  <2>3. CASE {pc[g], pc'[g]} \subseteq {"exit", "done"}
    BY <2>1, <2>3 DEF SoloAppend
  <2>. QED  BY <2>1, <2>2, <2>3
<1>. QED  BY <1>1 DEF AppendInv

\* One goroutine that appends alone takes the slice from empty to one element;
\* a fault needs the append of another.
LEMMA AppendStep ==
    ASSUME BatchInv, AppendInv, NEW g \in Image, AppendErr(g)
    PROVE  AppendInv'
<1>1. g \in failed /\ failed' = failed /\ failed # {}
  BY DEF AppendErr, AppendLoad, AppendStoreCap, AppendStorePtr, AppendStoreLen,
         BatchInv, CallInv, LiveStates
<1>2. pc \in [Image -> LiveStates \cup {"idle", "done"}] /\ reg \in [Image -> [len : Nat, cap : Nat, alloc : Nat, has : SUBSET Words]]
      /\ hdr \in [len : Nat, cap : Nat, alloc : Nat]
  BY DEF BatchInv, TypeOK
<1>3. \A h \in Image \ failed' : reg'[h] = NotLoaded
  <2>1. \A h \in Image \ {g} : reg'[h] = reg[h]
    <3>1. CASE AppendLoad(g)
      BY <1>2, <3>1, LoadEffect DEF BatchInv
    <3>2. CASE ~AppendLoad(g)
      BY <1>2, <3>2 DEF AppendErr, AppendStoreCap, AppendStorePtr, AppendStoreLen
    <3>. QED  BY <3>1, <3>2
  <2>. QED  BY <1>1, <2>1 DEF AppendInv
<1>4. CASE failed # {g}
  <2>1. \E h \in failed : h # g
    BY <1>1, <1>4
  <2>2. \E h, i \in failed : h # i
    BY <1>1, <2>1
  <2>. QED  BY <1>1, <1>3, <2>1, <2>2 DEF AppendInv
<1>5. CASE failed = {g}
  <2>1. SoloAppend(g)
    BY <1>1, <1>5 DEF AppendInv
  <2>2. SoloAppend(g)' /\ result' # "panic"
    <3>1. CASE AppendLoad(g)
      <4>1. hdr = EmptySlice /\ reg[g].len = 0 /\ reg[g].cap = 0 /\ reg[g].alloc = 0 /\ pc[g] = "load"
        BY <2>1, <3>1 DEF AppendLoad, SoloAppend
      <4>2. PICK w \in Words :
                /\ reg' = [reg EXCEPT ![g] = Loaded(g, w)]
                /\ \/ UNCHANGED <<pc, result>>
                   \/ /\ pc' = [pc EXCEPT ![g] = "storeCap"]
                      /\ result' \in Touch(Loaded(g, w).len, Loaded(g, w).alloc, "none")
                   \/ ~Full(Loaded(g, w))
        BY <3>1 DEF AppendLoad
      <4>3. Loaded(g, w).len = 0 /\ Loaded(g, w).cap = 0 /\ Loaded(g, w).alloc = 0
        BY <4>1 DEF Loaded, EmptySlice
      <4>4. Full(Loaded(g, w)) /\ result = "none" /\ UNCHANGED hdr
        BY <3>1, <4>3 DEF Full, AppendLoad
      <4>5. reg'[g].len = 0 /\ reg'[g].cap = 0 /\ reg'[g].alloc = 0
        BY <1>2, <4>2, <4>3
      <4>6. pc'[g] \in {"load", "storeCap"} /\ result' = "none"
        BY <1>2, <4>1, <4>2, <4>3, <4>4 DEF Touch
      <4>. QED  BY <4>1, <4>4, <4>5, <4>6 DEF SoloAppend
    <3>2. CASE AppendStoreCap(g)
      <4>1. /\ hdr = EmptySlice /\ NewCap(reg[g]) = 1
            /\ reg[g].len = 0 /\ reg[g].cap = 0 /\ reg[g].alloc = 0
        BY <2>1, <3>2 DEF AppendStoreCap, SoloAppend, NewCap, EmptySlice
      <4>. QED  BY <1>2, <3>2, <4>1 DEF AppendStoreCap, SoloAppend
    <3>3. CASE AppendStorePtr(g)
      <4>1. /\ hdr = [EmptySlice EXCEPT !.cap = 1] /\ NewCap(reg[g]) = 1
            /\ reg[g].len = 0 /\ reg[g].cap = 0 /\ reg[g].alloc = 0
        BY <2>1, <3>3 DEF AppendStorePtr, SoloAppend, NewCap, EmptySlice
      <4>. QED  BY <1>2, <3>3, <4>1 DEF AppendStorePtr, SoloAppend, EmptySlice
    <3>4. CASE AppendStoreLen(g)
      <4>1. /\ hdr = [EmptySlice EXCEPT !.cap = 1, !.alloc = 1]
            /\ reg[g].len = 0 /\ Full(reg[g])
        BY <2>1, <3>4 DEF AppendStoreLen, SoloAppend, Full, EmptySlice
      <4>2. pc'[g] = "exit" /\ result' = "none"
        BY <1>2, <3>4, <4>1 DEF AppendStoreLen
      <4>3. hdr' = [hdr EXCEPT !.len = 1]
        BY <3>4, <4>1 DEF AppendStoreLen, EmptySlice
      <4>4. hdr' = [len |-> 1, cap |-> 1, alloc |-> 1]
        BY <4>1, <4>3 DEF EmptySlice
      <4>. QED  BY <4>2, <4>4 DEF SoloAppend
    <3>. QED  BY <3>1, <3>2, <3>3, <3>4 DEF AppendErr
  <2>. QED  BY <1>1, <1>3, <1>5, <2>2 DEF AppendInv
<1>. QED  BY <1>4, <1>5

\* Every step keeps the slice header sound until a second copy fails.
LEMMA NextAppendInv == BatchInv /\ AppendInv /\ [Next]_vars => AppendInv'
<1>. SUFFICES ASSUME BatchInv, AppendInv, [Next]_vars  PROVE AppendInv'
  OBVIOUS
<1>1. pc \in [Image -> LiveStates \cup {"idle", "done"}] /\ failed \subseteq Image
  BY DEF BatchInv, TypeOK
<1>2. CASE \E g \in Image : Goroutine(g)
  <2>1. PICK g \in Image : Goroutine(g)
    BY <1>2
  <2>2. CASE RunOk(g)
    <3>1. g \notin failed
      BY <2>2 DEF RunOk, BatchInv, CallInv
    <3>. QED  BY <1>1, <2>2, <3>1, NoAppend DEF RunOk
  <2>3. CASE RunFails(g)
    <3>1. /\ g \notin failed /\ failed' = failed \cup {g}
          /\ UNCHANGED <<hdr, reg, result>> /\ result = "none"
      BY <2>3 DEF RunFails, BatchInv, CallInv
    <3>2. pc'[g] = "load"
      BY <1>1, <2>3 DEF RunFails
    <3>3. ASSUME NEW h \in failed', failed' = {h}  PROVE SoloAppend(h)'
      <4>1. h = g /\ failed = {}
        BY <3>1, <3>3
      <4>2. hdr = EmptySlice
        BY <4>1 DEF AppendInv
      <4>3. reg[g].len = 0 /\ reg[g].cap = 0 /\ reg[g].alloc = 0
        BY <3>1 DEF AppendInv, NotLoaded
      <4>. QED  BY <3>1, <3>2, <4>1, <4>2, <4>3 DEF SoloAppend
    <3>4. \A h \in Image \ failed' : reg'[h] = NotLoaded
      BY <3>1 DEF AppendInv
    <3>. QED  BY <3>1, <3>3, <3>4 DEF AppendInv
  <2>4. CASE AppendErr(g)
    BY <2>4, AppendStep
  <2>5. CASE Done(g)
    BY <1>1, <2>5, NoAppend DEF Done
  <2>. QED  BY <2>1, <2>2, <2>3, <2>4, <2>5 DEF Goroutine
<1>3. CASE CreateLog \/ NextBatch
  BY <1>3, NoAppend DEF CreateLog, NextBatch, BatchDone
<1>4. CASE ReturnOk
  BY <1>4, NoAppend DEF ReturnOk
<1>5. CASE Launch
  <2>1. Index(launched) \notin failed
    <3>1. Index(launched) \in Int /\ Frontier = Index(launched)
      BY <1>5, Geometry DEF Launch, Frontier, BatchInv, CurrentBatch
    <3>. QED  BY <1>1, <3>1 DEF BatchInv, LaunchInv, CallInv
  <2>. QED  BY <1>1, <1>5, <2>1, NoAppend DEF Launch
<1>6. CASE BatchFailed
  <2>1. UNCHANGED <<hdr, reg, failed, pc>> /\ BatchDone /\ failed # {}
    BY <1>6 DEF BatchFailed, BatchInv, CallInv
  <2>2. ASSUME NEW g \in failed, failed = {g}  PROVE result' # "panic"
    <3>1. pc[g] = "done"
      <4>1. Live = {} /\ pc[g] # "idle"
        BY <1>1, <2>1, <2>2, BatchDoneFacts DEF BatchInv, CallInv
      <4>. QED  BY <1>1, <4>1 DEF Live
    <3>2. hdr = [len |-> 1, cap |-> 1, alloc |-> 1]
      BY <2>2, <3>1 DEF AppendInv, SoloAppend
    <3>. QED  BY <1>6, <3>2 DEF BatchFailed, Touch
  <2>3. CASE \E g, h \in failed : g # h
    BY <2>1, <2>3 DEF AppendInv
  <2>4. CASE ~\E g, h \in failed : g # h
    <3>1. PICK g \in failed : failed = {g}
      BY <2>1, <2>4
    <3>. QED  BY <2>1, <2>2, <3>1, NoAppend
  <2>. QED  BY <2>3, <2>4
<1>7. CASE Recurse
  <2>1. failed = {} /\ failed' = {} /\ hdr' = EmptySlice /\ result' = "none" /\ reg' = reg
    BY <1>7, BatchDoneFacts DEF Recurse, BatchDone
  <2>. QED  BY <2>1 DEF AppendInv
<1>8. CASE UNCHANGED vars
  <2>1. UNCHANGED <<hdr, reg, failed, pc, result>>
    BY <1>8 DEF vars
  <2>. QED  BY <2>1 DEF AppendInv, SoloAppend
<1>. QED  BY <1>2, <1>3, <1>4, <1>5, <1>6, <1>7, <1>8 DEF Next, Worker, Terminated

\* The inductive invariant with the race on errArray, for every batch size and
\* every list.
THEOREM WorkerInvariance == Spec => []WorkerInv
<1>1. Init => AppendInv
  BY DEF Init, AppendInv
<1>. QED  BY <1>1, InitInv, NextInv, NextAppendInv, PTL DEF Spec, WorkerInv

\* The unsynchronised append of worker.go:92, and the loop that reads errArray
\* afterwards, can only fault when two copies of one batch failed.
THEOREM PanicIsARace == Spec => []PanicNeedsTwoFailures
<1>1. WorkerInv => PanicNeedsTwoFailures
  <2>. SUFFICES ASSUME WorkerInv, result = "panic"
                PROVE  Cardinality(failed \cap Active) >= 2
    BY DEF PanicNeedsTwoFailures
  <2>1. PICK g, h \in failed : g # h
    BY DEF WorkerInv, AppendInv
  <2>2. failed \cap Active = failed
    BY FailedIsActive DEF WorkerInv
  <2>3. IsFiniteSet(failed)
    BY <2>2, Geometry, FS_Subset DEF WorkerInv, BatchInv, CurrentBatch
  <2>4. Cardinality({g, h}) = 2
    <3>1. IsFiniteSet({g}) /\ Cardinality({g}) = 1
      BY FS_Singleton
    <3>2. Cardinality({g} \cup {h}) = 1 + 1
      BY <2>1, <3>1, FS_AddElement
    <3>3. {g} \cup {h} = {g, h}
      OBVIOUS
    <3>. QED  BY <3>2, <3>3
  <2>5. Cardinality({g, h}) <= Cardinality(failed) /\ Cardinality(failed) \in Nat
    BY <2>1, <2>3, FS_Subset, FS_CardinalityType
  <2>. QED  BY <2>2, <2>4, <2>5
<1>. QED  BY <1>1, WorkerInvariance, PTL

-----------------------------------------------------------------------------
(***************************************************************************)
(* Batch.Worker implements CopyJob and uses Mirror.Run only through what   *)
(* CopyCall promises.                                                      *)
(***************************************************************************)
\* The outcomes as CopyJob sees them.
Outcomes == [g \in Image |-> Outcome(g)]

\* What CopyCall sees of the call for image g.
CallView(g) == <<CallState(g), g \in copied>>

\* Nothing has been tried, and no call has begun.
LEMMA RefinementInit == Init => Job!Init /\ \A g \in Image : Call(g)!Init
<1>. SUFFICES ASSUME Init  PROVE Job!Init /\ \A g \in Image : Call(g)!Init
  OBVIOUS
<1>1. imgs \in Nat /\ 0 .. imgs - 1 \subseteq Image
  BY BatchAssumption DEF Init, Image
<1>2. Job!Init
  BY <1>1 DEF Init, Job!Init, Outcome
<1>3. \A g \in Image : Call(g)!Init
  BY DEF Init, Call!Init, CallState
<1>. QED  BY <1>2, <1>3

\* A goroutine past its call is one of the list.
LEMMA LaunchedIsListed ==
    ASSUME BatchInv, NEW g \in Image, pc[g] # "idle"
    PROVE  g < imgs
<1>1. CurrentBatch /\ g \in Int /\ imgs \in Nat
  BY Geometry, BatchAssumption DEF BatchInv, Image, TypeOK
<1>2. ~(Frontier <= g)
  BY DEF BatchInv, LaunchInv
<1>. QED  BY <1>1, <1>2 DEF CurrentBatch

\* Steps that show nothing of a call to CopyJob, and at most its start to CopyCall.
LEMMA Unseen ==
    ASSUME BatchInv, UNCHANGED <<imgs, failed, copied>>,
           \A g \in Image : \/ pc'[g] = pc[g]
                            \/ pc[g] = "idle" /\ pc'[g] = "running"
                            \/ g \in failed /\ pc[g] \notin {"idle", "running"} /\ pc'[g] \notin {"idle", "running"}
                            \/ {pc[g], pc'[g]} \subseteq {"exit", "done"}
    PROVE  Outcomes' = Outcomes /\ \A g \in Image : [Call(g)!Next]_(CallView(g))
<1>1. ASSUME NEW g \in Image  PROVE Outcome(g)' = Outcome(g)
  BY <1>1 DEF Outcome
<1>2. ASSUME NEW g \in Image  PROVE [Call(g)!Next]_(CallView(g))
  <2>1. CASE pc[g] = "idle" /\ pc'[g] = "running"
    BY <2>1 DEF CallState, Call!Next, Call!Start
  <2>2. CASE ~(pc[g] = "idle" /\ pc'[g] = "running")
    <3>1. CallState(g)' = CallState(g)
      BY <1>2, <2>2 DEF CallState
    <3>. QED  BY <3>1 DEF CallView
  <2>. QED  BY <2>1, <2>2
<1>. QED  BY <1>1, <1>2 DEF Outcomes

\* Mirror.Run returns to goroutine g: CopyJob has tried image g, and only the
\* call of g has moved.
LEMMA RunReturns ==
    ASSUME WorkerInv, NEW g \in Image, RunOk(g) \/ RunFails(g)
    PROVE  Job!Try(g) /\ \A h \in Image : [Call(h)!Next]_(CallView(h))
<1>1. /\ pc \in [Image -> LiveStates \cup {"idle", "done"}]
      /\ result = "none" /\ UNCHANGED <<imgs, result>>
      /\ pc[g] = "running" /\ g \notin failed /\ g < imgs
  <2>1. result = "none" /\ UNCHANGED <<imgs, result>> /\ pc[g] = "running"
    BY DEF RunOk, RunFails, worker
  <2>. QED  BY <2>1, LaunchedIsListed DEF WorkerInv, BatchInv, TypeOK, CallInv
<1>2. /\ \A h \in Image \ {g} : pc'[h] = pc[h] /\ (h \in failed' <=> h \in failed) /\ (h \in copied' <=> h \in copied)
      /\ \/ pc'[g] = "exit" /\ g \notin failed' /\ g \in copied'
         \/ pc'[g] = "load" /\ g \in failed'
  BY <1>1 DEF RunOk, RunFails
<1>3. Outcome(g) = "todo" /\ Outcome(g)' \in {"copied", "failed"}
      /\ \A h \in Image \ {g} : Outcome(h)' = Outcome(h)
  BY <1>1, <1>2 DEF Outcome
<1>4. [h \in Image |-> Outcome(h)]' = [[h \in Image |-> Outcome(h)] EXCEPT ![g] = Outcome(g)']
  BY <1>3
<1>5. Job!Try(g)
  BY <1>1, <1>3, <1>4 DEF Job!Try
<1>6. ASSUME NEW h \in Image  PROVE [Call(h)!Next]_(CallView(h))
  <2>1. CASE h = g
    BY <1>1, <1>2, <2>1 DEF CallState, Call!Next, Call!ReturnNil, Call!ReturnErr
  <2>2. CASE h # g
    <3>1. CallState(h)' = CallState(h) /\ (h \in copied)' = (h \in copied)
      BY <1>2, <2>2 DEF CallState
    <3>. QED  BY <3>1 DEF CallView
  <2>. QED  BY <2>1, <2>2
<1>. QED  BY <1>5, <1>6

\* A step that changes the answer of Worker changes nothing else that CopyJob
\* sees, and the answer is one that CopyJob allows.
LEMMA Answers ==
    ASSUME WorkerInv, AppendInv', Outcomes' = Outcomes, UNCHANGED <<imgs, failed>>, result = "none",
           \/ result' \in {"none", "panic"}
           \/ result' = "error" /\ failed # {}
           \/ result' = "ok" /\ \A g \in Image : g < imgs => Outcome(g) = "copied"
    PROVE  [Job!Next]_(Job!jobVars)
<1>1. [g \in Image |-> Outcome(g)]' = [g \in Image |-> Outcome(g)]
  BY DEF Outcomes
<1>2. Job!FailedImages = failed
  BY DEF Job!FailedImages, Outcome, WorkerInv, BatchInv, TypeOK
<1>3. CASE result' = "none"
  BY <1>1, <1>3 DEF Job!jobVars
<1>4. CASE result' = "panic"
  <2>1. \E g, h \in failed : g # h
    BY <1>4 DEF AppendInv
  <2>. QED  BY <1>1, <1>2, <1>4, <2>1 DEF Job!Next, Job!Fault
<1>5. CASE result' = "error" /\ failed # {}
  BY <1>1, <1>2, <1>5 DEF Job!Next, Job!Fail
<1>6. CASE result' = "ok" /\ \A g \in Image : g < imgs => Outcome(g) = "copied"
  BY <1>1, <1>6 DEF Job!Next, Job!Succeed
<1>. QED  BY <1>3, <1>4, <1>5, <1>6

\* Every step of Worker and its goroutines is a step of CopyJob, or none, and a
\* step of each call of Mirror.Run, or none.
LEMMA RefinementStep ==
    ASSUME WorkerInv, AppendInv', [Next]_vars
    PROVE  /\ [Job!Next]_(Job!jobVars)
           /\ [\A g \in Image : [Call(g)!Next]_(CallView(g))]_vars
<1>. BatchInv /\ pc \in [Image -> LiveStates \cup {"idle", "done"}]
  BY DEF WorkerInv, BatchInv, TypeOK
<1>1. CASE \E g \in Image : RunOk(g) \/ RunFails(g)
  BY <1>1, RunReturns DEF Job!Next
<1>2. CASE \E g \in Image : AppendErr(g) \/ Done(g)
  <2>1. PICK g \in Image : AppendErr(g) \/ Done(g)
    BY <1>2
  <2>2. /\ UNCHANGED <<imgs, failed, copied>> /\ result = "none" /\ result' \in {"none", "panic"}
    BY <2>1 DEF AppendErr, AppendLoad, AppendStoreCap, AppendStorePtr, AppendStoreLen, Done,
                Touch, worker
  <2>3. \/ AppendErr(g) /\ g \in failed /\ pc[g] \notin {"idle", "running"} /\ pc'[g] \notin {"idle", "running"}
        \/ {pc[g], pc'[g]} \subseteq {"exit", "done"}
    BY <2>1 DEF AppendErr, AppendLoad, AppendStoreCap, AppendStorePtr, AppendStoreLen, Done,
                BatchInv, CallInv, LiveStates
  <2>4. \A h \in Image \ {g} : pc'[h] = pc[h]
    BY <2>1 DEF AppendErr, AppendLoad, AppendStoreCap, AppendStorePtr, AppendStoreLen, Done
  <2>5. Outcomes' = Outcomes /\ \A h \in Image : [Call(h)!Next]_(CallView(h))
    BY <2>2, <2>3, <2>4, Unseen
  <2>. QED  BY <2>2, <2>5, Answers
<1>3. CASE Worker
  <2>1. UNCHANGED <<imgs, failed, copied>> /\ result = "none"
    BY <1>3 DEF Worker, CreateLog, Launch, BatchFailed, NextBatch, Recurse, ReturnOk, BatchDone, worker
  <2>2. \A h \in Image : pc'[h] = pc[h] \/ (pc[h] = "idle" /\ pc'[h] = "running")
    <3>1. CASE Launch
      <4>1. Index(launched) \in Image => pc[Index(launched)] = "idle"
        BY <3>1, BatchAssumption DEF Launch, BatchInv, LaunchInv, Frontier, Image
      <4>. QED  BY <3>1, <4>1 DEF Launch
    <3>2. CASE CreateLog \/ BatchFailed \/ NextBatch \/ Recurse \/ ReturnOk
      <4>1. pc' = pc
        BY <3>2 DEF CreateLog, BatchFailed, NextBatch, Recurse, ReturnOk
      <4>. QED  BY <4>1
    <3>. QED  BY <1>3, <3>1, <3>2 DEF Worker
  <2>3. Outcomes' = Outcomes /\ \A h \in Image : [Call(h)!Next]_(CallView(h))
    BY <2>1, <2>2, Unseen
  <2>4. \/ result' \in {"none", "panic"}
        \/ result' = "error" /\ failed # {}
        \/ result' = "ok" /\ \A g \in Image : g < imgs => Outcome(g) = "copied"
    <3>1. CASE BatchFailed
      BY <3>1 DEF BatchFailed, Touch, BatchInv, CallInv
    <3>2. CASE ReturnOk
      <4>1. Index(b.BatchSize) = imgs
        <5>1. CurrentBatch
          BY Geometry DEF BatchInv
        <5>2. Index(b.BatchSize) + b.Remainder = imgs /\ b.Remainder = 0 /\ Index(b.BatchSize) \in Nat
          BY <3>2, <5>1 DEF ReturnOk, CurrentBatch
        <5>. QED  BY <5>2
      <4>2. failed = {} /\ \A g \in Image : g < imgs => pc[g] = "done"
        BY <3>2, <4>1, BatchDoneFacts DEF ReturnOk
      <4>. QED  BY <3>2, <4>2 DEF ReturnOk, Outcome
    <3>3. CASE CreateLog \/ Launch \/ NextBatch \/ Recurse
      BY <2>1, <3>3 DEF CreateLog, Launch, NextBatch, Recurse
    <3>. QED  BY <1>3, <3>1, <3>2, <3>3 DEF Worker
  <2>. QED  BY <2>1, <2>3, <2>4, Answers
<1>4. CASE UNCHANGED vars
  BY <1>4 DEF vars, worker, Job!jobVars, Outcome
<1>. QED  BY <1>1, <1>2, <1>3, <1>4 DEF Next, Goroutine, Terminated

\* Batch.Worker implements CopyJob and calls Mirror.Run once for each image,
\* for every batch size and every list of images.
THEOREM WorkerImplementsCopyJob == Spec => ImplementsCopyJob
<1>1. WorkerInv /\ WorkerInv' /\ [Next]_vars =>
        /\ [Job!Next]_(Job!jobVars)
        /\ [\A g \in Image : [Call(g)!Next]_<<CallState(g), g \in copied>>]_vars
  BY RefinementStep DEF WorkerInv, CallView
<1>. QED
  BY <1>1, RefinementInit, WorkerInvariance, PTL
     DEF Spec, ImplementsCopyJob, CallsCopyOnce, Job!Spec

-----------------------------------------------------------------------------
(***************************************************************************)
(* Progress.  Worker is never stuck, and every step brings it closer to    *)
(* its return.                                                             *)
(***************************************************************************)
\* Worker is not waiting: it creates a log file, launches, or wg.Wait returns.
WorkerRuns == wpc = "create" \/ launched < b.BatchSize \/ wg = 0

\* Until Worker returns, it or some goroutine can take a step: when it waits
\* for the WaitGroup, a goroutine that will release it is alive.
THEOREM NeverStuck == Spec => [](result = "none" => WorkerRuns \/ Live # {})
<1>1. BatchInv => (result = "none" => WorkerRuns \/ Live # {})
  <2>. SUFFICES ASSUME BatchInv, result = "none", ~WorkerRuns
                PROVE  Live # {}
    OBVIOUS
  <2>. USE DEF BatchInv
  <2>1. CurrentBatch
    BY Geometry
  <2>2. wpc = "launch" /\ launched = b.BatchSize /\ wg # 0
    <3>1. wpc = "launch"
      BY DEF WorkerRuns, TypeOK
    <3>2. launched \in Nat /\ launched <= b.BatchSize /\ b.BatchSize \in Nat
      BY <2>1, <3>1 DEF TypeOK, FrameInv, CurrentBatch
    <3>3. ~(launched < b.BatchSize) /\ wg # 0
      BY DEF WorkerRuns
    <3>. QED  BY <3>1, <3>2, <3>3
  <2>3. Pending # {}
    BY <2>2, FS_EmptySet DEF WaitGroupExact
  <2>4. PICK g \in Active : pc[g] # "done"
    BY <2>3 DEF Pending
  <2>5. g \in Image /\ Index(0) <= g /\ g < Frontier
    <3>1. /\ Index(0) \in Nat /\ Index(b.BatchSize) \in Nat
      BY <2>1 DEF CurrentBatch
    <3>2. Frontier = Index(b.BatchSize)
      BY <2>2 DEF Frontier
    <3>3. g \in Image
      BY <2>1 DEF CurrentBatch
    <3>. QED  BY <3>1, <3>2, <3>3 DEF Active
  <2>6. pc[g] \in LiveStates
    BY <2>4, <2>5 DEF LaunchInv, TypeOK
  <2>. QED  BY <2>5, <2>6 DEF Live
<1>. QED  BY <1>1, BatchInvariance, PTL

\* How far the goroutine of an image has come: where it stands, and the words
\* of the slice header it has loaded.
Stage == [idle |-> 0, running |-> 1, load |-> 2, storeCap |-> 6, storePtr |-> 7,
          storeLen |-> 8, exit |-> 9, done |-> 10]
Bit(w, S) == IF w \in S THEN 1 ELSE 0
Rank(g) ==
    IF pc[g] = "load"
    THEN Stage.load + Bit("len", reg[g].has) + Bit("cap", reg[g].has) + Bit("alloc", reg[g].has)
    ELSE Stage[pc[g]]

\* How far Worker has come: the batches it has left, the images launched and
\* the log file of the batch.
Place == Frontier + 2 * Index(0) + (IF wpc = "launch" THEN 1 ELSE 0)

\* Nothing goes back, and something goes on unless Worker returns.
Advances ==
    /\ Place <= Place'
    /\ \A g \in Image : Rank(g) <= Rank(g)'
    /\ \/ result' # "none"
       \/ Place < Place'
       \/ \E g \in Image : Rank(g) < Rank(g)'

\* A rank is a small number.
LEMMA RankType ==
    ASSUME TypeOK, NEW g \in Image
    PROVE  Rank(g) \in 0 .. 10
<1>1. CASE pc[g] = "load"
  BY <1>1 DEF Rank, Stage, Bit
<1>2. CASE pc[g] # "load"
  BY <1>2 DEF Rank, Stage, TypeOK, LiveStates
<1>. QED  BY <1>1, <1>2

\* A goroutine that does nothing keeps its rank.
LEMMA SameRank ==
    ASSUME TypeOK, NEW g \in Image, pc'[g] = pc[g], reg'[g] = reg[g]
    PROVE  Rank(g) <= Rank(g)'
<1>1. Rank(g)' = Rank(g)
  BY DEF Rank, Bit
<1>. QED  BY <1>1, RankType

\* One multiple more.
LEMMA MulSucc ==
    ASSUME NEW j \in Nat, NEW d \in Nat
    PROVE  (j + 1) * d = j * d + d /\ j * d \in Nat
OBVIOUS

\* The next batch, of the loop or of the recursion, starts where the last ends.
LEMMA NextStart ==
    ASSUME BatchInv, NextBatch \/ Recurse
    PROVE  Index(0)' = Index(b.BatchSize)
<1>. USE DEF BatchInv
<1>1. CurrentBatch /\ CurrentBatch' /\ batch \in Nat /\ base \in Nat
  <2>1. BatchInv'
    BY NextBatchInv, RecurseInv
  <2>2. CurrentBatch'
    BY <2>1, GeometryNext
  <2>. QED  BY <2>2, Geometry DEF TypeOK
<1>2. b.BatchSize \in Nat /\ b.Count \in Nat /\ b'.BatchSize \in Nat
  BY <1>1 DEF CurrentBatch
<1>3. Index(b.BatchSize) = base + (batch + 1) * b.BatchSize
  <2>1. (batch + 1) * b.BatchSize = batch * b.BatchSize + b.BatchSize /\ batch * b.BatchSize \in Nat
    BY <1>1, <1>2, MulSucc
  <2>2. Index(b.BatchSize) = base + batch * b.BatchSize + b.BatchSize
    BY DEF Index
  <2>. QED  BY <1>1, <1>2, <2>1, <2>2
<1>4. CASE NextBatch
  <2>1. b' = b /\ base' = base /\ batch' = batch + 1
    BY <1>4 DEF NextBatch, b, BatchSchema
  <2>2. Index(0)' = base + (batch + 1) * b.BatchSize + 0
    BY <2>1 DEF Index
  <2>3. (batch + 1) * b.BatchSize \in Nat
    <3>1. batch + 1 \in Nat
      BY <1>1
    <3>. QED  BY <1>2, <3>1, MulSucc
  <2>. QED  BY <1>1, <1>3, <2>2, <2>3
<1>5. CASE Recurse
  <2>1. base' = base + b.Count * BATCH_SIZE /\ batch' = 0
    BY <1>5 DEF Recurse
  <2>2. b.BatchSize = BATCH_SIZE /\ batch + 1 = b.Count
    <3>1. b.Remainder > 0 /\ batch + 1 >= b.Count /\ batch < b.Count
      BY <1>5 DEF Recurse, FrameInv
    <3>2. b.BatchSize = BATCH_SIZE
      BY <1>1, <3>1 DEF CurrentBatch
    <3>. QED  BY <1>1, <1>2, <3>1, <3>2
  <2>3. base' = Index(b.BatchSize) /\ base' \in Nat
    <3>1. b.Count * BATCH_SIZE \in Nat
      BY <1>2, BatchAssumption
    <3>. QED  BY <1>1, <1>3, <2>1, <2>2, <3>1
  <2>4. Index(0)' = base' + 0 * b'.BatchSize + 0
    BY <2>1 DEF Index
  <2>. QED  BY <1>2, <2>3, <2>4
<1>. QED  BY <1>4, <1>5

\* Every step advances.
LEMMA StepAdvances ==
    ASSUME BatchInv, Next
    PROVE  Advances \/ UNCHANGED vars
<1>. USE DEF BatchInv
<1>1. CurrentBatch /\ Frontier \in Nat /\ Index(0) \in Nat /\ Place \in Nat
  <2>1. CurrentBatch
    BY Geometry
  <2>. QED  BY <2>1 DEF CurrentBatch, Place
<1>2. \A g \in Image : Rank(g) \in 0 .. 10
  BY RankType
<1>3. ASSUME NEW g \in Image, Goroutine(g)  PROVE Advances
  <2>1. UNCHANGED worker
    BY <1>3 DEF Goroutine, RunOk, RunFails, AppendErr, AppendLoad, AppendStoreCap,
                AppendStorePtr, AppendStoreLen, Done
  <2>2. Place' = Place
    <3>1. Frontier' = Frontier /\ Index(0)' = Index(0) /\ wpc' = wpc
      BY <2>1, SameFrame DEF worker
    <3>. QED  BY <3>1, Zenon DEF Place
  <2>3. \A h \in Image \ {g} : pc'[h] = pc[h] /\ reg'[h] = reg[h]
    <3>1. CASE AppendLoad(g)
      BY <3>1, LoadEffect DEF TypeOK
    <3>2. CASE ~AppendLoad(g)
      BY <1>3, <3>2 DEF Goroutine, RunOk, RunFails, AppendErr, AppendStoreCap,
                  AppendStorePtr, AppendStoreLen, Done, TypeOK
    <3>. QED  BY <3>1, <3>2
  <2>4. Rank(g) < Rank(g)'
    <3>1. CASE AppendLoad(g)
      <4>1. PICK w \in Words \ reg[g].has : reg' = [reg EXCEPT ![g] = Loaded(g, w)]
        BY <3>1, LoadEffect
      <4>2. reg'[g].has = reg[g].has \cup {w}
        BY <4>1 DEF TypeOK, Loaded
      <4>3. pc[g] = "load" /\ pc'[g] \in {"load", "storeCap", "storeLen"}
        BY <3>1, LoadEffect DEF TypeOK
      <4>4. Rank(g) = 2 + Bit("len", reg[g].has) + Bit("cap", reg[g].has) + Bit("alloc", reg[g].has)
        BY <4>3 DEF Rank, Stage
      <4>5. CASE pc'[g] = "load"
        <5>1. Rank(g)' = 2 + Bit("len", reg'[g].has) + Bit("cap", reg'[g].has) + Bit("alloc", reg'[g].has)
          BY <4>5 DEF Rank, Stage, Bit
        <5>2. w \in {"len", "cap", "alloc"} /\ w \notin reg[g].has
          BY DEF Words
        <5>. QED  BY <4>2, <4>4, <5>1, <5>2 DEF Bit
      <4>6. CASE pc'[g] # "load"
        <5>1. Rank(g)' >= 6
          BY <4>3, <4>6 DEF Rank, Stage
        <5>2. Rank(g) <= 5
          BY <4>4 DEF Bit
        <5>3. Rank(g) \in Int /\ Rank(g)' \in Int
          BY <1>2, <4>3, <4>6 DEF Rank, Stage
        <5>. QED  BY <5>1, <5>2, <5>3
      <4>. QED  BY <4>5, <4>6
    <3>2. CASE ~AppendLoad(g)
      <4>1. \/ pc[g] = "running" /\ pc'[g] \in {"load", "exit"}
            \/ pc[g] = "storeCap" /\ pc'[g] = "storePtr"
            \/ pc[g] = "storePtr" /\ pc'[g] = "storeLen"
            \/ pc[g] = "storeLen" /\ pc'[g] = "exit"
            \/ pc[g] = "exit" /\ pc'[g] = "done"
        BY <1>3, <3>2 DEF Goroutine, RunOk, RunFails, AppendErr, AppendStoreCap,
                    AppendStorePtr, AppendStoreLen, Done, TypeOK
      <4>. QED  BY <4>1 DEF Rank, Stage, Bit
    <3>. QED  BY <3>1, <3>2
  <2>5. Rank(g)' \in 0 .. 10
    <3>1. TypeOK'
      BY <1>3, GoroutineInv
    <3>2. CASE pc'[g] = "load"
      BY <3>2 DEF Rank, Stage, Bit
    <3>3. CASE pc'[g] # "load"
      BY <3>1, <3>3 DEF Rank, Stage, TypeOK, LiveStates
    <3>. QED  BY <3>2, <3>3
  <2>6. \A h \in Image : Rank(h) <= Rank(h)'
    <3>. TAKE h \in Image
    <3>1. CASE h = g
      <4>1. Rank(g) \in Int /\ Rank(g)' \in Int
        BY <1>2, <2>5
      <4>. QED  BY <2>4, <3>1, <4>1
    <3>2. CASE h # g
      BY <1>2, <2>3, <3>2, SameRank
    <3>. QED  BY <3>1, <3>2
  <2>. QED  BY <1>1, <2>2, <2>4, <2>6 DEF Advances
<1>4. ASSUME UNCHANGED <<pc, reg>>, Place <= Place', result' # "none" \/ Place < Place'
      PROVE  Advances
  <2>1. \A g \in Image : Rank(g) <= Rank(g)'
    BY <1>2, <1>4, SameRank
  <2>. QED  BY <1>4, <2>1 DEF Advances
<1>5. CASE CreateLog
  <2>1. UNCHANGED <<imgs, base, batch, pc, reg>> /\ wpc = "create" /\ wpc' = "launch" /\ launched' = 0
    BY <1>5 DEF CreateLog
  <2>2. Index(0)' = Index(0) /\ Frontier = Index(0) /\ Frontier' = Index(0)
    BY <2>1 DEF Index, b, BatchSchema, Frontier
  <2>3. Place = Index(0) + 2 * Index(0) /\ Place' = Index(0) + 2 * Index(0) + 1
    BY <1>1, <2>1, <2>2 DEF Place
  <2>. QED  BY <1>1, <1>4, <2>1, <2>3
<1>6. CASE Launch
  <2>1. /\ UNCHANGED <<imgs, base, batch, wpc, reg>> /\ wpc = "launch"
        /\ launched < b.BatchSize /\ launched' = launched + 1 /\ launched \in Nat
        /\ pc' = [pc EXCEPT ![Index(launched)] = "running"]
    BY <1>6 DEF Launch, TypeOK
  <2>2. /\ Index(0)' = Index(0) /\ Frontier = Index(launched) /\ Frontier' = Index(launched + 1)
    BY <2>1 DEF Index, b, BatchSchema, Frontier
  <2>3. Frontier = Index(0) + launched /\ Frontier' = Index(0) + launched + 1
    BY <1>1, <2>1, <2>2 DEF CurrentBatch
  <2>4. Place < Place' /\ Place <= Place'
    BY <1>1, <2>1, <2>2, <2>3 DEF Place
  <2>5. \A g \in Image : Rank(g) <= Rank(g)'
    <3>. TAKE g \in Image
    <3>1. CASE g = Index(launched)
      <4>1. pc[g] = "idle" /\ pc'[g] = "running"
        <5>1. g \in Int /\ Frontier <= g
          BY <1>1, <2>2, <3>1
        <5>. QED  BY <2>1, <3>1, <5>1 DEF LaunchInv, TypeOK
      <4>. QED  BY <4>1 DEF Rank, Stage
    <3>2. CASE g # Index(launched)
      BY <2>1, <3>2, SameRank DEF TypeOK
    <3>. QED  BY <3>1, <3>2
  <2>. QED  BY <1>1, <2>4, <2>5 DEF Advances
<1>7. CASE BatchFailed \/ ReturnOk
  <2>1. UNCHANGED worker /\ UNCHANGED <<pc, reg>> /\ result' # "none"
    BY <1>7 DEF BatchFailed, ReturnOk, Touch
  <2>2. Place' = Place
    <3>1. Frontier' = Frontier /\ Index(0)' = Index(0) /\ wpc' = wpc
      BY <2>1, SameFrame DEF worker
    <3>. QED  BY <3>1, Zenon DEF Place
  <2>. QED  BY <1>1, <1>4, <2>1, <2>2
<1>8. CASE NextBatch \/ Recurse
  <2>1. wpc = "launch" /\ wpc' = "create" /\ UNCHANGED <<pc, reg>> /\ BatchDone
    BY <1>8 DEF NextBatch, Recurse, BatchDone
  <2>2. Index(0)' = Index(b.BatchSize)
    BY <1>8, NextStart
  <2>3. Frontier' = Index(0)'
    BY <2>1 DEF Frontier, Index
  <2>4. Frontier = Index(b.BatchSize) /\ Index(b.BatchSize) = Index(0) + b.BatchSize
    BY <1>1, <2>1 DEF Frontier, BatchDone, CurrentBatch
  <2>5. b.BatchSize \in Nat /\ b.BatchSize >= 1
    BY <1>1, <1>8, BatchAssumption DEF NextBatch, Recurse, CurrentBatch, TypeOK
  <2>6. /\ Place = Index(b.BatchSize) + 2 * Index(0) + 1
        /\ Place' = Index(b.BatchSize) + 2 * Index(b.BatchSize)
    BY <1>1, <2>1, <2>2, <2>3, <2>4, <2>5 DEF Place
  <2>7. Place < Place'
    BY <1>1, <2>4, <2>5, <2>6
  <2>. QED  BY <1>1, <1>4, <2>1, <2>4, <2>5, <2>6, <2>7
<1>9. CASE Terminated
  BY <1>9 DEF Terminated
<1>. QED  BY <1>3, <1>5, <1>6, <1>7, <1>8, <1>9 DEF Next, Worker

\* Worker and its goroutines only go forward.
THEOREM RunsForward == Spec => [][Advances]_vars
<1>1. BatchInv /\ [Next]_vars => [Advances]_vars
  BY StepAdvances
<1>. QED  BY <1>1, BatchInvariance, PTL DEF Spec

\* There is only so far to go: Worker ends within a number of steps that the
\* number of images bounds.
THEOREM BoundedRun ==
    Spec => [](Place \in 0 .. 3 * MaxImages + 1 /\ \A g \in Image : Rank(g) \in 0 .. 10)
<1>1. BatchInv => Place \in 0 .. 3 * MaxImages + 1 /\ \A g \in Image : Rank(g) \in 0 .. 10
  <2>. SUFFICES ASSUME BatchInv
                PROVE  Place \in 0 .. 3 * MaxImages + 1 /\ \A g \in Image : Rank(g) \in 0 .. 10
    OBVIOUS
  <2>1. CurrentBatch /\ imgs \in 0 .. MaxImages
    BY Geometry DEF BatchInv, TypeOK
  <2>2. /\ Frontier \in Nat /\ Index(0) \in Nat /\ Index(b.BatchSize) \in Nat
        /\ Index(0) <= Frontier /\ Frontier <= imgs
    BY <2>1, BatchAssumption DEF CurrentBatch
  <2>3. Place \in 0 .. 3 * MaxImages + 1
    BY <2>1, <2>2, BatchAssumption DEF Place
  <2>4. \A g \in Image : Rank(g) \in 0 .. 10
    BY RankType DEF BatchInv
  <2>. QED  BY <2>3, <2>4
<1>. QED  BY <1>1, BatchInvariance, PTL
=============================================================================

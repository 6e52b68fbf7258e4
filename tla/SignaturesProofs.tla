----------------------------- MODULE SignaturesProofs -----------------------------
(***************************************************************************)
(* GenerateReleaseSignatures returns every reference or none, for every    *)
(* list of images, any number of runs, and whatever kills and failed       *)
(* writes leave in the cache.                                              *)
(***************************************************************************)
EXTENDS Signatures, TLAPS

\* The image at hand is one of the digests.
LEMMA DigestIsDigest ==
    ASSUME next \in 1 .. Len(Images)
    PROVE  digest \in Digests
BY SignatureAssumption DEF digest

\* The messages are none of the other contents of a file.
LEMMA DigestsAreNoMarks ==
    ASSUME NEW d \in Digests
    PROVE  /\ d # "absent" /\ d # "cut" /\ d # "empty"
           /\ \A m \in Own(d) : m # "absent" /\ m # "cut" /\ m # "empty"
           /\ Own(d) \subseteq Messages
BY SignatureAssumption DEF Own, Messages

\* The references stay a prefix of the images when that of the image at hand
\* is appended.
LEMMA PrefixGrows ==
    ASSUME next \in 1 .. Len(Images), imgs \in Seq(Messages),
           Len(imgs) = next - 1, \A k \in 1 .. next - 1 : imgs[k] \in Own(Images[k]),
           data \in Own(digest)
    PROVE  /\ Append(imgs, data) \in Seq(Messages)
           /\ Len(Append(imgs, data)) = next
           /\ \A k \in 1 .. next : Append(imgs, data)[k] \in Own(Images[k])
<1>1. data \in Messages
    BY DigestIsDigest, DigestsAreNoMarks
<1>2. Append(imgs, data) \in Seq(Messages) /\ Len(Append(imgs, data)) = Len(imgs) + 1
    BY <1>1
<1>3. ASSUME NEW k \in 1 .. next
      PROVE  Append(imgs, data)[k] \in Own(Images[k])
    BY <1>1, <1>3, SignatureAssumption DEF digest
<1> QED BY <1>2, <1>3, SignatureAssumption

\* The initial states satisfy the invariant.
LEMMA InitSignatureInv == Init => SignatureInv
BY SignatureAssumption DEF Init, SignatureInv, AllOrNothing, digest

\* Every step preserves the invariant.
LEMMA NextSignatureInv == SignatureInv /\ [Next]_vars => SignatureInv'
<1> SUFFICES ASSUME SignatureInv, [Next]_vars PROVE SignatureInv'
    OBVIOUS
<1> Images \in Seq(Digests) /\ Len(Images) \in Nat
    BY SignatureAssumption
<1>1. CASE ReadCache
  <2>1. digest \in Digests
    BY <1>1, DigestIsDigest DEF ReadCache, SignatureInv
  <2>2. data' \in {"empty", "cut"} \cup Own(digest)
    BY <1>1, <2>1 DEF ReadCache, Contents, SignatureInv
  <2> QED BY <1>1, <2>2 DEF ReadCache, SignatureInv, AllOrNothing, digest
<1>2. CASE Request
  BY <1>2 DEF Request, Stop, SignatureInv, AllOrNothing, digest
<1>3. CASE Missing
  BY <1>3 DEF Missing, Stop, SignatureInv, AllOrNothing, digest
<1>4. CASE Damaged
  BY <1>4 DEF Damaged, Stop, SignatureInv, AllOrNothing, digest
<1>5. CASE Verify
  <2>1. data \in Own(digest)
    <3>1. data # "empty" /\ data # "cut"
      BY <1>5, DigestsAreNoMarks DEF Verify, Messages
    <3> QED BY <1>5, <3>1 DEF Verify, SignatureInv
  <2> QED BY <1>5, <2>1 DEF Verify, Stop, SignatureInv, AllOrNothing, digest
<1>6. CASE WriteStarts
  <2>1. CASE pc' = "fill"
    BY <1>6, <2>1 DEF WriteStarts, SignatureInv, AllOrNothing, digest
  <2>2. CASE pc' = "read"
    <3>1. pc = "write" /\ imgs' = Append(imgs, data) /\ next' = next + 1 /\ UNCHANGED <<cache, result, data>>
      BY <1>6, <2>2 DEF WriteStarts
    <3>2. next' \in 1 .. Len(Images) + 1 /\ result' = "none"
      BY <3>1 DEF SignatureInv
    <3>3. /\ imgs' \in Seq(Messages) /\ Len(imgs') = next' - 1
          /\ \A k \in 1 .. next' - 1 : imgs'[k] \in Own(Images[k])
      BY <3>1, PrefixGrows DEF SignatureInv
    <3> QED BY <2>2, <3>1, <3>2, <3>3 DEF SignatureInv, AllOrNothing
  <2> QED BY <1>6, <2>1, <2>2 DEF WriteStarts
<1>7. CASE WriteEnds
  <2>1. \A d \in Digests : cache'[d] \in {"absent", "empty", "cut"} \cup Own(d)
    BY <1>7 DEF WriteEnds, SignatureInv
  <2>2. /\ pc = "fill" /\ pc' = "read" /\ imgs' = Append(imgs, data) /\ next' = next + 1
        /\ UNCHANGED <<result, data>> /\ DOMAIN cache' = DOMAIN cache
    BY <1>7 DEF WriteEnds
  <2>3. next' \in 1 .. Len(Images) + 1 /\ result' = "none"
    BY <2>2 DEF SignatureInv
  <2>4. /\ imgs' \in Seq(Messages) /\ Len(imgs') = next' - 1
        /\ \A k \in 1 .. next' - 1 : imgs'[k] \in Own(Images[k])
    BY <2>2, PrefixGrows DEF SignatureInv
  <2> QED BY <2>1, <2>2, <2>3, <2>4 DEF SignatureInv, AllOrNothing
<1>8. CASE Return
  <2>1. Len(imgs) = Len(Images) /\ \A k \in DOMAIN Images : imgs[k] \in Own(Images[k])
    BY <1>8 DEF Return, SignatureInv
  <2> QED BY <1>8, <2>1 DEF Return, Stop, SignatureInv, AllOrNothing, digest
<1>9. CASE Kill
  BY <1>9 DEF Kill, Stop, SignatureInv, AllOrNothing, digest
<1>10. CASE RunAgain
  BY <1>10 DEF RunAgain, SignatureInv, AllOrNothing, digest
<1>11. CASE UNCHANGED vars
  BY <1>11 DEF vars, history, SignatureInv, AllOrNothing, digest
<1> QED BY <1>1, <1>2, <1>3, <1>4, <1>5, <1>6, <1>7, <1>8, <1>9, <1>10, <1>11
        DEF Next, GenerateReleaseSignatures, Finished

\* GenerateReleaseSignatures keeps the cache and the list apart by digest.
THEOREM SignatureInvariance == Spec => []SignatureInv
BY InitSignatureInv, NextSignatureInv, PTL DEF Spec

\* The caller gets a reference for every image, from a message for that image,
\* or nothing at all.
THEOREM ReturnsAllOrNothing == Spec => []AllOrNothing
<1>1. SignatureInv => AllOrNothing
    BY DEF SignatureInv
<1> QED BY <1>1, SignatureInvariance, PTL

-----------------------------------------------------------------------------
\* Every step keeps a clean cache complete and requests an image at most once.
LEMMA ClientStep == ClientInv /\ [Next]_vars => ClientInv'
<1> SUFFICES ASSUME ClientInv, [Next]_vars PROVE ClientInv'
    OBVIOUS
<1> Images \in Seq(Digests) /\ Len(Images) \in Nat
    BY SignatureAssumption
<1> SignatureInv /\ SignatureInv'
    BY NextSignatureInv DEF ClientInv
<1>1. CASE ReadCache
  <2>1. /\ digest \in Digests /\ digest # "absent" /\ digest # "cut" /\ digest # "empty"
        /\ \A m \in Own(digest) : m # "absent" /\ m # "cut" /\ m # "empty"
    BY <1>1, DigestIsDigest, DigestsAreNoMarks DEF ReadCache, SignatureInv
  <2>2. /\ pc = "read" /\ result = "none" /\ digest' = digest /\ data' = Contents
        /\ pc' = (IF data' = "empty" THEN "request" ELSE "verify")
        /\ UNCHANGED <<cache, next, imgs, result, requested, lucky, run, clean>>
        /\ \A d \in Digests : Cached(d) <=> cache[d] = d
    BY <1>1 DEF ReadCache, history, SignatureInv, digest, Cached
  <2>3. cache[digest] \in {"absent", "empty", "cut"} \cup Own(digest)
    BY <2>1 DEF SignatureInv
  <2>4. \A d \in Digests : Cached(d)' <=> Cached(d)
    BY <2>2 DEF Cached
  <2>5. pc' = "request" => cache[digest] \in {"absent", "empty"}
    BY <2>1, <2>2, <2>3 DEF Contents
  <2>6. CleanInv'
    <3>1. SUFFICES ASSUME clean, lucky
                   PROVE  /\ pc' = "verify" => data' = digest
                          /\ run > 1 => pc' # "request"
      BY <2>2, <2>4 DEF ClientInv, CleanInv
    <3>2. cache[digest] \in {"absent", digest} /\ (run > 1 => cache[digest] = digest)
      <4>1. next \in 1 .. Len(Images) /\ digest = Images[next]
        BY <1>1 DEF ReadCache, SignatureInv, digest
      <4> QED BY <2>1, <2>2, <3>1, <4>1 DEF ClientInv, CleanInv
    <3> QED BY <2>1, <2>2, <3>2 DEF Contents
  <2>7. RequestInv'
    <3>1. lucky /\ requested[digest] # 0 => data' = digest
      BY <2>1, <2>2 DEF ClientInv, RequestInv, Contents
    <3> QED BY <2>2, <2>4, <2>5, <3>1 DEF ClientInv, RequestInv
  <2>8. run' \in Nat \ {0} /\ (result' = "ok" => next' > Len(Images))
    BY <1>1 DEF ReadCache, history, Stop, ClientInv, SignatureInv
  <2> QED BY <2>6, <2>7, <2>8 DEF ClientInv
<1>2. CASE Request
  <2>1. CleanInv'
    BY <1>2 DEF Request, history, Stop, ClientInv, SignatureInv, CleanInv, Cached, digest
  <2>2. digest \in Digests /\ digest # "absent" /\ digest # "empty"
    BY <1>2, DigestIsDigest, DigestsAreNoMarks DEF Request, SignatureInv
  <2>3. /\ pc = "request" /\ pc' \in {"verify", "done"} /\ digest' = digest /\ (lucky' => lucky)
        /\ requested' = [requested EXCEPT ![digest] = @ + 1] /\ UNCHANGED <<cache, next>>
    BY <1>2 DEF Request, Stop, digest
  <2>4. cache[digest] # digest /\ DOMAIN requested = Digests
    BY <2>2, <2>3 DEF ClientInv, RequestInv
  <2>5. lucky => requested[digest] = 0
    BY <2>2, <2>3, <2>4 DEF ClientInv, RequestInv, Cached
  <2>6. RequestInv'
    <3>1. ASSUME lucky', NEW d \in Digests
          PROVE  \/ requested'[d] = 0
                 \/ requested'[d] = 1 /\ ((pc' \in {"verify", "write"} /\ d = digest) \/ Cached(d)' \/ pc' = "done")
      <4>1. CASE d = digest
        BY <2>2, <2>3, <2>4, <2>5, <3>1, <4>1
      <4>2. CASE d # digest
        BY <2>3, <2>4, <3>1, <4>2 DEF ClientInv, RequestInv, Cached
      <4> QED BY <4>1, <4>2
    <3>2. DOMAIN requested' = Digests
      BY <2>3, <2>4
    <3>3. lucky' /\ pc' = "verify" => data' = digest
      BY <1>2 DEF Request, Stop
    <3> QED BY <2>3, <3>1, <3>2, <3>3 DEF RequestInv
  <2>7. run' \in Nat \ {0} /\ (result' = "ok" => next' > Len(Images))
    BY <1>2 DEF Request, history, Stop, ClientInv, SignatureInv
  <2> QED BY <2>1, <2>6, <2>7 DEF ClientInv
<1>3. CASE Missing
  <2>1. ~(clean /\ lucky) /\ UNCHANGED <<clean, lucky>>
    <3>1. digest # "cut" /\ digest # "empty"
      BY <1>3, DigestIsDigest, DigestsAreNoMarks DEF Missing, SignatureInv
    <3> QED BY <1>3, <3>1 DEF Missing, history, ClientInv, CleanInv
  <2>2. RequestInv'
    BY <1>3 DEF Missing, history, Stop, ClientInv, SignatureInv, RequestInv, Cached, digest
  <2>3. run' \in Nat \ {0} /\ (result' = "ok" => next' > Len(Images))
    BY <1>3 DEF Missing, history, Stop, ClientInv, SignatureInv
  <2> QED BY <2>1, <2>2, <2>3 DEF ClientInv, CleanInv
<1>4. CASE Damaged
  <2>1. ~(clean /\ lucky) /\ UNCHANGED <<clean, lucky>>
    <3>1. digest \in Digests
      BY <1>4, DigestIsDigest DEF Damaged, SignatureInv
    <3> QED BY <1>4, <3>1 DEF Damaged, history, ClientInv, CleanInv
  <2>2. RequestInv'
    BY <1>4 DEF Damaged, history, Stop, ClientInv, SignatureInv, RequestInv, Cached, digest
  <2>3. run' \in Nat \ {0} /\ (result' = "ok" => next' > Len(Images))
    BY <1>4 DEF Damaged, history, Stop, ClientInv, SignatureInv
  <2> QED BY <2>1, <2>2, <2>3 DEF ClientInv, CleanInv
<1>5. CASE Verify
  <2>1. CleanInv'
    BY <1>5 DEF Verify, history, Stop, ClientInv, SignatureInv, CleanInv, Cached, digest
  <2>2. RequestInv'
    BY <1>5 DEF Verify, history, Stop, ClientInv, SignatureInv, RequestInv, Cached, digest
  <2>3. run' \in Nat \ {0} /\ (result' = "ok" => next' > Len(Images))
    BY <1>5 DEF Verify, history, Stop, ClientInv, SignatureInv
  <2> QED BY <2>1, <2>2, <2>3 DEF ClientInv
<1>6. CASE WriteStarts
  <2>1. digest \in Digests /\ next \in 1 .. Len(Images) /\ pc = "write" /\ result = "none" /\ UNCHANGED <<result, requested, run, clean>>
    BY <1>6, DigestIsDigest DEF WriteStarts, SignatureInv, history
  <2>2. CASE lucky' = FALSE
    BY <1>6, <2>1, <2>2 DEF WriteStarts, ClientInv, CleanInv, RequestInv
  <2>3. CASE cache' = [cache EXCEPT ![digest] = "empty"] /\ pc' = "fill" /\ UNCHANGED <<next, lucky>>
    <3>1. digest' = digest /\ UNCHANGED <<data, imgs>>
      BY <1>6, <2>3 DEF WriteStarts, digest
    <3>2. \A d \in Digests : /\ Cached(d)' <=> cache[d] = d \/ d = digest
                             /\ Cached(d) <=> cache[d] = d
                             /\ d # digest => cache'[d] = cache[d]
      BY <2>1, <2>3, <3>1 DEF Cached, SignatureInv
    <3>3. \A k \in 1 .. Len(Images) : Images[k] \in Digests
      OBVIOUS
    <3>4. CleanInv'
      BY <2>1, <2>3, <3>1, <3>2, <3>3 DEF ClientInv, CleanInv
    <3>5. RequestInv'
      BY <2>1, <2>3, <3>1, <3>2 DEF ClientInv, RequestInv
    <3> QED BY <2>1, <3>4, <3>5 DEF ClientInv
  <2> QED BY <1>6, <2>2, <2>3 DEF WriteStarts
<1>7. CASE WriteEnds
  <2>1. digest \in Digests /\ next \in 1 .. Len(Images) /\ digest = Images[next]
    BY <1>7, DigestIsDigest DEF WriteEnds, SignatureInv, digest
  <2>2. /\ pc = "fill" /\ pc' = "read" /\ next' = next + 1 /\ result = "none"
        /\ imgs' = Append(imgs, data) /\ UNCHANGED <<result, requested, run, clean>>
    BY <1>7 DEF WriteEnds, SignatureInv, history
  <2>3. PICK w : cache' = [cache EXCEPT ![digest] = w] /\ lucky' = (lucky /\ w = data)
    BY <1>7 DEF WriteEnds
  <2>4. ASSUME lucky', data = digest
        PROVE  lucky /\ \A d \in Digests : /\ d = digest => Cached(d)'
                                           /\ Cached(d) => Cached(d)'
                                           /\ d # digest => cache'[d] = cache[d]
    <3>1. lucky /\ DOMAIN cache = Digests /\ cache' = [cache EXCEPT ![digest] = digest]
      BY <2>2, <2>3, <2>4 DEF SignatureInv
    <3>2. \A d \in Digests : /\ d = digest => cache'[d] = d
                             /\ d # digest => cache'[d] = cache[d]
      BY <2>1, <3>1
    <3> QED BY <2>2, <3>1, <3>2 DEF Cached
  <2>5. \A k \in 1 .. Len(Images) : Images[k] \in Digests
    OBVIOUS
  <2>6. CleanInv'
    <3>1. SUFFICES ASSUME clean, lucky'
                   PROVE  /\ \A k \in DOMAIN imgs' : imgs'[k] = Images[k]
                          /\ \A d \in Digests : cache'[d] = "absent" \/ Cached(d)'
                          /\ \A k \in 1 .. Len(Images) : k < next + 1 \/ run > 1 => Cached(Images[k])'
                          /\ run > 1 => \A d \in Digests : requested[d] = 0
      BY <2>2 DEF CleanInv
    <3>2. lucky /\ data = digest
      BY <2>2, <2>3, <3>1 DEF ClientInv, CleanInv
    <3>3. \A k \in 1 .. Len(Images) : k < next + 1 \/ run > 1 => Cached(Images[k])'
      <4>1. ASSUME NEW k \in 1 .. Len(Images), k < next + 1 \/ run > 1
            PROVE  Images[k] = digest \/ Cached(Images[k])
        BY <2>1, <2>2, <3>1, <3>2, <4>1 DEF ClientInv, CleanInv
      <4> QED BY <2>4, <2>5, <3>1, <3>2, <4>1
    <3>4. \A k \in DOMAIN imgs' : imgs'[k] = Images[k]
      <4>1. imgs \in Seq(Messages) /\ Len(imgs) = next - 1 /\ Len(imgs) \in Nat
        BY <2>2 DEF SignatureInv
      <4>2. \A k \in DOMAIN imgs : imgs[k] = Images[k]
        BY <3>1, <3>2 DEF ClientInv, CleanInv
      <4>3. data \in Messages
        BY <2>1, <3>2, DigestsAreNoMarks DEF Own
      <4>4. DOMAIN imgs' = 1 .. next /\ \A k \in 1 .. next : imgs'[k] = IF k = next THEN data ELSE imgs[k]
        BY <2>1, <2>2, <4>1, <4>3
      <4> QED BY <2>1, <3>2, <4>1, <4>2, <4>4
    <3>5. \A d \in Digests : cache'[d] = "absent" \/ Cached(d)'
      BY <2>2, <2>4, <3>1, <3>2 DEF ClientInv, CleanInv
    <3>6. run > 1 => \A d \in Digests : requested[d] = 0
      BY <3>1, <3>2 DEF ClientInv, CleanInv
    <3> QED BY <3>3, <3>4, <3>5, <3>6
  <2>7. RequestInv'
    <3>1. ASSUME lucky', NEW d \in Digests, requested[d] # 0
          PROVE  requested[d] = 1 /\ Cached(d)'
      <4>1. requested[d] = 1 /\ Cached(d) /\ (d = digest => data = digest)
        BY <2>2, <2>3, <3>1 DEF ClientInv, RequestInv
      <4>2. CASE d = digest
        BY <2>4, <3>1, <4>1, <4>2
      <4>3. CASE d # digest
        BY <2>1, <2>2, <2>3, <4>1, <4>3 DEF Cached
      <4> QED BY <4>1, <4>2, <4>3
    <3> QED BY <2>2, <3>1 DEF ClientInv, RequestInv
  <2>8. run' \in Nat \ {0} /\ (result' = "ok" => next' > Len(Images))
    BY <1>7 DEF WriteEnds, history, Stop, ClientInv, SignatureInv
  <2> QED BY <2>6, <2>7, <2>8 DEF ClientInv
<1>8. CASE Return
  <2>1. CleanInv'
    BY <1>8 DEF Return, history, Stop, ClientInv, SignatureInv, CleanInv, Cached, digest
  <2>2. RequestInv'
    BY <1>8 DEF Return, history, Stop, ClientInv, SignatureInv, RequestInv, Cached, digest
  <2>3. run' \in Nat \ {0} /\ (result' = "ok" => next' > Len(Images))
    BY <1>8 DEF Return, history, Stop, ClientInv, SignatureInv
  <2> QED BY <2>1, <2>2, <2>3 DEF ClientInv
<1>9. CASE Kill
  <2>1. CleanInv'
    BY <1>9 DEF Kill, history, Stop, ClientInv, SignatureInv, CleanInv, Cached, digest
  <2>2. RequestInv'
    BY <1>9 DEF Kill, history, Stop, ClientInv, SignatureInv, RequestInv, Cached, digest
  <2>3. run' \in Nat \ {0} /\ (result' = "ok" => next' > Len(Images))
    BY <1>9 DEF Kill, history, Stop, ClientInv, SignatureInv
  <2> QED BY <2>1, <2>2, <2>3 DEF ClientInv
<1>10. CASE RunAgain
  <2>1. CleanInv'
    <3>1. SUFFICES ASSUME clean'
                   PROVE  /\ \A d \in Digests : cache'[d] = "absent" \/ Cached(d)'
                          /\ \A k \in 1 .. Len(Images) : Cached(Images[k])'
      BY <1>10 DEF RunAgain, CleanInv
    <3>2. clean /\ lucky /\ result = "ok" /\ pc = "done" /\ next > Len(Images)
      BY <1>10, <3>1 DEF RunAgain, ClientInv
    <3>3. \A d : Cached(d) => Cached(d)'
      BY <1>10, <3>2 DEF RunAgain, Cached
    <3>4. cache' = cache /\ next \in Nat
      BY <1>10 DEF RunAgain, SignatureInv
    <3> QED BY <3>2, <3>3, <3>4 DEF ClientInv, CleanInv
  <2>2. RequestInv'
    BY <1>10 DEF RunAgain, ClientInv, RequestInv
  <2>3. run' \in Nat \ {0} /\ (result' = "ok" => next' > Len(Images))
    BY <1>10 DEF RunAgain, history, Stop, ClientInv, SignatureInv
  <2> QED BY <2>1, <2>2, <2>3 DEF ClientInv
<1>11. CASE UNCHANGED vars
  BY <1>11 DEF vars, history, ClientInv, CleanInv, RequestInv, Cached, digest
<1> QED BY <1>1, <1>2, <1>3, <1>4, <1>5, <1>6, <1>7, <1>8, <1>9, <1>10, <1>11
        DEF Next, GenerateReleaseSignatures, Finished

\* No request, answer or write has been made at first.
LEMMA ClientInit == Init => ClientInv
<1> SUFFICES ASSUME Init PROVE ClientInv
    OBVIOUS
<1>1. CleanInv /\ RequestInv
    BY SignatureAssumption DEF Init, CleanInv, RequestInv
<1>2. run \in Nat \ {0} /\ result # "ok"
    BY DEF Init
<1> QED BY <1>1, <1>2, InitSignatureInv DEF ClientInv

\* The inductive invariant over any number of runs, kills and failed writes.
THEOREM ClientInvariance == Spec => []ClientInv
BY ClientInit, ClientStep, PTL DEF Spec

\* As long as every answer and write was good, the client succeeds in every
\* run with the references that were signed, and the files that one run leaves
\* are good for the next.
THEOREM CleanCacheIsGood == Spec => []GoodRunsSucceed
<1>1. ClientInv => GoodRunsSucceed
  <2> SUFFICES ASSUME ClientInv, clean, lucky
               PROVE  /\ result \notin {"error", "panic"}
                      /\ result = "ok" => \A k \in DOMAIN Images : imgs[k] = Images[k]
    BY DEF GoodRunsSucceed
  <2>1. result = "ok" => DOMAIN imgs = DOMAIN Images
    BY SignatureAssumption DEF ClientInv, SignatureInv, AllOrNothing
  <2> QED
    BY <2>1 DEF ClientInv, CleanInv
<1> QED BY <1>1, ClientInvariance, PTL

\* The cache saves the request for an image listed twice, and every request of
\* a run after a good one.
THEOREM CacheSavesRequests == Spec => []CachedNotRequested
<1>1. ClientInv => CachedNotRequested
    BY DEF ClientInv, CleanInv, RequestInv, CachedNotRequested
<1> QED BY <1>1, ClientInvariance, PTL
=============================================================================

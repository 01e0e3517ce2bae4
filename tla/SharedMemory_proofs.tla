------------------------- MODULE SharedMemory_proofs -------------------------
(****************************************************************************)
(* Theorems about the shared-memory data plane.  ShmMirror: what readers    *)
(* get, for any clients, words, attempts and cycles.  ShmOutputs: what      *)
(* becomes of the words that clients store.  ShmSession: the life of the    *)
(* object over the sessions, for any layouts, objects and kills.            *)
(****************************************************************************)
EXTENDS ShmOutputs, ShmSession, TLAPS, FiniteSetTheorems

USE DEF vars, header, bus, daemonVars, stopVars, loopVars, readerVars, writerVars, Others

LEMMA CyclePreservesTypes == ASSUME TypeOK, Cycle PROVE TypeOK'
<1> USE ShmAssumption DEF TypeOK, Words, inactive, Filling
<1>1. CASE Receive       BY <1>1 DEF Receive
<1>2. CASE ExitLoop      BY <1>2 DEF ExitLoop
<1>3. CASE BeginOverlay  BY <1>3 DEF BeginOverlay
<1>4. CASE OverlayDomain BY <1>4 DEF OverlayDomain
<1>5. CASE StampHeader
  <2>1. Cardinality(OutOfBounds) \in Nat  BY FS_CardinalityType
  <2> QED BY <1>5, <2>1 DEF StampHeader
<1>6. CASE Flip BY <1>6 DEF Flip
<1>7. CASE Bump BY <1>7 DEF Bump
<1>8. CASE Send BY <1>8 DEF Send
<1>9. CASE \E x \in Words : CopyWord(x)   BY <1>9 DEF CopyWord
<1>10. CASE \E x \in Words : OverlayShm(x) BY <1>10 DEF OverlayShm
<1> QED BY <1>1, <1>2, <1>3, <1>4, <1>5, <1>6, <1>7, <1>8, <1>9, <1>10 DEF Cycle

LEMMA StopPreservesTypes == ASSUME TypeOK, StopRequest \/ Stopping PROVE TypeOK'
<1> USE ShmAssumption DEF TypeOK
<1>1. CASE StopRequest   BY <1>1 DEF StopRequest
<1>2. CASE ClearRunning  BY <1>2 DEF ClearRunning
<1>3. CASE FinalBump     BY <1>3 DEF FinalBump
<1> QED BY <1>1, <1>2, <1>3 DEF Stopping

LEMMA ReaderPreservesTypes ==
  ASSUME TypeOK, NEW r \in Readers, ReaderStep(r) PROVE TypeOK'
<1> USE ShmAssumption DEF TypeOK, ReadPlaces
<1>1. CASE BeginRead(r) \/ ReadWoken(r)
  <2>1. Published \in Nat  BY DEF Published
  <2>2. 1 \in 0..MaxAttempts  OBVIOUS
  <2>3. since' = [since EXCEPT ![r] = Published] /\ attempt' = [attempt EXCEPT ![r] = 1]
    BY <1>1 DEF BeginRead, ReadWoken
  <2>4. since' \in [Readers -> Nat]  BY <2>1, <2>3
  <2>5. attempt' \in [Readers -> 0..MaxAttempts]  BY <2>2, <2>3
  <2>6. UNCHANGED <<Others, v1, v2, rb, rtodo, got, target>>  BY <1>1 DEF BeginRead, ReadWoken
  <2>7. rpc' = [rpc EXCEPT ![r] = "version"]  BY <1>1 DEF BeginRead, ReadWoken
  <2> QED BY <2>4, <2>5, <2>6, <2>7
<1>2. CASE LoadVersion(r)   BY <1>2 DEF LoadVersion
<1>3. CASE LoadActive(r)    BY <1>3 DEF LoadActive
<1>4. CASE ReloadVersion(r) BY <1>4 DEF ReloadVersion
<1>5. CASE Accept(r) \/ GiveUp(r) \/ EndRead(r)
  <2>1. \E p \in {"ok", "failed", "idle"} : rpc' = [rpc EXCEPT ![r] = p]
    BY <1>5 DEF Accept, GiveUp, EndRead
  <2>2. UNCHANGED <<Others, attempt, v1, v2, rb, rtodo, got, target, since>>
    BY <1>5 DEF Accept, GiveUp, EndRead
  <2> QED BY <2>1, <2>2
<1>6. CASE Retry(r)         BY <1>6 DEF Retry
<1>7. CASE \E x \in Inputs : LoadWord(r, x)
  <2>1. PICK x \in Inputs : LoadWord(r, x)  BY <1>7
  <2>2. shmData[rb[r]][x] \in Nat  BY DEF Words
  <2>3. got' \in [Readers -> [Inputs -> Nat]]  BY <2>1, <2>2 DEF LoadWord
  <2>4. rtodo' \in [Readers -> SUBSET Inputs]  BY <2>1 DEF LoadWord
  <2>5. UNCHANGED <<Others, rpc, attempt, v1, v2, rb, target, since>>  BY <2>1 DEF LoadWord
  <2> QED BY <2>3, <2>4, <2>5
<1>8. CASE BeginWait(r)     BY <1>8 DEF BeginWait
<1>9. CASE WaitTrue(r) \/ WaitTimeout(r)
  <2>1. \E p \in {"woken", "idle"} : rpc' = [rpc EXCEPT ![r] = p]
    BY <1>9 DEF WaitTrue, WaitTimeout
  <2>2. UNCHANGED <<Others, attempt, v1, v2, rb, rtodo, got, target, since>>
    BY <1>9 DEF WaitTrue, WaitTimeout
  <2> QED BY <2>1, <2>2
<1> QED BY <1>1, <1>2, <1>3, <1>4, <1>5, <1>6, <1>7, <1>8, <1>9 DEF ReaderStep, ReadStep

LEMMA WriterPreservesTypes ==
  ASSUME TypeOK, NEW w \in Writers, WriterStep(w) PROVE TypeOK'
<1> USE ShmAssumption DEF TypeOK
<1>1. CASE BeginWrite(w)
  <2>1. PICK ws \in SUBSET Outputs : wtodo' = [wtodo EXCEPT ![w] = ws]
    BY <1>1 DEF BeginWrite
  <2> QED BY <1>1, <2>1 DEF BeginWrite
<1>2. CASE EndWrite(w)  BY <1>2 DEF EndWrite
<1>3. CASE \E x \in Outputs : PutWord(w, x)
  <2>1. PICK x \in Outputs : PutWord(w, x)  BY <1>3
  <2>2. x \in Words /\ wval[w] \in Nat /\ wb[w] \in 0..1  BY DEF Words
  <2>3. shmData' \in [0..1 -> [Words -> Nat]]  BY <2>1, <2>2 DEF PutWord
  <2>4. wtodo' \in [Writers -> SUBSET Outputs]  BY <2>1 DEF PutWord
  <2>5. UNCHANGED <<header, bus, daemonVars, readerVars, wpc, wb, wval, writes>>
    BY <2>1 DEF PutWord
  <2> QED BY <2>3, <2>4, <2>5
<1> QED BY <1>1, <1>2, <1>3 DEF WriterStep

(* Every variable of the data plane keeps its type: the buffer index stays in *)
(* 0..1 whatever the mirror does, so no client is handed a pointer past the   *)
(* second buffer (get_active_data, nekoecat_client.c:439).                    *)
THEOREM TypeCorrect == Spec => []TypeOK
<1>1. Init => TypeOK
  <2> SUFFICES ASSUME Init PROVE TypeOK  OBVIOUS
  <2>1. dcur \in Words  BY ShmAssumption DEF Init, Words
  <2>2. Blank \in [Words -> Nat] /\ NoReads \in [Inputs -> Nat] /\ 0 \in 0..MaxAttempts
    BY ShmAssumption DEF Blank, NoReads
  <2>3. shmData \in [0..1 -> [Words -> Nat]] /\ got \in [Readers -> [Inputs -> Nat]]
    BY <2>2, ShmAssumption DEF Init, Words
  <2>4. /\ rtodo \in [Readers -> SUBSET Inputs] /\ wtodo \in [Writers -> SUBSET Outputs]
        /\ attempt \in [Readers -> 0..MaxAttempts]
        /\ rb \in [Readers -> 0..1] /\ wb \in [Writers -> 0..1]
    BY <2>2 DEF Init
  <2>5. /\ rpc \in [Readers -> ReadPlaces \cup {"idle", "ok", "failed", "wait", "woken"}]
        /\ wpc \in [Writers -> {"idle", "put"}]
    BY DEF Init
  <2>6. /\ v1 \in [Readers -> Nat] /\ v2 \in [Readers -> Nat]
        /\ target \in [Readers -> Nat] /\ since \in [Readers -> Nat]
        /\ wval \in [Writers -> Nat] /\ wire \in [Outputs -> Nat]
    BY DEF Init
  <2>7. status_running \in BOOLEAN /\ running \in BOOLEAN  BY Zenon DEF Init
  <2>8. /\ domainData \in [Words -> Nat] /\ active_buffer \in 0..1 /\ version \in Nat
        /\ cycle_count \in Nat /\ ignored_writes \in Nat /\ received \in Nat
        /\ dpc = "sleep" /\ spc = "up" /\ dtodo = {} /\ writes \in Nat
    BY <2>2 DEF Init
  <2> QED BY <2>1, <2>3, <2>4, <2>5, <2>6, <2>7, <2>8 DEF TypeOK, Filling
<1>2. TypeOK /\ [Next]_vars => TypeOK'
  <2> SUFFICES ASSUME TypeOK, [Next]_vars PROVE TypeOK'  OBVIOUS
  <2>1. CASE Next
    BY <2>1, CyclePreservesTypes, StopPreservesTypes, ReaderPreservesTypes,
       WriterPreservesTypes DEF Next
  <2>2. CASE UNCHANGED vars  BY <2>2 DEF TypeOK
  <2> QED BY <2>1, <2>2
<1> QED BY <1>1, <1>2, PTL DEF Spec

-----------------------------------------------------------------------------
(* The inductive invariant behind NoTornRead and FreshRead. *)

Holds(b, k) == \A x \in Inputs : shmData[b][x] = ImageOf(k)[x]

(* The active buffer always holds one whole image, or what was left in it;    *)
(* until the next cycle the other one is only written while it is neither     *)
(* active nor, in the window between the two release stores, possibly still   *)
(* in use under this version.                                                  *)
BufferInv ==
  /\ Holds(active_buffer, Published)
  /\ dpc \in Filling => \A x \in Inputs : domainData[x] = received
  /\ dpc = "copy" => \A x \in Inputs \ dtodo : shmData[inactive][x] = received
  /\ dpc \in {"overlay", "apply", "flip"} => Holds(inactive, received)
  /\ dpc = "bump" => received >= 1 /\ Holds(inactive, received - 1)

(* The image of a buffer that a reader whose first load of version is still   *)
(* current may be copying: nobody writes it.                                   *)
Current(b) == IF b = active_buffer THEN Published ELSE Published - 1

(* A reader that has compared the versions holds one image.                    *)
GotImage(r) == \E k \in since[r]..Published : got[r] = ImageOf(k)

ReaderInv(r) ==
  /\ rpc[r] \in ReadPlaces => since[r] <= Published
  /\ rpc[r] \in {"buffer", "data", "compare"} => v1[r] <= version
  /\ rpc[r] = "data" /\ v1[r] = version =>
       /\ rb[r] = active_buffer \/ dpc = "bump"
       /\ since[r] <= Current(rb[r])
       /\ \A x \in Inputs \ rtodo[r] : got[r][x] = ImageOf(Current(rb[r]))[x]
  /\ rpc[r] = "compare" => rtodo[r] = {}
  /\ rpc[r] = "compare" /\ v1[r] = v2[r] => GotImage(r)
  /\ rpc[r] = "ok" => GotImage(r)

ReadInv == BufferInv /\ \A r \in Readers : ReaderInv(r)

LEMMA ImageType == ASSUME NEW k \in Nat PROVE ImageOf(k) \in [Inputs -> Nat]
BY ShmAssumption DEF ImageOf, Found

(* The steps of clients and of stop() leave the input words alone. *)
InputsKept ==
  /\ \A b \in 0..1, x \in Inputs : shmData'[b][x] = shmData[b][x]
  /\ UNCHANGED <<active_buffer, received, domainData, dpc, dtodo>>

LEMMA StopKeepsInputs == ASSUME StopRequest \/ Stopping PROVE InputsKept
BY DEF StopRequest, Stopping, ClearRunning, FinalBump, InputsKept

LEMMA ReaderKeepsInputs == ASSUME NEW r \in Readers, ReaderStep(r) PROVE InputsKept
BY DEF ReaderStep, ReadStep, BeginRead, LoadVersion, LoadActive, LoadWord, ReloadVersion,
       Accept, Retry, GiveUp, EndRead, BeginWait, WaitTrue, WaitTimeout, ReadWoken, InputsKept

LEMMA WriterKeepsInputs == ASSUME TypeOK, NEW w \in Writers, WriterStep(w) PROVE InputsKept
<1>1. CASE BeginWrite(w) \/ EndWrite(w)  BY <1>1 DEF BeginWrite, EndWrite, InputsKept
<1>2. CASE \E y \in Outputs : PutWord(w, y)
  <2>1. PICK y \in Outputs : PutWord(w, y)  BY <1>2
  <2>2. wb[w] \in 0..1 /\ y \notin Inputs  BY ShmAssumption DEF TypeOK
  <2>3. shmData' = [shmData EXCEPT ![wb[w]][y] = wval[w]]  BY <2>1 DEF PutWord
  <2>4. ASSUME NEW b \in 0..1, NEW x \in Inputs PROVE shmData'[b][x] = shmData[b][x]
    BY <2>2, <2>3 DEF TypeOK, Words
  <2> QED BY <2>1, <2>4 DEF PutWord, InputsKept
<1> QED BY <1>1, <1>2 DEF WriterStep

LEMMA KeptImages ==
  ASSUME InputsKept PROVE Published' = Published /\ \A b : Current(b)' = Current(b)
BY DEF InputsKept, Published, Current

LEMMA KeptBuffers ==
  ASSUME TypeOK, BufferInv, InputsKept PROVE BufferInv'
<1>1. active_buffer \in 0..1 /\ inactive \in 0..1 /\ inactive' = inactive
  BY DEF TypeOK, inactive, InputsKept
<1>2. Published' = Published  BY <1>1, KeptImages
<1> QED BY <1>1, <1>2 DEF BufferInv, InputsKept, Holds, ImageOf, Found

LEMMA CycleBuffers ==
  ASSUME TypeOK, BufferInv, Cycle PROVE BufferInv'
<1> USE DEF BufferInv, Holds, ImageOf, Found, Filling, inactive, Published
<1>0. active_buffer \in 0..1 /\ inactive \in 0..1 /\ inactive # active_buffer
      /\ received \in Nat /\ Published \in Nat /\ (dpc \in Filling => received >= 1)
  BY DEF TypeOK
<1>1. CASE Receive  BY <1>0, <1>1 DEF Receive, Words, TypeOK
<1>2. CASE ExitLoop \/ Send  BY <1>0, <1>2 DEF ExitLoop, Send, TypeOK
<1>3. CASE BeginOverlay  BY <1>0, <1>3 DEF BeginOverlay
<1>4. CASE OverlayDomain
  <2>1. dcur \notin Inputs  BY <1>4, ShmAssumption DEF OverlayDomain, TypeOK
  <2> QED BY <1>0, <1>4, <2>1 DEF OverlayDomain, TypeOK, Words
<1>5. CASE StampHeader  BY <1>0, <1>5 DEF StampHeader
<1>6. CASE Flip  BY <1>0, <1>6 DEF Flip
<1>7. CASE Bump  BY <1>0, <1>7 DEF Bump
<1>8. CASE \E y \in Words : CopyWord(y)
  <2>1. PICK y \in Words : CopyWord(y)  BY <1>8
  <2>2. shmData' = [shmData EXCEPT ![inactive][y] = domainData[y]]  BY <2>1 DEF CopyWord
  <2>3. \A x \in Words : shmData'[active_buffer][x] = shmData[active_buffer][x]
    BY <1>0, <2>2 DEF TypeOK
  <2>4. \A x \in Words : shmData'[inactive][x] = IF x = y THEN domainData[y] ELSE shmData[inactive][x]
    BY <1>0, <2>2 DEF TypeOK
  <2> QED BY <1>0, <2>1, <2>3, <2>4 DEF CopyWord, Words
<1>9. CASE \E y \in Words : OverlayShm(y)
  <2>1. PICK y \in Words : OverlayShm(y)  BY <1>9
  <2>2. y \notin Inputs  BY <2>1, ShmAssumption DEF OverlayShm, TypeOK
  <2>3. shmData' = [shmData EXCEPT ![inactive][y] = shmData[active_buffer][y]]
    BY <2>1 DEF OverlayShm
  <2>4. \A b \in 0..1, x \in Inputs : shmData'[b][x] = shmData[b][x]
    BY <1>0, <2>2, <2>3 DEF TypeOK, Words
  <2> QED BY <1>0, <2>1, <2>4 DEF OverlayShm
<1> QED BY <1>1, <1>2, <1>3, <1>4, <1>5, <1>6, <1>7, <1>8, <1>9 DEF Cycle

(* What ReaderInv(r) says of r is untouched while r and the input words stand still. *)
ReaderIdle(r) ==
  /\ rpc'[r] = rpc[r] /\ v1'[r] = v1[r] /\ v2'[r] = v2[r] /\ rb'[r] = rb[r]
  /\ rtodo'[r] = rtodo[r] /\ got'[r] = got[r] /\ since'[r] = since[r]

LEMMA CycleReader ==
  ASSUME TypeOK, Cycle, NEW r \in Readers, ReaderInv(r)
  PROVE  ReaderInv(r)'
<1> USE DEF ReaderInv, GotImage, ReadPlaces
<1>0. /\ active_buffer \in 0..1 /\ inactive \in 0..1 /\ inactive # active_buffer
      /\ rb[r] \in 0..1 /\ received \in Nat /\ Published \in Nat /\ version \in Nat
      /\ v1[r] \in Nat /\ v2[r] \in Nat /\ since[r] \in Nat /\ got[r] \in [Inputs -> Nat]
  BY DEF TypeOK, Published, inactive
<1>1. ReaderIdle(r)
  BY DEF Cycle, Receive, ExitLoop, BeginOverlay, OverlayDomain, StampHeader, Flip, Bump, Send,
         CopyWord, OverlayShm, ReaderIdle
<1>2. \A k : ImageOf(k)' = ImageOf(k)  BY DEF ImageOf, Found
<1>3. CASE Flip
  <2>1. active_buffer' = inactive /\ version' = version /\ dpc' = "bump"
    BY <1>3 DEF Flip
  <2>2. Published' = Published + 1  BY <1>0, <1>3 DEF Flip, Published, Filling
  <2>3. rb[r] = active_buffer => Current(rb[r])' = Current(rb[r])
    BY <1>0, <1>1, <2>1, <2>2 DEF Current, ReaderIdle
  <2>4. rpc[r] = "data" /\ v1[r] = version => rb[r] = active_buffer  BY <1>3 DEF Flip
  <2>5. GotImage(r) => GotImage(r)'  BY <1>0, <1>1, <1>2, <2>2 DEF ReaderIdle
  <2> HIDE DEF GotImage
  <2> QED BY <1>0, <1>1, <1>2, <2>1, <2>2, <2>3, <2>4, <2>5 DEF ReaderIdle
<1>4. CASE Bump
  <2>1. version' = version + 1 /\ Published' = Published
    BY <1>4 DEF Bump, Published, Filling
  <2> QED BY <1>0, <1>1, <1>2, <2>1 DEF ReaderIdle
<1>5. ASSUME ~Flip, ~Bump PROVE ReaderInv(r)'
  <2>1. active_buffer' = active_buffer /\ version' = version /\ dpc # "bump" /\ Published' = Published
    BY <1>0, <1>5
    DEF Cycle, Receive, ExitLoop, BeginOverlay, OverlayDomain, StampHeader, Send, CopyWord, OverlayShm,
        Published, Filling, TypeOK
  <2>2. Current(rb[r])' = Current(rb[r])  BY <1>1, <2>1 DEF Current, ReaderIdle
  <2> QED BY <1>0, <1>1, <1>2, <2>1, <2>2 DEF ReaderIdle
<1> QED BY <1>3, <1>4, <1>5

(* Steps of stop(), of the writers and of other readers. *)
LEMMA OthersReader ==
  ASSUME TypeOK, NEW r \in Readers, ReaderInv(r), ReaderIdle(r), InputsKept,
         version' = version \/ version' = version + 1
  PROVE  ReaderInv(r)'
<1> USE DEF ReaderInv, GotImage, ReadPlaces, ReaderIdle
<1>1. version \in Nat /\ v1[r] \in Nat  BY DEF TypeOK
<1>2. Published' = Published /\ active_buffer' = active_buffer /\ dpc' = dpc
  BY KeptImages DEF InputsKept
<1>3. Current(rb[r])' = Current(rb[r])  BY KeptImages
<1>4. \A k : ImageOf(k)' = ImageOf(k)  BY DEF ImageOf, Found
<1>5. CASE version' = version      BY <1>1, <1>2, <1>3, <1>4, <1>5
<1>6. CASE version' = version + 1  BY <1>1, <1>2, <1>3, <1>4, <1>6
<1> QED BY <1>5, <1>6

LEMMA OwnReader ==
  ASSUME TypeOK, BufferInv, OrderedLoads, NEW r \in Readers, ReaderInv(r), ReaderStep(r)
  PROVE  ReaderInv(r)'
<1> USE DEF ReaderInv, ReadPlaces
<1>0. /\ active_buffer \in 0..1 /\ inactive \in 0..1 /\ inactive # active_buffer
      /\ rb[r] \in 0..1 /\ received \in Nat /\ Published \in Nat /\ version \in Nat
      /\ v1[r] \in Nat /\ v2[r] \in Nat /\ since[r] \in Nat /\ got[r] \in [Inputs -> Nat]
      /\ rtodo[r] \in SUBSET Inputs
  BY DEF TypeOK, Published, inactive
<1>1. InputsKept /\ shmData' = shmData /\ version' = version
  BY ReaderKeepsInputs
  DEF ReaderStep, ReadStep, BeginRead, LoadVersion, LoadActive, LoadWord, ReloadVersion,
      Accept, Retry, GiveUp, EndRead, BeginWait, WaitTrue, WaitTimeout, ReadWoken
<1>2. Published' = Published /\ active_buffer' = active_buffer /\ dpc' = dpc
  BY <1>1, KeptImages DEF InputsKept
<1>3. \A k : ImageOf(k)' = ImageOf(k)  BY DEF ImageOf, Found
<1>4. rpc[r] = "data" /\ v1[r] = version =>
        /\ Current(rb[r]) \in since[r]..Published
        /\ \A x \in Inputs : shmData[rb[r]][x] = ImageOf(Current(rb[r]))[x]
  BY <1>0 DEF BufferInv, Holds, Published, Current, inactive, Filling
<1>5. rb'[r] = rb[r] => Current(rb[r])' = Current(rb[r])  BY <1>2 DEF Current
<1>6. got'[r] = got[r] /\ since'[r] = since[r] /\ GotImage(r) => GotImage(r)'  BY <1>2, <1>3 DEF GotImage
<1> USE <1>0, <1>1, <1>2, <1>3
<1>7. CASE BeginRead(r) \/ ReadWoken(r)  BY <1>7 DEF BeginRead, ReadWoken, TypeOK
<1>8. CASE LoadVersion(r)  BY <1>8 DEF LoadVersion, TypeOK
<1>9. CASE LoadActive(r)
  <2>1. rb'[r] = active_buffer /\ rtodo'[r] = Inputs /\ rpc'[r] = "data"
    BY <1>9 DEF LoadActive, TypeOK
  <2>2. Current(rb[r])' = Published  BY <2>1 DEF Current
  <2> QED BY <1>9, <2>1, <2>2 DEF LoadActive
<1>10. CASE \E x \in Inputs : LoadWord(r, x)
  <2>1. PICK x \in Inputs : LoadWord(r, x)  BY <1>10
  <2>2. rpc[r] = "data"  BY <2>1 DEF LoadWord
  <2>3. /\ got'[r] = [got[r] EXCEPT ![x] = shmData[rb[r]][x]]
        /\ rtodo'[r] = rtodo[r] \ {x}
    BY <2>1 DEF LoadWord, TypeOK
  <2>4. v1[r] = version => \A y \in Inputs \ (rtodo[r] \ {x}) : got'[r][y] = ImageOf(Current(rb[r]))[y]
    BY <1>4, <2>2, <2>3
  <2> QED BY <1>5, <2>1, <2>2, <2>3, <2>4 DEF LoadWord
<1>11. CASE ReloadVersion(r)
  <2>1. /\ rpc[r] = "data" /\ rtodo[r] = {} /\ v2'[r] = version /\ rpc'[r] = "compare"
        /\ UNCHANGED <<got, since, rtodo, v1>>
    BY <1>11 DEF ReloadVersion, TypeOK
  <2>2. ASSUME v1[r] = version PROVE GotImage(r)
    <3>1. Current(rb[r]) \in since[r]..Published  BY <1>4, <2>1, <2>2
    <3>2. \A x \in Inputs : got[r][x] = ImageOf(Current(rb[r]))[x]  BY <2>1, <2>2
    <3>3. got[r] = ImageOf(Current(rb[r]))
      <4>1. ImageOf(Current(rb[r])) \in [Inputs -> Nat]  BY <3>1, ImageType
      <4> QED BY <3>2, <4>1
    <3> QED BY <3>1, <3>3 DEF GotImage
  <2> QED BY <1>6, <2>1, <2>2
<1>12. CASE Accept(r)  BY <1>6, <1>12 DEF Accept, TypeOK
<1>13. CASE Retry(r)   BY <1>13 DEF Retry, TypeOK
<1>14. CASE GiveUp(r) \/ EndRead(r)  BY <1>14 DEF GiveUp, EndRead, TypeOK
<1>15. CASE BeginWait(r)  BY <1>15 DEF BeginWait, TypeOK
<1>16. CASE WaitTrue(r) \/ WaitTimeout(r)  BY <1>16 DEF WaitTrue, WaitTimeout, TypeOK
<1> QED BY <1>7, <1>8, <1>9, <1>10, <1>11, <1>12, <1>13, <1>14, <1>15, <1>16
        DEF ReaderStep, ReadStep

LEMMA ReadInvStep ==
  ASSUME TypeOK, ReadInv, OrderedLoads, [Next]_vars PROVE ReadInv'
<1>1. CASE Cycle  BY <1>1, CycleBuffers, CycleReader DEF ReadInv
<1>2. CASE StopRequest \/ Stopping
  <2>1. \A r \in Readers : ReaderIdle(r)
    BY <1>2 DEF StopRequest, Stopping, ClearRunning, FinalBump, ReaderIdle
  <2>2. version' = version \/ version' = version + 1
    BY <1>2 DEF StopRequest, Stopping, ClearRunning, FinalBump
  <2> QED BY <1>2, <2>1, <2>2, StopKeepsInputs, KeptBuffers, OthersReader DEF ReadInv
<1>3. ASSUME NEW q \in Readers, ReaderStep(q) PROVE ReadInv'
  <2>1. InputsKept /\ version' = version
    BY <1>3, ReaderKeepsInputs
    DEF ReaderStep, ReadStep, BeginRead, LoadVersion, LoadActive, LoadWord, ReloadVersion,
        Accept, Retry, GiveUp, EndRead, BeginWait, WaitTrue, WaitTimeout, ReadWoken
  <2>2. ASSUME NEW r \in Readers, r # q PROVE ReaderIdle(r)
    BY <1>3, <2>2
    DEF ReaderStep, ReadStep, BeginRead, LoadVersion, LoadActive, LoadWord, ReloadVersion,
        Accept, Retry, GiveUp, EndRead, BeginWait, WaitTrue, WaitTimeout, ReadWoken,
        ReaderIdle, TypeOK
  <2> QED BY <1>3, <2>1, <2>2, KeptBuffers, OwnReader, OthersReader DEF ReadInv
<1>4. ASSUME NEW w \in Writers, WriterStep(w) PROVE ReadInv'
  <2>1. version' = version /\ \A r \in Readers : ReaderIdle(r)
    BY <1>4 DEF WriterStep, BeginWrite, PutWord, EndWrite, ReaderIdle
  <2> QED BY <1>4, <2>1, WriterKeepsInputs, KeptBuffers, OthersReader DEF ReadInv
<1>5. CASE UNCHANGED vars
  <2>1. InputsKept /\ version' = version /\ \A r \in Readers : ReaderIdle(r)
    BY <1>5 DEF InputsKept, ReaderIdle
  <2> QED BY <2>1, KeptBuffers, OthersReader DEF ReadInv
<1> QED BY <1>1, <1>2, <1>3, <1>4, <1>5 DEF Next

LEMMA ReadInvInit == ASSUME Init PROVE ReadInv
<1> USE DEF Init
<1>1. Published = 0  BY DEF Published, Filling
<1>2. BufferInv  BY <1>1, ShmAssumption DEF BufferInv, Holds, ImageOf, Found, Filling
<1>3. ASSUME NEW r \in Readers PROVE ReaderInv(r)  BY DEF ReaderInv, ReadPlaces
<1> QED BY <1>2, <1>3 DEF ReadInv

THEOREM ReadInvariant == ASSUME OrderedLoads PROVE Spec => []ReadInv
<1>1. Init => ReadInv  BY ReadInvInit
<1>2. TypeOK /\ ReadInv /\ [Next]_vars => ReadInv'  BY ReadInvStep
<1> QED BY <1>1, <1>2, TypeCorrect, PTL DEF Spec

(* On a machine that keeps the reader's loads in order, a read that succeeds  *)
(* is never torn, whatever the number of clients, words, attempts and cycles  *)
(* and however the mirror, the writers and stop() interleave with it; until   *)
(* the first image is published it finds what a killed session left.          *)
THEOREM ReadsAreWhole == ASSUME OrderedLoads PROVE Spec => []NoTornRead
<1>1. TypeOK /\ ReadInv => NoTornRead
  <2> SUFFICES ASSUME TypeOK, ReadInv, NEW r \in Readers, rpc[r] = "ok",
                      ~\A x, y \in Inputs : got[r][x] = got[r][y]
               PROVE  since[r] = 0 /\ got[r] = Found
    BY DEF NoTornRead
  <2>1. PICK k \in since[r]..Published : got[r] = ImageOf(k)  BY DEF ReadInv, ReaderInv, GotImage
  <2>2. k = 0  BY <2>1 DEF ImageOf
  <2> QED BY <2>1, <2>2 DEF ImageOf, TypeOK
<1> QED BY <1>1, TypeCorrect, ReadInvariant, PTL

(* Nor does it return an image older than the one published when it began.    *)
THEOREM ReadsAreFresh == ASSUME OrderedLoads PROVE Spec => []FreshRead
<1>1. ReadInv => FreshRead  BY DEF ReadInv, ReaderInv, GotImage, FreshRead
<1> QED BY <1>1, ReadInvariant, PTL

-----------------------------------------------------------------------------
(* stop(): RUNNING stays clear because the loop that sets it has exited. *)
StopInv == spc \in {"cleared", "stopped"} => dpc = "exited" /\ ~status_running

(* Once stop() has published its final version RUNNING is clear for good: the *)
(* cycle thread cannot set it again, for it has been joined.                  *)
THEOREM StoppedStaysVisible == Spec => []StoppedIsVisible
<1>1. Init => StopInv  BY DEF Init, StopInv
<1>2. StopInv /\ [Next]_vars => StopInv'
  <2> SUFFICES ASSUME StopInv, [Next]_vars PROVE StopInv'  OBVIOUS
  <2> USE DEF StopInv
  <2>1. CASE Cycle
    BY <2>1 DEF Cycle, Receive, ExitLoop, BeginOverlay, OverlayDomain, StampHeader, Flip, Bump,
                Send, CopyWord, OverlayShm
  <2>2. CASE StopRequest \/ Stopping
    BY <2>2 DEF StopRequest, Stopping, ClearRunning, FinalBump
  <2>3. ASSUME NEW r \in Readers, ReaderStep(r) PROVE StopInv'
    BY <2>3 DEF ReaderStep, ReadStep, BeginRead, LoadVersion, LoadActive, LoadWord,
                ReloadVersion, Accept, Retry, GiveUp, EndRead, BeginWait, WaitTrue,
                WaitTimeout, ReadWoken
  <2>4. ASSUME NEW w \in Writers, WriterStep(w) PROVE StopInv'
    BY <2>4 DEF WriterStep, BeginWrite, PutWord, EndWrite
  <2>5. CASE UNCHANGED vars  BY <2>5
  <2> QED BY <2>1, <2>2, <2>3, <2>4, <2>5 DEF Next
<1>3. StopInv => StoppedIsVisible  BY DEF StopInv, StoppedIsVisible
<1> QED BY <1>1, <1>2, <1>3, PTL DEF Spec

-----------------------------------------------------------------------------
(* Refinement: the steps of the register are the flip of active_buffer and    *)
(* the beginning, acceptance, failure and end of a read.                      *)

RState(r) == IF rpc[r] \in ReadPlaces THEN "reading"
             ELSE IF rpc[r] \in {"ok", "failed"} THEN rpc[r] ELSE "idle"
Result(r) == IF rpc[r] = "ok" THEN got[r] ELSE NoReads

LEMMA MappedQuiet ==
  ASSUME TypeOK, Published' = Published, since' = since,
         \A r \in Readers : RState(r)' = RState(r) /\ Result(r)' = Result(r)
  PROVE  UNCHANGED Snapshot!vars
BY DEF Snapshot!vars, RState, Result

LEMMA SnapshotCycle ==
  ASSUME TypeOK, ReadInv, ReadInv', Cycle PROVE [Snapshot!Next]_(Snapshot!vars)
<1>0. UNCHANGED readerVars
  BY DEF Cycle, Receive, ExitLoop, BeginOverlay, OverlayDomain, StampHeader, Flip, Bump, Send,
         CopyWord, OverlayShm
<1>1. CASE Flip
  <2>1. Published' = Published + 1
    BY <1>1 DEF Flip, Published, Filling, TypeOK
  <2>2. Snapshot!Publish  BY <1>0, <2>1 DEF Snapshot!Publish
  <2> QED BY <2>2 DEF Snapshot!Next
<1>2. CASE ~Flip
  <2>1. Published' = Published
    BY <1>2
    DEF Cycle, Receive, ExitLoop, BeginOverlay, OverlayDomain, StampHeader, Bump, Send,
        CopyWord, OverlayShm, Published, Filling, TypeOK
  <2> QED BY <1>0, <2>1, MappedQuiet DEF RState, Result
<1> QED BY <1>1, <1>2

LEMMA SnapshotReader ==
  ASSUME TypeOK, ReadInv, ReadInv', NEW r \in Readers, ReaderStep(r)
  PROVE  [Snapshot!Next]_(Snapshot!vars)
<1> DEFINE rst == [q \in Readers |-> RState(q)]
           res == [q \in Readers |-> Result(q)]
<1>0. Published' = Published /\ Published \in Nat
  BY ReaderKeepsInputs, KeptImages DEF TypeOK, Published
<1>1. \A q \in Readers \ {r} : RState(q)' = RState(q) /\ Result(q)' = Result(q)
  BY DEF ReaderStep, ReadStep, BeginRead, LoadVersion, LoadActive, LoadWord, ReloadVersion,
         Accept, Retry, GiveUp, EndRead, BeginWait, WaitTrue, WaitTimeout, ReadWoken,
         RState, Result, TypeOK
<1> USE <1>0 DEF RState, Result, ReadPlaces
<1>2. CASE BeginRead(r) \/ ReadWoken(r)
  <2>1. /\ rst[r] = "idle" /\ rst' = [rst EXCEPT ![r] = "reading"]
        /\ since' = [since EXCEPT ![r] = Published]
    BY <1>1, <1>2 DEF BeginRead, ReadWoken, TypeOK
  <2>2. res' = res  BY <1>1, <1>2 DEF BeginRead, ReadWoken, TypeOK
  <2>3. Snapshot!Begin(r)  BY <2>1, <2>2 DEF Snapshot!Begin
  <2> QED BY <2>3 DEF Snapshot!Next
<1>3. CASE Accept(r)
  <2>1. GotImage(r)' /\ UNCHANGED <<since, got>>
    BY <1>3 DEF Accept, ReadInv, ReaderInv, TypeOK
  <2>2. /\ rst[r] = "reading" /\ rst' = [rst EXCEPT ![r] = "ok"]
        /\ res' = [res EXCEPT ![r] = got[r]]
    BY <1>1, <1>3 DEF Accept, TypeOK
  <2>3. PICK k \in since[r]..Published : got[r] = ImageOf(k)  BY <2>1 DEF GotImage, ImageOf, Found
  <2>4. got[r] = Snapshot!Held(k)  BY <2>3 DEF ImageOf, Snapshot!Held, Snapshot!Whole
  <2>5. Snapshot!Return(r)  BY <2>1, <2>2, <2>3, <2>4 DEF Snapshot!Return
  <2> QED BY <2>5 DEF Snapshot!Next
<1>4. CASE GiveUp(r)
  <2>1. rst[r] = "reading" /\ rst' = [rst EXCEPT ![r] = "failed"] /\ since' = since
    BY <1>1, <1>4 DEF GiveUp, TypeOK
  <2>2. res' = res  BY <1>1, <1>4 DEF GiveUp, TypeOK
  <2>3. Snapshot!Fail(r)  BY <2>1, <2>2 DEF Snapshot!Fail
  <2> QED BY <2>3 DEF Snapshot!Next
<1>5. CASE EndRead(r)
  <2>1. rst[r] \in {"ok", "failed"} /\ rst' = [rst EXCEPT ![r] = "idle"] /\ since' = since
    BY <1>1, <1>5 DEF EndRead, TypeOK
  <2>2. res' = [res EXCEPT ![r] = NoReads]  BY <1>1, <1>5 DEF EndRead, TypeOK
  <2>3. Snapshot!End(r)  BY <2>1, <2>2 DEF Snapshot!End, Snapshot!Whole, NoReads
  <2> QED BY <2>3 DEF Snapshot!Next
<1>6. CASE LoadVersion(r) \/ LoadActive(r) \/ ReloadVersion(r) \/ Retry(r)
  <2>1. since' = since /\ RState(r)' = RState(r) /\ Result(r)' = Result(r)
    BY <1>6 DEF LoadVersion, LoadActive, ReloadVersion, Retry, TypeOK
  <2> QED BY <1>1, <2>1, MappedQuiet
<1>7. CASE \E x \in Inputs : LoadWord(r, x)
  <2>1. since' = since /\ RState(r)' = RState(r) /\ Result(r)' = Result(r)
    BY <1>7 DEF LoadWord, TypeOK
  <2> QED BY <1>1, <2>1, MappedQuiet
<1>8. CASE BeginWait(r) \/ WaitTrue(r) \/ WaitTimeout(r)
  <2>1. since' = since /\ RState(r)' = RState(r) /\ Result(r)' = Result(r)
    BY <1>8 DEF BeginWait, WaitTrue, WaitTimeout, TypeOK
  <2> QED BY <1>1, <2>1, MappedQuiet
<1> QED BY <1>2, <1>3, <1>4, <1>5, <1>6, <1>7, <1>8 DEF ReaderStep, ReadStep

(* The double-buffered mirror with its double read implements the register of *)
(* whole images (freerun_shm_mirror.cpp and nekoecat_client.c together).      *)
THEOREM MirrorIsSnapshot == ASSUME OrderedLoads PROVE Spec => SnapshotSpec
<1>1. Init => Snapshot!Init
  BY DEF Init, Snapshot!Init, Snapshot!Whole, NoReads, Published, Filling, ReadPlaces
<1>2. TypeOK /\ ReadInv /\ ReadInv' /\ [Next]_vars => [Snapshot!Next]_(Snapshot!vars)
  <2> SUFFICES ASSUME TypeOK, ReadInv, ReadInv', [Next]_vars
               PROVE  [Snapshot!Next]_(Snapshot!vars)
    OBVIOUS
  <2>1. CASE Cycle  BY <2>1, SnapshotCycle
  <2>2. ASSUME NEW r \in Readers, ReaderStep(r) PROVE [Snapshot!Next]_(Snapshot!vars)
    BY <2>2, SnapshotReader
  <2>3. CASE StopRequest \/ Stopping
    <3>1. UNCHANGED readerVars  BY <2>3 DEF StopRequest, Stopping, ClearRunning, FinalBump
    <3>2. Published' = Published  BY <2>3, StopKeepsInputs, KeptImages
    <3> QED BY <3>1, <3>2, MappedQuiet DEF RState, Result
  <2>4. ASSUME NEW w \in Writers, WriterStep(w) PROVE [Snapshot!Next]_(Snapshot!vars)
    <3>1. UNCHANGED readerVars  BY <2>4 DEF WriterStep, BeginWrite, PutWord, EndWrite
    <3>2. Published' = Published  BY <2>4, WriterKeepsInputs, KeptImages
    <3> QED BY <3>1, <3>2, MappedQuiet DEF RState, Result
  <2>5. CASE UNCHANGED vars
    BY <2>5, MappedQuiet DEF RState, Result, Published
  <2> QED BY <2>1, <2>2, <2>3, <2>4, <2>5 DEF Next
<1> QED BY <1>1, <1>2, TypeCorrect, ReadInvariant, PTL DEF Spec, SnapshotSpec, Snapshot!Spec

-----------------------------------------------------------------------------
(****************************************************************************)
(* ShmOutputs: the words that clients store.                                *)
(****************************************************************************)

Overlaying == {"overlay", "apply", "flip"}

(* A quiet writer stores into the buffer the clients find, and no overlay is under way. *)
QuietWriters ==
  \A w \in Writers : wpc[w] = "put" /\ quiet[w] => wb[w] = active_buffer /\ dpc \notin Overlaying

(* What is expected is in the active buffer, and an overlay knows of all of it. *)
ExpectedIsActive ==
  /\ \A x \in Outputs : expect[x] # 0 => shmData[active_buffer][x] = expect[x]
  /\ dpc \in Overlaying => \A x \in Outputs : expect[x] # 0 => x \in due
  /\ \A x \in due : expect[x] # 0

(* The overlay brings it to the buffer that will be active, word by word ... *)
OverlaidIsInactive ==
  /\ dpc = "flip" => dtodo = {}
  /\ dpc \in Overlaying => \A x \in due \ dtodo : shmData[inactive][x] = expect[x]
  /\ dpc = "apply" => dcur \in dtodo /\ (dcur \in due => shmData[inactive][dcur] = expect[dcur])

(* ... and to the domain, from which it is sent. *)
OverlaidIsSent ==
  /\ dpc \in Overlaying => \A x \in due \ dtodo : domainData[x] = expect[x]
  /\ dpc \in {"bump", "send"} => \A x \in due : domainData[x] = expect[x]
  /\ dpc = "sleep" => \A x \in due : wire[x] = expect[x]

HistoryType ==
  quiet \in [Writers -> BOOLEAN] /\ expect \in [Outputs -> Nat] /\ due \subseteq Outputs

(* The inductive invariant. *)
OutInv == HistoryType /\ QuietWriters /\ ExpectedIsActive /\ OverlaidIsInactive /\ OverlaidIsSent

-----------------------------------------------------------------------------
(* Each step keeps it. *)

LEMMA OutInit == ASSUME OInit PROVE OutInv
<1>1. expect = [x \in Outputs |-> 0] /\ due = {} /\ dpc = "sleep" /\ quiet = [w \in Writers |-> FALSE]
  BY DEF OInit, Init
<1> QED BY <1>1
         DEF OutInv, HistoryType, QuietWriters, ExpectedIsActive, OverlaidIsInactive, OverlaidIsSent, Overlaying

(* A step that touches none of the variables the invariant speaks of. *)
LEMMA OutKept ==
  ASSUME OutInv, UNCHANGED hist,
         UNCHANGED <<active_buffer, dpc, dtodo, dcur, shmData, domainData, wire, wpc, wb>>
  PROVE  OutInv'
BY
  DEF OutInv, HistoryType, QuietWriters, ExpectedIsActive, OverlaidIsInactive, OverlaidIsSent, Overlaying,
   hist, inactive

LEMMA BeginWriteOut == ASSUME TypeOK, OutInv, NEW w \in Writers, OBeginWrite(w) PROVE OutInv'
<1> USE DEF OutInv, OBeginWrite
<1>1. /\ UNCHANGED <<active_buffer, dpc, dtodo, dcur, shmData, domainData, wire, expect, due>>
      /\ wb' = [wb EXCEPT ![w] = active_buffer]
      /\ quiet' = [quiet EXCEPT ![w] = dpc \notin Overlaying]
      /\ wpc' = [wpc EXCEPT ![w] = "put"]
  BY DEF BeginWrite, Overlaying
<1>2. HistoryType'  BY <1>1 DEF HistoryType
<1>3. QuietWriters'
  <2> SUFFICES ASSUME NEW v \in Writers, wpc'[v] = "put", quiet'[v]
               PROVE  wb'[v] = active_buffer /\ dpc \notin Overlaying
    BY <1>1 DEF QuietWriters
  <2>1. CASE v = w  BY <1>1, <2>1 DEF HistoryType, TypeOK
  <2>2. CASE v # w  BY <1>1, <2>2 DEF HistoryType, TypeOK, QuietWriters
  <2> QED BY <2>1, <2>2
<1>4. ExpectedIsActive' /\ OverlaidIsInactive' /\ OverlaidIsSent'
  BY <1>1 DEF ExpectedIsActive, OverlaidIsInactive, OverlaidIsSent, inactive
<1> QED BY <1>2, <1>3, <1>4

LEMMA PutWordOut ==
  ASSUME TypeOK, OutInv, NEW w \in Writers, NEW x \in Outputs, OPutWord(w, x) PROVE OutInv'
<1> USE DEF OutInv
<1>1. /\ UNCHANGED <<active_buffer, dpc, dtodo, dcur, domainData, wire, wpc, wb, quiet>>
      /\ due' = due \ {x} /\ wpc[w] = "put"
  BY DEF OPutWord, PutWord
<1>2. /\ expect' = [expect EXCEPT ![x] = IF quiet[w] THEN wval[w] ELSE 0]
      /\ shmData' = [shmData EXCEPT ![wb[w]][x] = wval[w]]
  BY DEF OPutWord, PutWord
<1>3. wb[w] \in 0 .. 1 /\ wval[w] \in Nat /\ x \in Words /\ active_buffer \in 0 .. 1  BY DEF TypeOK, Words
<1>4. \A y \in Outputs \ {x} : expect'[y] = expect[y] /\ \A b \in 0 .. 1 : shmData'[b][y] = shmData[b][y]
  BY <1>2, <1>3 DEF HistoryType, TypeOK, Words
<1>5. expect'[x] # 0 => quiet[w] /\ shmData'[active_buffer][x] = expect'[x]
  BY <1>1, <1>2, <1>3 DEF HistoryType, TypeOK, QuietWriters
<1>6. HistoryType'
  <2>1. expect' \in [Outputs -> Nat]  BY <1>2, <1>3 DEF HistoryType
  <2> QED BY <1>1, <2>1 DEF HistoryType
<1>7. QuietWriters'  BY <1>1 DEF QuietWriters
<1>8. quiet[w] => dpc \notin Overlaying  BY <1>1 DEF QuietWriters
<1>9. ExpectedIsActive'
  BY <1>1, <1>3, <1>4, <1>5, <1>8 DEF ExpectedIsActive, HistoryType
<1>10. inactive \in 0 .. 1 /\ inactive' = inactive  BY <1>1, <1>3 DEF inactive
<1>11. OverlaidIsInactive'
  BY <1>1, <1>4, <1>10 DEF OverlaidIsInactive, HistoryType
<1>12. OverlaidIsSent'
  BY <1>1, <1>4 DEF OverlaidIsSent, HistoryType
<1> QED BY <1>6, <1>7, <1>9, <1>11, <1>12

LEMMA BeginOverlayOut == ASSUME TypeOK, OutInv, OBeginOverlay PROVE OutInv'
<1> USE DEF OutInv
<1>1. /\ dpc' = "overlay" /\ dtodo' = Outputs /\ quiet' = [w \in Writers |-> FALSE]
      /\ due' = {x \in Outputs : expect[x] # 0}
      /\ UNCHANGED <<active_buffer, shmData, domainData, wire, wpc, wb, expect>>
  BY DEF OBeginOverlay, BeginOverlay
<1>2. HistoryType' /\ QuietWriters'  BY <1>1 DEF HistoryType, QuietWriters
<1>3. ExpectedIsActive'  BY <1>1 DEF ExpectedIsActive
<1>4. OverlaidIsInactive' /\ OverlaidIsSent'  BY <1>1 DEF OverlaidIsInactive, OverlaidIsSent, Overlaying
<1> QED BY <1>2, <1>3, <1>4

(* Its end: the frame is sent with what the overlay brought to the domain. *)
LEMMA SendOut == ASSUME TypeOK, OutInv, OSend PROVE OutInv'
<1> USE DEF OutInv
<1>1. /\ dpc = "send" /\ dpc' = "sleep" /\ wire' = [x \in Outputs |-> domainData[x]]
      /\ UNCHANGED <<active_buffer, shmData, wpc, wb, quiet, expect, due>>
  BY DEF OSend, Send
<1>2. HistoryType' /\ QuietWriters'  BY <1>1 DEF HistoryType, QuietWriters, Overlaying
<1>3. ExpectedIsActive' /\ OverlaidIsInactive'
  BY <1>1 DEF ExpectedIsActive, OverlaidIsInactive, Overlaying
<1>4. OverlaidIsSent'  BY <1>1 DEF OverlaidIsSent, Overlaying, HistoryType
<1> QED BY <1>2, <1>3, <1>4

(* The other steps of the cycle. *)
LEMMA CycleOut ==
  ASSUME TypeOK, OutInv, UNCHANGED hist,
         Receive \/ ExitLoop \/ OverlayDomain \/ StampHeader \/ Flip \/ Bump
         \/ \E x \in Words : CopyWord(x) \/ OverlayShm(x)
  PROVE  OutInv'
<1> USE DEF OutInv
<1>0. UNCHANGED <<quiet, expect, due>>  BY DEF hist
<1>1. HistoryType'  BY <1>0 DEF HistoryType
<1>2. active_buffer \in 0 .. 1 /\ inactive \in 0 .. 1 /\ inactive # active_buffer
  BY DEF TypeOK, inactive
<1>3. CASE Receive
  BY <1>0, <1>1, <1>3
    DEF Receive, QuietWriters, ExpectedIsActive, OverlaidIsInactive, OverlaidIsSent, Overlaying
<1>4. CASE ExitLoop
  BY <1>0, <1>1, <1>4
    DEF ExitLoop, QuietWriters, ExpectedIsActive, OverlaidIsInactive, OverlaidIsSent, Overlaying
<1>5. CASE OverlayDomain
  <2>1. /\ dpc = "apply" /\ dpc' = "overlay" /\ dtodo' = dtodo \ {dcur}
        /\ domainData' = [domainData EXCEPT ![dcur] = shmData[active_buffer][dcur]]
        /\ UNCHANGED <<active_buffer, shmData, wpc, wb, dcur>>
    BY <1>5 DEF OverlayDomain
  <2>2. QuietWriters'  BY <1>0, <2>1 DEF QuietWriters, Overlaying
  <2>3. ExpectedIsActive'  BY <1>0, <2>1 DEF ExpectedIsActive, Overlaying
  <2>4. OverlaidIsInactive'  BY <1>0, <2>1 DEF OverlaidIsInactive, Overlaying, inactive
  <2>5. dcur \in Outputs /\ dcur \in Words /\ domainData'[dcur] = shmData[active_buffer][dcur]
        /\ \A x \in Outputs \ {dcur} : domainData'[x] = domainData[x]
    BY <2>1 DEF TypeOK, Words
  <2>6. OverlaidIsSent'
    BY <1>0, <2>1, <2>5 DEF OverlaidIsSent, ExpectedIsActive, Overlaying, HistoryType
  <2> QED BY <1>1, <2>2, <2>3, <2>4, <2>6
<1>6. CASE StampHeader
  BY <1>0, <1>1, <1>6
    DEF StampHeader, QuietWriters, ExpectedIsActive, OverlaidIsInactive, OverlaidIsSent, Overlaying, inactive
<1>7. CASE Flip
  <2>1. /\ dpc = "flip" /\ dpc' = "bump" /\ active_buffer' = inactive
        /\ UNCHANGED <<shmData, domainData, wire, dtodo, wpc, wb>>
    BY <1>7 DEF Flip
  <2>2. QuietWriters'  BY <1>0, <2>1 DEF QuietWriters, Overlaying
  <2>3. ExpectedIsActive'  BY <1>0, <2>1 DEF ExpectedIsActive, OverlaidIsInactive, Overlaying
  <2>4. OverlaidIsInactive' /\ OverlaidIsSent'
    BY <1>0, <2>1 DEF OverlaidIsInactive, OverlaidIsSent, Overlaying
  <2> QED BY <1>1, <2>2, <2>3, <2>4
<1>8. CASE Bump
  BY <1>0, <1>1, <1>8
    DEF Bump, QuietWriters, ExpectedIsActive, OverlaidIsInactive, OverlaidIsSent, Overlaying
<1>9. CASE \E x \in Words : CopyWord(x)
  <2>1. PICK x \in Words : CopyWord(x)  BY <1>9
  <2>2. /\ dpc = "copy" /\ dpc' = dpc
        /\ UNCHANGED <<active_buffer, domainData, wire, wpc, wb>>
        /\ shmData'[active_buffer] = shmData[active_buffer]
    BY <1>2, <2>1 DEF CopyWord, TypeOK
  <2> QED BY <1>0, <1>1, <2>2
           DEF QuietWriters, ExpectedIsActive, OverlaidIsInactive, OverlaidIsSent, Overlaying
<1>10. CASE \E x \in Words : OverlayShm(x)
  <2>1. PICK x \in Words : OverlayShm(x)  BY <1>10
  <2>2. /\ dpc = "overlay" /\ dpc' = "apply" /\ dcur' = x /\ x \in dtodo /\ x \in Outputs
        /\ UNCHANGED <<active_buffer, domainData, wire, dtodo, wpc, wb>>
        /\ shmData' = [shmData EXCEPT ![inactive][x] = shmData[active_buffer][x]]
    BY <2>1 DEF OverlayShm, TypeOK
  <2>3. /\ shmData'[active_buffer] = shmData[active_buffer]
        /\ shmData'[inactive][x] = shmData[active_buffer][x]
        /\ \A y \in Outputs \ {x} : shmData'[inactive][y] = shmData[inactive][y]
    BY <1>2, <2>2 DEF TypeOK, Words
  <2>4. QuietWriters'  BY <1>0, <2>2 DEF QuietWriters, Overlaying
  <2>5. ExpectedIsActive'  BY <1>0, <2>2, <2>3 DEF ExpectedIsActive, Overlaying
  <2>6. inactive' = inactive  BY <2>2 DEF inactive
  <2>7. OverlaidIsInactive'
    BY <1>0, <2>2, <2>3, <2>6 DEF OverlaidIsInactive, ExpectedIsActive, Overlaying, HistoryType
  <2>8. OverlaidIsSent'  BY <1>0, <2>2 DEF OverlaidIsSent, Overlaying
  <2> QED BY <1>1, <2>4, <2>5, <2>7, <2>8
<1> QED BY <1>3, <1>4, <1>5, <1>6, <1>7, <1>8, <1>9, <1>10

(* Readers, the stop, and the end of a write. *)
LEMMA OtherOut ==
  ASSUME TypeOK, OutInv, UNCHANGED hist,
         StopRequest \/ Stopping \/ (\E r \in Readers : ReaderStep(r)) \/ \E w \in Writers : EndWrite(w)
  PROVE  OutInv'
<1>1. CASE StopRequest \/ Stopping
  BY <1>1, OutKept DEF StopRequest, Stopping, ClearRunning, FinalBump
<1>2. CASE \E r \in Readers : ReaderStep(r)
  <2>1. PICK r \in Readers : ReaderStep(r)  BY <1>2
  <2>2. UNCHANGED Others
    BY <2>1 DEF ReaderStep, ReadStep, BeginRead, LoadVersion, LoadActive, LoadWord, ReloadVersion, Accept,
                Retry, GiveUp, EndRead, BeginWait, WaitTrue, WaitTimeout, ReadWoken
  <2> QED BY <2>2, OutKept
<1>3. CASE \E w \in Writers : EndWrite(w)
  <2>1. PICK w \in Writers : EndWrite(w)  BY <1>3
  <2>2. UNCHANGED <<active_buffer, dpc, dtodo, dcur, shmData, domainData, wire, wb, quiet, expect, due>>
    BY <2>1 DEF EndWrite, hist
  <2>3. \A v \in Writers : wpc'[v] = "put" => wpc[v] = "put"  BY <2>1 DEF EndWrite, TypeOK
  <2> QED BY <2>2, <2>3 DEF OutInv, HistoryType, QuietWriters, ExpectedIsActive, OverlaidIsInactive,
                            OverlaidIsSent, Overlaying, inactive
<1> QED BY <1>1, <1>2, <1>3

LEMMA OutStep == ASSUME TypeOK, OutInv, [ONext]_<<vars, hist>> PROVE OutInv'
<1>1. CASE UNCHANGED <<vars, hist>>  BY <1>1, OutKept
<1>2. CASE OtherStep /\ UNCHANGED hist  BY <1>2, CycleOut, OtherOut DEF OtherStep
<1>3. CASE OBeginOverlay \/ OSend  BY <1>3, BeginOverlayOut, SendOut
<1>4. CASE \E w \in Writers : OBeginWrite(w) \/ \E x \in Outputs : OPutWord(w, x)
  BY <1>4, BeginWriteOut, PutWordOut
<1> QED BY <1>1, <1>2, <1>3, <1>4 DEF ONext

-----------------------------------------------------------------------------
(* The theorems. *)

(* ShmOutputs adds histories to the steps of ShmMirror and no step: what is    *)
(* proved of the mirror holds here too.                                        *)
THEOREM OutputsAreMirror == OSpec => Spec
<1>1. OInit => Init  BY DEF OInit
<1>2. [ONext]_<<vars, hist>> => [Next]_vars
  <2> SUFFICES ASSUME [ONext]_<<vars, hist>> PROVE [Next]_vars
    OBVIOUS
  <2>1. CASE UNCHANGED <<vars, hist>>  BY <2>1
  <2>2. CASE OBeginOverlay \/ OSend
    BY <2>2 DEF OBeginOverlay, OSend, Next, Cycle
  <2>3. CASE \E w \in Writers : OBeginWrite(w) \/ \E x \in Outputs : OPutWord(w, x)
    BY <2>3 DEF OBeginWrite, OPutWord, Next, WriterStep
  <2>4. CASE OtherStep  BY <2>4 DEF OtherStep, Next, Cycle, WriterStep
  <2> QED BY <2>1, <2>2, <2>3, <2>4 DEF ONext
<1> QED BY <1>1, <1>2, PTL DEF OSpec, Spec

(* The invariant holds over any interleaving of writers, overlays and readers. *)
THEOREM OutputInvariant == OSpec => []OutInv
<1>1. OSpec => []TypeOK  BY OutputsAreMirror, TypeCorrect, PTL
<1> QED BY <1>1, OutInit, OutStep, PTL DEF OSpec

(* A store the writer makes into the buffer it looked up, before the overlay   *)
(* begins, is in the frame of that cycle: step 2 of mirrorToShm brings every   *)
(* such word to the domain, however the writers interleave with it.            *)
THEOREM QuietWritesReachTheBus == OSpec => []QuietWritesAreSent
<1>1. OutInv => QuietWritesAreSent  BY DEF OutInv, OverlaidIsSent, QuietWritesAreSent
<1> QED BY <1>1, OutputInvariant, PTL

(* ... and in the buffer that becomes active, so no later overlay brings an    *)
(* older value back.                                                           *)
THEOREM QuietWritesStay == OSpec => []QuietWritesAreKept
<1>1. OutInv => QuietWritesAreKept  BY DEF OutInv, HistoryType, ExpectedIsActive, QuietWritesAreKept
<1> QED BY <1>1, OutputInvariant, PTL

-----------------------------------------------------------------------------
(****************************************************************************)
(* ShmSession: the sessions of Free Run and a client's mapping.             *)
(****************************************************************************)

(* The size of the process data tells one layout from another: what a client   *)
(* compares when it attaches is data_size, not the layout.                     *)
SizesTell == \A k, l \in Layouts : Size(k) = Size(l) => k = l

(* The daemon maps an object exactly from the start of a session to the end of *)
(* its stop(), with the layout of that session, and under the name.            *)
MapsItsSession ==
  /\ ~up => ~freeRunning /\ phase = "idle"
  /\ freeRunning => phase = "idle"
  /\ mapped # NoObject <=> freeRunning \/ phase # "idle"
  /\ mapped # NoObject <=> layout # None
  /\ mapped # NoObject => name = mapped

(* Without a kill, an object whose RUNNING is set is the one the daemon maps,   *)
(* a header tells the length of its object, and none is named once unmapped.   *)
StopsLeaveNoTrace ==
  /\ up /\ name = mapped /\ mapped \in 0 .. created /\ object \in 0 .. created
  /\ \A o \in Objects : o > created => headers[o] = FreshHeader
  /\ \A o \in Objects : headers[o].running => o = mapped /\ image[o] = layout
  /\ \A o \in Objects : headers[o].dataSize # 0 => length[o] = headers[o].dataSize
  /\ phase = "starting" => headers[mapped] = FreshHeader /\ length[mapped] = Size(layout)
  /\ mapped # NoObject /\ phase # "starting" => headers[mapped].dataSize = Size(layout)

(* The layout a client attached with has the size its object's header tells.   *)
ClientKnowsItsObject ==
  /\ attached /\ valid => object # NoObject /\ info # None /\ headers[object].dataSize = Size(info)

Headers == [dataSize : 0..2, published : BOOLEAN, running : BOOLEAN]

(* Nothing is kept of the last two once the daemon was killed: the object and   *)
(* its RUNNING outlive it.                                                     *)
SessionInv ==
  /\ SessionTypeOK /\ MapsItsSession
  /\ crashes = 0 => StopsLeaveNoTrace /\ ClientKnowsItsObject

-----------------------------------------------------------------------------
LEMMA SessionConstants ==
  /\ MaxObjects \in Nat /\ MaxCrashes \in Nat
  /\ None \notin Layouts /\ \A l \in Layouts : Size(l) \in 1 .. 2
BY SessionAssumption DEF SessionAssumption, Size

(* Updates of a header. *)
LEMMA FreshIsHeader == FreshHeader \in Headers /\ FreshHeader.dataSize = 0 /\ ~FreshHeader.running
BY DEF FreshHeader, Headers

LEMMA Stamped ==
  ASSUME NEW h \in Headers, NEW n \in 0 .. 2
  PROVE  /\ [h EXCEPT !.dataSize = n] \in Headers
         /\ [h EXCEPT !.dataSize = n].dataSize = n
         /\ [h EXCEPT !.dataSize = n].running = h.running
BY DEF Headers

LEMMA Flagged ==
  ASSUME NEW h \in Headers, NEW b \in BOOLEAN
  PROVE  /\ [h EXCEPT !.published = TRUE, !.running = b] \in Headers
         /\ [h EXCEPT !.published = TRUE, !.running = b].dataSize = h.dataSize
         /\ [h EXCEPT !.published = TRUE, !.running = b].running = b
BY DEF Headers

LEMMA SessionStarts == SessionInit => SessionInv
<1> SUFFICES ASSUME SessionInit PROVE SessionInv
  OBVIOUS
<1>1. headers \in [Objects -> Headers]  BY FreshIsHeader DEF SessionInit
<1>3. {mapped, name, object} \subseteq Objects \cup {NoObject}  BY DEF SessionInit
<1>4. length \in [Objects -> 0..2] /\ image \in [Objects -> Layouts \cup {None}]  BY DEF SessionInit
<1>5. created \in 0 .. MaxObjects /\ crashes \in 0 .. MaxCrashes  BY SessionConstants DEF SessionInit
<1>2. SessionTypeOK
  BY <1>1, <1>3, <1>4, <1>5, SessionConstants DEF SessionInit, SessionTypeOK, Headers
<1> QED
  BY <1>2, SessionConstants, FreshIsHeader
  DEF SessionInit, SessionInv, MapsItsSession, StopsLeaveNoTrace, ClientKnowsItsObject, Objects, NoObject

LEMMA OpenKeeps == ASSUME SessionInv, NEW l \in Layouts, OpenShm(l) PROVE SessionInv'
<1> USE SessionConstants DEF SessionInv, NoObject, OpenShm
<1>1. mapped' \in Objects /\ created' \in 0 .. MaxObjects  BY DEF SessionTypeOK, Objects
<1>2. SessionTypeOK'  BY <1>1 DEF SessionTypeOK, objects, client
<1>3. MapsItsSession'  BY <1>1 DEF MapsItsSession, Objects
<1>4. ASSUME crashes' = 0 PROVE StopsLeaveNoTrace' /\ ClientKnowsItsObject'
  <2>1. mapped = NoObject /\ name = NoObject /\ mapped' = created + 1 /\ created' = created + 1
        /\ UNCHANGED <<headers, image, client>> /\ created \in Nat
    BY <1>4 DEF MapsItsSession, StopsLeaveNoTrace, SessionTypeOK
  <2>2. headers[mapped'] = FreshHeader /\ \A o \in Objects : ~headers[o].running
    BY <1>1, <1>4, <2>1 DEF StopsLeaveNoTrace, Objects
  <2>3. \A o \in Objects : headers[o].dataSize # 0 => length'[o] = headers[o].dataSize
    BY <1>1, <1>4, <2>1, <2>2 DEF StopsLeaveNoTrace, FreshHeader, SessionTypeOK
  <2>5. length'[mapped'] = Size(l)  BY <1>1 DEF SessionTypeOK
  <2>4. StopsLeaveNoTrace'
    BY <1>1, <1>4, <2>1, <2>2, <2>3, <2>5 DEF StopsLeaveNoTrace, client, Objects
  <2> QED BY <1>4, <2>1, <2>4 DEF ClientKnowsItsObject, client
<1> QED BY <1>2, <1>3, <1>4

LEMMA OpenFailsKeeps == ASSUME SessionInv, NEW l \in Layouts, OpenFails(l) PROVE SessionInv'
<1> USE SessionConstants DEF SessionInv, NoObject, OpenFails
<1>1. SessionTypeOK'  BY DEF SessionTypeOK, daemon, client
<1>2. MapsItsSession'  BY DEF MapsItsSession, daemon
<1>3. crashes' # 0  BY DEF MapsItsSession, StopsLeaveNoTrace
<1> QED BY <1>1, <1>2, <1>3

LEMMA InitHeaderKeeps == ASSUME SessionInv, InitHeader PROVE SessionInv'
<1> USE SessionConstants DEF SessionInv, NoObject, InitHeader
<1>1. mapped \in Objects /\ layout \in Layouts  BY DEF SessionTypeOK, MapsItsSession
<1> DEFINE h == [FreshHeader EXCEPT !.dataSize = Size(layout)]
<1>2. Size(layout) \in 0 .. 2 /\ Size(layout) # 0  BY <1>1
<1>3. headers' = [headers EXCEPT ![mapped] = h]  OBVIOUS
<1>4. h \in Headers /\ h.dataSize = Size(layout) /\ ~h.running  BY <1>2, FreshIsHeader, Stamped
<1> HIDE DEF h
<1>8. headers'[mapped] = h /\ (\A o \in Objects \ {mapped} : headers'[o] = headers[o])
      /\ headers' \in [Objects -> Headers]
  BY <1>1, <1>3, <1>4 DEF SessionTypeOK, Headers
<1>5. SessionTypeOK'  BY <1>8 DEF SessionTypeOK, client, Headers
<1>6. MapsItsSession'  BY <1>1 DEF MapsItsSession
<1>7. ASSUME crashes' = 0 PROVE StopsLeaveNoTrace' /\ ClientKnowsItsObject'
  <2>1. mapped \in 1 .. created /\ created \in Nat
    BY <1>1, <1>7 DEF StopsLeaveNoTrace, Objects, SessionTypeOK
  <2>2. StopsLeaveNoTrace'
    <3>1. (up /\ name = mapped /\ mapped \in 0 .. created /\ object \in 0 .. created)'
      BY <1>1, <1>2, <1>4, <1>7, <1>8, <2>1 DEF StopsLeaveNoTrace, client, Objects
    <3>2. (\A o \in Objects : o > created => headers[o] = FreshHeader)'
      BY <1>1, <1>2, <1>4, <1>7, <1>8, <2>1 DEF StopsLeaveNoTrace, client, Objects
    <3>3. (\A o \in Objects : headers[o].running => o = mapped /\ image[o] = layout)'
      BY <1>1, <1>2, <1>4, <1>7, <1>8, <2>1 DEF StopsLeaveNoTrace, client, Objects
    <3>4. (\A o \in Objects : headers[o].dataSize # 0 => length[o] = headers[o].dataSize)'
      BY <1>1, <1>2, <1>4, <1>7, <1>8, <2>1 DEF StopsLeaveNoTrace, client, Objects
    <3>5. (phase # "starting" /\ (mapped # NoObject => headers[mapped].dataSize = Size(layout)))'
      BY <1>1, <1>2, <1>4, <1>7, <1>8, <2>1 DEF StopsLeaveNoTrace, client, Objects
    <3> QED BY <3>1, <3>2, <3>3, <3>4, <3>5 DEF StopsLeaveNoTrace
  <2>3. attached /\ valid => object # mapped
    BY <1>1, <1>7 DEF StopsLeaveNoTrace, ClientKnowsItsObject, FreshHeader, SessionTypeOK
  <2>4. ClientKnowsItsObject'
    BY <1>7, <1>8, <2>3 DEF ClientKnowsItsObject, client, SessionTypeOK
  <2> QED BY <2>2, <2>4
<1> QED BY <1>5, <1>6, <1>7

LEMMA PublishKeeps == ASSUME SessionInv, Publish PROVE SessionInv'
<1> USE SessionConstants DEF SessionInv, NoObject, Publish
<1>1. mapped \in Objects /\ layout \in Layouts  BY DEF SessionTypeOK, MapsItsSession
<1> DEFINE h == [headers[mapped] EXCEPT !.published = TRUE, !.running = TRUE]
<1>2. headers[mapped] \in Headers  BY <1>1 DEF SessionTypeOK, Headers
<1>3. headers' = [headers EXCEPT ![mapped] = h]  BY <1>1, <1>2 DEF SessionTypeOK, Headers
<1>4. h \in Headers /\ h.dataSize = headers[mapped].dataSize  BY <1>2, Flagged
<1> HIDE DEF h
<1>5. /\ headers' \in [Objects -> Headers]
      /\ \A o \in Objects : headers'[o].dataSize = headers[o].dataSize
      /\ \A o \in Objects \ {mapped} : headers'[o] = headers[o]
      /\ image'[mapped] = layout
  BY <1>1, <1>3, <1>4 DEF SessionTypeOK, Headers
<1>6. SessionTypeOK'  BY <1>1, <1>5 DEF SessionTypeOK, daemon, client, Headers
<1>7. MapsItsSession'  BY DEF MapsItsSession, daemon
<1>8. ASSUME crashes' = 0 PROVE StopsLeaveNoTrace' /\ ClientKnowsItsObject'
  <2>1. mapped \in 1 .. created /\ created \in Nat /\ phase = "idle"
    BY <1>1, <1>8 DEF StopsLeaveNoTrace, Objects, MapsItsSession, SessionTypeOK
  <2>2. StopsLeaveNoTrace'
    <3>1. (up /\ name = mapped /\ mapped \in 0 .. created /\ object \in 0 .. created)'
      BY <1>1, <1>5, <1>8, <2>1 DEF StopsLeaveNoTrace, daemon, client, Objects
    <3>2. (\A o \in Objects : o > created => headers[o] = FreshHeader)'
      BY <1>1, <1>5, <1>8, <2>1 DEF StopsLeaveNoTrace, daemon, client, Objects
    <3>3. (\A o \in Objects : headers[o].running => o = mapped /\ image[o] = layout)'
      BY <1>1, <1>5, <1>8, <2>1 DEF StopsLeaveNoTrace, daemon, client, Objects
    <3>4. (\A o \in Objects : headers[o].dataSize # 0 => length[o] = headers[o].dataSize)'
      BY <1>1, <1>5, <1>8, <2>1 DEF StopsLeaveNoTrace, daemon, client, Objects
    <3>5. (phase # "starting" /\ (mapped # NoObject => headers[mapped].dataSize = Size(layout)))'
      BY <1>1, <1>5, <1>8, <2>1 DEF StopsLeaveNoTrace, daemon, client, Objects
    <3> QED BY <3>1, <3>2, <3>3, <3>4, <3>5 DEF StopsLeaveNoTrace
  <2>3. ClientKnowsItsObject'
    BY <1>5, <1>8 DEF ClientKnowsItsObject, client, SessionTypeOK
  <2> QED BY <2>2, <2>3
<1> QED BY <1>6, <1>7, <1>8

LEMMA StopPublishKeeps == ASSUME SessionInv, StopPublish PROVE SessionInv'
<1> USE SessionConstants DEF SessionInv, NoObject, StopPublish
<1>1. mapped \in Objects /\ ~freeRunning  BY DEF SessionTypeOK, MapsItsSession
<1> DEFINE h == [headers[mapped] EXCEPT !.published = TRUE, !.running = FALSE]
<1>2. headers[mapped] \in Headers  BY <1>1 DEF SessionTypeOK, Headers
<1>3. headers' = [headers EXCEPT ![mapped] = h]  BY <1>1, <1>2 DEF SessionTypeOK, Headers
<1>4. h \in Headers /\ h.dataSize = headers[mapped].dataSize /\ ~h.running  BY <1>2, Flagged
<1> HIDE DEF h
<1>5. /\ headers' \in [Objects -> Headers]
      /\ \A o \in Objects : headers'[o].dataSize = headers[o].dataSize
      /\ \A o \in Objects \ {mapped} : headers'[o] = headers[o]
      /\ ~headers'[mapped].running
  BY <1>1, <1>3, <1>4 DEF SessionTypeOK, Headers
<1>6. SessionTypeOK'  BY <1>1, <1>5 DEF SessionTypeOK, client, Headers
<1>7. MapsItsSession'  BY <1>1 DEF MapsItsSession
<1>8. ASSUME crashes' = 0 PROVE StopsLeaveNoTrace' /\ ClientKnowsItsObject'
  <2>1. mapped \in 1 .. created /\ created \in Nat
    BY <1>1, <1>8 DEF StopsLeaveNoTrace, Objects, SessionTypeOK
  <2>2. StopsLeaveNoTrace'
    <3>1. (up /\ name = mapped /\ mapped \in 0 .. created /\ object \in 0 .. created)'
      BY <1>1, <1>5, <1>8, <2>1 DEF StopsLeaveNoTrace, client, Objects
    <3>2. (\A o \in Objects : o > created => headers[o] = FreshHeader)'
      BY <1>1, <1>5, <1>8, <2>1 DEF StopsLeaveNoTrace, client, Objects
    <3>3. (\A o \in Objects : headers[o].running => o = mapped /\ image[o] = layout)'
      BY <1>1, <1>5, <1>8, <2>1 DEF StopsLeaveNoTrace, client, Objects
    <3>4. (\A o \in Objects : headers[o].dataSize # 0 => length[o] = headers[o].dataSize)'
      BY <1>1, <1>5, <1>8, <2>1 DEF StopsLeaveNoTrace, client, Objects
    <3>5. (phase # "starting" /\ (mapped # NoObject => headers[mapped].dataSize = Size(layout)))'
      BY <1>1, <1>5, <1>8, <2>1 DEF StopsLeaveNoTrace, client, Objects
    <3> QED BY <3>1, <3>2, <3>3, <3>4, <3>5 DEF StopsLeaveNoTrace
  <2>3. ClientKnowsItsObject'
    BY <1>5, <1>8 DEF ClientKnowsItsObject, client, SessionTypeOK
  <2> QED BY <2>2, <2>3
<1> QED BY <1>6, <1>7, <1>8

LEMMA AttachKeeps == ASSUME SessionInv, Attach PROVE SessionInv'
<1> USE SessionConstants DEF SessionInv, NoObject, Attach
<1>1. SessionTypeOK'  BY DEF SessionTypeOK, daemon, objects
<1>2. MapsItsSession'  BY DEF MapsItsSession, daemon
<1>3. ASSUME crashes' = 0 PROVE StopsLeaveNoTrace' /\ ClientKnowsItsObject'
  <2>1. object' \in {object, name}  OBVIOUS
  <2>2. StopsLeaveNoTrace'  BY <1>3, <2>1 DEF StopsLeaveNoTrace, daemon, objects
  <2>3. ClientKnowsItsObject'  BY <1>3 DEF ClientKnowsItsObject, objects
  <2> QED BY <2>2, <2>3
<1> QED BY <1>1, <1>2, <1>3

(* The others change no object. *)
LEMMA OthersKeep ==
  ASSUME SessionInv, StopSession \/ Crash \/ Restart \/ Fetch \/ disconnect \/ UNCHANGED sessionVars
  PROVE  SessionInv'
<1> USE SessionConstants DEF SessionInv, NoObject
<1>1. CASE StopSession
  BY <1>1 DEF StopSession, SessionTypeOK, MapsItsSession, StopsLeaveNoTrace, ClientKnowsItsObject,
     objects, client
<1>2. CASE Crash
  <2>1. {mapped', name', object'} \subseteq Objects \cup {NoObject}
    BY <1>2 DEF Crash, SessionTypeOK, client
  <2>2. crashes' # 0 /\ crashes' \in 0 .. MaxCrashes  BY <1>2 DEF Crash, SessionTypeOK
  <2>3. SessionTypeOK'  BY <1>2, <2>1, <2>2 DEF Crash, SessionTypeOK, objects, client
  <2> QED BY <1>2, <2>2, <2>3 DEF Crash, MapsItsSession
<1>3. CASE Restart
  <2>1. crashes' # 0  BY <1>3 DEF Restart, StopsLeaveNoTrace
  <2> QED BY <1>3, <2>1 DEF Restart, SessionTypeOK, MapsItsSession, objects, client
<1>4. CASE Fetch
  BY <1>4 DEF Fetch, SessionTypeOK, MapsItsSession, StopsLeaveNoTrace, ClientKnowsItsObject, daemon,
     objects
<1>5. CASE disconnect
  <2>1. {mapped', name', object'} \subseteq Objects \cup {NoObject}
    BY <1>5 DEF disconnect, SessionTypeOK, daemon
  <2>2. SessionTypeOK'  BY <1>5, <2>1 DEF disconnect, SessionTypeOK, daemon, objects
  <2>3. crashes = 0 => object' \in 0 .. created  BY <1>5 DEF disconnect, SessionTypeOK, StopsLeaveNoTrace
  <2> QED BY <1>5, <2>2, <2>3
          DEF disconnect, MapsItsSession, StopsLeaveNoTrace, ClientKnowsItsObject, daemon, objects
<1>6. CASE UNCHANGED sessionVars
  BY <1>6 DEF sessionVars, SessionTypeOK, MapsItsSession, StopsLeaveNoTrace, ClientKnowsItsObject, daemon,
     objects, client
<1> QED BY <1>1, <1>2, <1>3, <1>4, <1>5, <1>6

(* The invariant holds over any sessions, kills, attaches and disconnects.      *)
THEOREM SessionInvariant == SessionSpec => []SessionInv
<1>1. ASSUME SessionInv, [SessionNext]_sessionVars PROVE SessionInv'
  BY <1>1, OpenKeeps, OpenFailsKeeps, InitHeaderKeeps, PublishKeeps, StopPublishKeeps, AttachKeeps,
     OthersKeep DEF SessionNext
<1> QED BY SessionStarts, <1>1, PTL DEF SessionSpec

(* The type invariant of the sessions, for any layouts and bounds.             *)
THEOREM SessionTypeCorrect == SessionSpec => []SessionTypeOK
BY SessionInvariant, PTL DEF SessionInv

(* shm_open reuses what a killed daemon left under the name, so the name leads *)
(* to the object the daemon writes, and an attach to the session going on.     *)
THEOREM NamesLeadToSessions == SessionSpec => []NameLeadsToSession
<1>1. SessionInv => NameLeadsToSession  BY DEF SessionInv, MapsItsSession, NameLeadsToSession
<1> QED BY <1>1, SessionInvariant, PTL

(* stop() clears RUNNING before the object is unlinked: where no daemon was     *)
(* killed, a client that sees RUNNING is served by the session going on.       *)
THEOREM StoppedSessionsAreOver == SessionSpec => []RunningIsLiveAfterStops
<1>1. ASSUME SessionInv, crashes = 0, SeesRunning PROVE RunningIsLive
  <2>1. object \in Objects
    BY <1>1 DEF SessionInv, SeesRunning, ClientKnowsItsObject, SessionTypeOK, NoObject
  <2>2. up /\ object = mapped /\ phase # "starting"
    BY <1>1, <2>1 DEF SessionInv, StopsLeaveNoTrace, SeesRunning, FreshHeader
  <2> QED BY <1>1, <2>1, <2>2 DEF SessionInv, MapsItsSession, RunningIsLive, SessionTypeOK, Objects,
           NoObject
<1>2. SessionInv => RunningIsLiveAfterStops
  BY <1>1 DEF RunningIsLiveAfterStops, RunningIsLive
<1> QED BY <1>2, SessionInvariant, PTL

(* ... and looks its offsets up in the layout that session writes, if layouts  *)
(* of one size are the same: data_size is all nekoecat_client_attach compares. *)
THEOREM LayoutsAgree ==
  ASSUME SizesTell PROVE SessionSpec => []LayoutAgreesAfterStops
<1>1. ASSUME SessionInv, crashes = 0, SeesRunning PROVE image[object] = info
  <2>1. object \in Objects /\ info \in Layouts /\ headers[object].dataSize = Size(info)
    BY <1>1 DEF SessionInv, SeesRunning, ClientKnowsItsObject, SessionTypeOK, NoObject
  <2>2. object = mapped /\ image[object] = layout /\ phase # "starting" /\ object # NoObject
    BY <1>1, <2>1 DEF SessionInv, StopsLeaveNoTrace, SeesRunning, FreshHeader, Objects, NoObject
  <2>3. layout \in Layouts /\ Size(layout) = Size(info)
    BY <1>1, <2>1, <2>2 DEF SessionInv, StopsLeaveNoTrace, MapsItsSession, SessionTypeOK
  <2> QED BY <2>1, <2>2, <2>3 DEF SizesTell
<1>2. SessionInv => LayoutAgreesAfterStops
  BY <1>1 DEF LayoutAgreesAfterStops, LayoutAgrees
<1> QED BY <1>2, SessionInvariant, PTL

(* Where no daemon was killed no mapping reaches past the end of its object:   *)
(* ftruncate shortens an object only under a name that was left behind.        *)
THEOREM MappingsFit == SessionSpec => []MappingFitsAfterStops
<1>1. ASSUME SessionInv, crashes = 0, attached, valid PROVE Size(info) <= length[object]
  <2>1. object \in Objects /\ info \in Layouts /\ headers[object].dataSize = Size(info)
    BY <1>1 DEF SessionInv, ClientKnowsItsObject, SessionTypeOK, NoObject
  <2> QED BY <1>1, <2>1, SessionConstants DEF SessionInv, StopsLeaveNoTrace
<1>2. SessionInv => MappingFitsAfterStops
  BY <1>1 DEF MappingFitsAfterStops, MappingFits
<1> QED BY <1>2, SessionInvariant, PTL
=============================================================================

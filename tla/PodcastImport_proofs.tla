------------------------ MODULE PodcastImport_proofs ------------------------
(***************************************************************************)
(* Proofs about PodcastImport, for any finite set of podcast names and any *)
(* number of requests and uploads.                                         *)
(***************************************************************************)
EXTENDS PodcastImport, FiniteSetTheorems, TLAPS

-----------------------------------------------------------------------------
(* Counting.                                                                *)

Names == Cardinality(Podcasts)

\* A set of podcasts is finite and never larger than all of them.
LEMMA PodcastsFinite ==
  ASSUME NEW S \in SUBSET Podcasts
  PROVE  IsFiniteSet(S) /\ Cardinality(S) \in 0..Names /\ Names \in Nat
  <1>1. IsFiniteSet(S) /\ Cardinality(S) <= Names
    BY UploadsAssumption, FS_Subset DEF Names
  <1> QED
    BY <1>1, UploadsAssumption, FS_CardinalityType DEF Names

\* scan_uploads lists each file once.
LEMMA ListingLists ==
  ASSUME NEW S \in SUBSET Podcasts
  PROVE  LET q == SetToSeq(S)
         IN /\ q \in Seq(Podcasts) /\ Len(q) = Cardinality(S)
            /\ \A i \in DOMAIN q : q[i] \in S
            /\ \A i, j \in DOMAIN q : i # j => q[i] # q[j]
  <1> DEFINE n == Cardinality(S)
             q == SetToSeq(S)
  <1>1. n \in Nat /\ ExistsBijection(1..n, S)
    BY PodcastsFinite, FS_CardinalityType
  <1>2. \E f \in [1..n -> S] : IsInjective(f)
    BY <1>1 DEF ExistsBijection, Bijection, Injection
  <1>3. q \in [1..n -> S] /\ IsInjective(q)
    BY <1>2 DEF SetToSeq
  <1>4. \A i, j \in DOMAIN q : q[i] = q[j] => i = j
    BY <1>3 DEF IsInjective
  <1>5. q \in Seq(Podcasts) /\ Len(q) = n
    <2>1. q \in [1..n -> Podcasts]
      BY <1>3
    <2> QED
      BY <1>1, <2>1
  <1> QED
    BY <1>3, <1>4, <1>5

-----------------------------------------------------------------------------
(* The inductive invariant.                                                 *)

\* The files of the batch, as far as they have not been dealt with.
Sourced(i) == \/ worker.pc \in {"reset", "next", "open", "promote", "remove"}
              \/ worker.pc = "count" /\ (i # 1 \/ ~worker.ok)

\* Each file of a batch is in it once, is not among the failures yet, and lies
\* in the upload directory until its own turn has come to be removed.
BatchKept ==
  /\ Len(worker.files) <= Names
  /\ \A i, j \in DOMAIN worker.files : i # j => worker.files[i] # worker.files[j]
  /\ worker.pc \in {"next", "open", "promote", "remove", "count"} =>
       \A i \in DOMAIN worker.files : worker.files[i] \notin failures
  /\ \A i \in DOMAIN worker.files : Sourced(i) => upload[worker.files[i]] # None
  /\ worker.pc \in {"wait", "list"} => worker.files = <<>>

\* The card says "active" while the worker holds files, and only then.
ActiveKept ==
  /\ worker.pc \in {"wait", "list", "reset"} => ~status.active
  /\ worker.pc \in {"next", "open", "promote", "remove", "count"} /\ worker.files # <<>>
       => status.active
  /\ worker.pc \in {"open", "promote", "remove", "count"} => worker.files # <<>>
  /\ worker.pc # "count" => ~worker.ok

IInv == ImportInv /\ BatchKept /\ ActiveKept

Status == [active : BOOLEAN, total : 0..Names, waiting : 0..Names,
           processed : 0..Names, failed : 0..Names]
Worker == [pc : {"wait", "list", "reset", "next", "open", "promote", "remove", "count"},
           files : Seq(Podcasts), source : 0..MaxUploads, ok : BOOLEAN]

LEMMA Typed ==
  ASSUME IInv
  PROVE  /\ upload \in [Podcasts -> 0..MaxUploads] /\ library \in [Podcasts -> 0..MaxUploads]
         /\ lastUpload \in 0..MaxUploads /\ status \in Status /\ worker \in Worker
         /\ failures \subseteq Podcasts /\ MaxUploads \in Nat /\ Names \in Nat
         /\ request \in [Requests -> [pc : {"idle", "scan", "trigger"}, start : BOOLEAN,
                                      found : 0..Names]]
  <1>1. Names \in Nat
    BY PodcastsFinite
  <1> QED
    BY <1>1, UploadsAssumption DEF IInv, ImportInv, TypeOK, Status, Worker, Names

LEMMA RestingTyped == /\ Resting \in Worker /\ Resting.files = <<>> /\ ~Resting.ok
                      /\ Resting.pc = "wait" /\ Resting.source = None
                      /\ None \in 0..MaxUploads
  <1>1. None \in 0..MaxUploads /\ <<>> \in Seq(Podcasts)
    BY UploadsAssumption DEF None
  <1> QED
    BY <1>1 DEF Resting, Worker

LEMMA IdleTyped == /\ Idle \in Status /\ ~Idle.active /\ Idle.total = 0 /\ Idle.waiting = 0
                   /\ Idle.processed = 0 /\ Idle.failed = 0
  <1>1. 0 \in 0..Names
    BY PodcastsFinite
  <1> QED
    BY <1>1 DEF Idle, Status

\* While the worker holds a file, the file is the first of the batch.
LEMMA FileHeld ==
  ASSUME IInv, worker.pc \in {"open", "promote", "remove", "count"}
  PROVE  /\ File = worker.files[1] /\ File \in Podcasts /\ 1 \in DOMAIN worker.files
         /\ Len(worker.files) \in Nat \ {0} /\ status.active
         /\ File \notin failures
  <1>1. worker.files \in Seq(Podcasts) /\ worker.files # <<>>
    BY Typed DEF IInv, ActiveKept, Worker
  <1>2. 1 \in DOMAIN worker.files /\ Len(worker.files) \in Nat \ {0} /\ Head(worker.files) = worker.files[1]
        /\ worker.files[1] \in Podcasts
    BY <1>1
  <1> QED
    BY <1>1, <1>2 DEF File, IInv, ActiveKept, BatchKept

LEMMA InitHolds == Init => IInv
  <1> SUFFICES ASSUME Init PROVE IInv
    OBVIOUS
  <1>1. Cardinality({}) = 0
    BY FS_EmptySet
  <1>2. TypeOK
    <2>1. request \in [Requests -> [pc : {"idle", "scan", "trigger"}, start : BOOLEAN,
                                    found : 0..Names]]
      BY PodcastsFinite DEF Init, Quiet
    <2> QED
      BY <2>1, RestingTyped, IdleTyped, UploadsAssumption
         DEF Init, TypeOK, None, Status, Worker, Names
  <1>3. CountsAddUp /\ FailuresRemain
    BY <1>1, RestingTyped, IdleTyped DEF Init, CountsAddUp, FailuresRemain
  <1>4. BatchKept /\ ActiveKept
    BY RestingTyped, IdleTyped, PodcastsFinite DEF Init, BatchKept, ActiveKept
  <1> QED
    BY <1>2, <1>3, <1>4 DEF IInv, ImportInv

-----------------------------------------------------------------------------
(* Uploads, deletions and requests.                                         *)

LEMMA OutsideKeeps ==
  ASSUME IInv, \E p \in Podcasts : Upload(p) \/ Delete(p)
  PROVE  IInv'
  <1> USE DEF IInv, ImportInv
  <1>0. /\ upload \in [Podcasts -> 0..MaxUploads] /\ library \in [Podcasts -> 0..MaxUploads]
        /\ lastUpload \in 0..MaxUploads /\ MaxUploads \in Nat
    BY Typed
  <1>1. UNCHANGED <<status, failures, triggered, worker, request, phase>>
    BY DEF Upload, Delete, KeepImporter
  <1>2. /\ upload' \in [Podcasts -> 0..MaxUploads] /\ library' \in [Podcasts -> 0..MaxUploads]
        /\ lastUpload' \in 0..MaxUploads
        /\ \A p \in Podcasts : upload[p] # None => upload'[p] # None
    <2>1. CASE \E p \in Podcasts : Upload(p)
      <3>1. lastUpload + 1 \in 0..MaxUploads /\ lastUpload + 1 # None
        BY <1>0, <2>1 DEF Upload, None
      <3> QED
        BY <1>0, <2>1, <3>1 DEF Upload
    <2>2. CASE \E p \in Podcasts : Delete(p)
      BY <1>0, <2>2, RestingTyped DEF Delete
    <2> QED
      BY <2>1, <2>2
  <1>3. TypeOK'
    BY <1>1, <1>2 DEF TypeOK
  <1>4. CountsAddUp' /\ FailuresRemain' /\ ActiveKept'
    BY <1>1, <1>2, Typed DEF CountsAddUp, FailuresRemain, ActiveKept
  <1>5. BatchKept'
    <2>1. \A i \in DOMAIN worker.files : worker.files[i] \in Podcasts
      BY Typed DEF Worker
    <2> QED
      BY <1>1, <1>2, <2>1 DEF BatchKept, Sourced
  <1> QED
    BY <1>3, <1>4, <1>5

LEMMA RequestsKeep ==
  ASSUME IInv, NEW r \in Requests, Scan(r) \/ Trigger(r) \/ \E start \in BOOLEAN : Begin(r, start)
  PROVE  IInv'
  <1> USE DEF IInv, ImportInv
  <1> DEFINE Req == [pc : {"idle", "scan", "trigger"}, start : BOOLEAN, found : 0..Names]
  <1>0. request \in [Requests -> Req] /\ request[r] \in Req /\ status \in Status /\ Names \in Nat
    BY Typed
  <1>1. UNCHANGED <<upload, library, lastUpload, worker, phase>>
    BY DEF Scan, Trigger, Begin, KeepImporter
  <1>2. request' \in [Requests -> Req]
    <2>1. Quiet \in Req /\ Cardinality(Listed) \in 0..Names
      BY PodcastsFinite DEF Quiet, Listed
    <2>2. CASE Scan(r)
      <3>1. [request[r] EXCEPT !.pc = "trigger"] \in Req
        BY <1>0
      <3> QED
        BY <1>0, <2>1, <2>2, <3>1 DEF Scan
    <2>3. CASE Trigger(r)
      BY <1>0, <2>1, <2>3 DEF Trigger
    <2>4. CASE \E start \in BOOLEAN : Begin(r, start)
      BY <1>0, <2>1, <2>4 DEF Begin
    <2> QED
      BY <2>2, <2>3, <2>4
  <1>3. triggered' \in BOOLEAN
    BY DEF TypeOK, Scan, Trigger, Begin, KeepImporter
  <1>4. CASE UNCHANGED <<status, failures>>
    <2>1. TypeOK'
      BY <1>1, <1>2, <1>3, <1>4 DEF TypeOK, Names
    <2> QED
      BY <1>1, <1>4, <2>1 DEF CountsAddUp, FailuresRemain, ActiveKept, BatchKept, Sourced
  <1>5. CASE ~UNCHANGED <<status, failures>>
    <2>1. Scan(r) /\ ~status.active
      BY <1>5 DEF Scan, Trigger, Begin, KeepImporter
    <2> DEFINE n == request[r].found
    <2>2. /\ status' = [Idle EXCEPT !.waiting = n, !.total = n] /\ failures' = {} /\ n \in 0..Names
      BY <1>0, <2>1 DEF Scan
    <2>3. /\ status' \in Status /\ ~status'.active /\ status'.waiting = n /\ status'.total = n
          /\ status'.processed = 0 /\ status'.failed = 0
      BY <2>2, IdleTyped DEF Status
    <2>4. TypeOK'
      BY <1>1, <1>2, <1>3, <2>2, <2>3 DEF TypeOK, Names, Status
    <2>5. CountsAddUp'
      <3>1. Cardinality({}) = 0
        BY FS_EmptySet
      <3>2. worker.pc \notin {"open", "promote", "remove", "count"}
        BY <2>1 DEF CountsAddUp
      <3> QED
        BY <1>1, <2>2, <2>3, <3>1, <3>2 DEF CountsAddUp
    <2> QED
      BY <1>1, <2>1, <2>2, <2>3, <2>4, <2>5 DEF FailuresRemain, ActiveKept, BatchKept, Sourced
  <1> QED
    BY <1>4, <1>5

LEMMA LifeKeeps == ASSUME IInv, Life PROVE IInv'
  <1> USE DEF IInv, ImportInv
  <1>1. CASE StopDaemon \/ StopImport \/ Start
    <2>1. /\ UNCHANGED <<upload, library, lastUpload, status, failures, triggered, worker, request>>
          /\ phase' \in {"up", "stopping", "joining", "down"}
      BY <1>1 DEF StopDaemon, StopImport, Start
    <2> QED
      BY <2>1 DEF TypeOK, CountsAddUp, FailuresRemain, ActiveKept, BatchKept, Sourced
  <1>2. CASE Exit \/ Crash
    <2>1. Gone
      BY <1>2 DEF Exit, Crash
    <2>2. /\ phase' = "down" /\ status' = Idle /\ failures' = {} /\ triggered' = FALSE
          /\ worker' = Resting /\ request' = [r \in Requests |-> Quiet]
          /\ UNCHANGED <<upload, library, lastUpload>>
      BY <2>1 DEF Gone, Idle, Resting, Quiet, None
    <2>3. TypeOK'
      <3>1. request' \in [Requests -> [pc : {"idle", "scan", "trigger"}, start : BOOLEAN,
                                       found : 0..Names]]
        BY <2>2, PodcastsFinite DEF Quiet
      <3> QED
        BY <2>2, <3>1, RestingTyped, IdleTyped DEF TypeOK, Status, Worker, Names
    <2>4. CountsAddUp' /\ FailuresRemain'
      BY <2>2, RestingTyped, IdleTyped, FS_EmptySet DEF CountsAddUp, FailuresRemain
    <2>5. BatchKept' /\ ActiveKept'
      <3>1. Names \in Nat /\ Len(<<>>) = 0 /\ DOMAIN <<>> = {} /\ worker'.files = <<>>
        BY <2>2, RestingTyped, Typed
      <3>2. Names' = Names
        BY DEF Names
      <3>3. BatchKept'
        BY <2>2, <3>1, <3>2, RestingTyped DEF BatchKept
      <3>4. ActiveKept'
        BY <2>2, <3>1, RestingTyped, IdleTyped DEF ActiveKept
      <3> QED
        BY <3>3, <3>4
    <2> QED
      BY <2>3, <2>4, <2>5
  <1> QED
    BY <1>1, <1>2 DEF Life

-----------------------------------------------------------------------------
(* The worker.                                                              *)

\* Steps inside a file: only the place, the source and the outcome change.
LEMMA StagesKeep ==
  ASSUME IInv, Wake \/ NextFile \/ OpenSource \/ Promote \/ FileFails
  PROVE  IInv'
  <1> USE DEF IInv, ImportInv
  <1>0. /\ upload \in [Podcasts -> 0..MaxUploads] /\ library \in [Podcasts -> 0..MaxUploads]
        /\ worker \in Worker
    BY Typed
  <1>1. /\ UNCHANGED <<upload, lastUpload, status, failures, request, phase>>
        /\ triggered' \in BOOLEAN
    BY DEF Wake, NextFile, OpenSource, Promote, FileFails, KeepRequests, TypeOK
  <1>2. /\ worker' \in Worker /\ worker'.files = worker.files /\ ~worker'.ok
        /\ \/ worker.pc = "wait" /\ worker'.pc = "list"
           \/ /\ worker.pc \in {"next", "open", "promote", "remove"}
              /\ worker'.pc \in {"open", "promote", "remove", "count"} /\ worker.files # <<>>
    <2>1. ~worker.ok \/ worker.pc = "count"
      BY DEF ActiveKept
    <2>2. CASE Wake \/ NextFile
      BY <1>0, <2>1, <2>2 DEF Wake, NextFile, Go, Worker
    <2>3. CASE OpenSource
      <3>1. upload[File] \in 0..MaxUploads /\ worker.files # <<>>
        BY <1>0, <2>3, FileHeld DEF OpenSource, ActiveKept
      <3> QED
        BY <1>0, <2>1, <2>3, <3>1 DEF OpenSource, Worker
    <2>4. CASE Promote \/ FileFails
      <3>1. worker.files # <<>>
        BY <2>4 DEF Promote, FileFails, ActiveKept
      <3> QED
        BY <1>0, <2>1, <2>4, <3>1 DEF Promote, FileFails, Go, Worker
    <2> QED
      BY <2>2, <2>3, <2>4
  <1>3. library' \in [Podcasts -> 0..MaxUploads]
    <2>1. CASE Promote
      <3>1. worker.source \in 0..MaxUploads
        BY <1>0 DEF Worker
      <3> QED
        BY <1>0, <2>1, <3>1 DEF Promote
    <2>2. CASE ~Promote
      BY <1>0, <2>2 DEF Wake, NextFile, OpenSource, FileFails
    <2> QED
      BY <2>1, <2>2
  <1>4. TypeOK'
    BY <1>1, <1>2, <1>3 DEF TypeOK, Worker
  <1>5. CountsAddUp' /\ FailuresRemain'
    BY <1>1, <1>2 DEF CountsAddUp, FailuresRemain, ActiveKept
  <1>6. BatchKept' /\ ActiveKept'
    BY <1>1, <1>2 DEF BatchKept, ActiveKept, Sourced
  <1> QED
    BY <1>4, <1>5, <1>6

LEMMA ListUploadsKeeps == ASSUME IInv, ListUploads PROVE IInv'
  <1> USE DEF IInv, ImportInv
  <1>0. worker \in Worker /\ Listed \in SUBSET Podcasts /\ Names \in Nat
    BY Typed DEF Listed
  <1> DEFINE q == SetToSeq(Listed)
  <1>1. /\ UNCHANGED <<upload, library, lastUpload, status, failures, triggered, request, phase>>
        /\ worker' = [worker EXCEPT !.pc = "reset", !.files = q] /\ worker.pc = "list"
    BY DEF ListUploads, KeepRequests
  <1>2. /\ q \in Seq(Podcasts) /\ Len(q) <= Names
        /\ \A i \in DOMAIN q : upload[q[i]] # None
        /\ \A i, j \in DOMAIN q : i # j => q[i] # q[j]
    <2>1. /\ q \in Seq(Podcasts) /\ Len(q) = Cardinality(Listed)
          /\ \A i \in DOMAIN q : q[i] \in Listed
          /\ \A i, j \in DOMAIN q : i # j => q[i] # q[j]
      BY <1>0, ListingLists
    <2>2. Cardinality(Listed) <= Names
      BY <1>0, PodcastsFinite
    <2>3. \A i \in DOMAIN q : upload[q[i]] # None
      <3> HIDE DEF q
      <3>1. \A p \in Listed : upload[p] # None
        BY DEF Listed
      <3> QED
        BY <2>1, <3>1
    <2> QED
      BY <2>1, <2>2, <2>3
  <1>3. worker' \in Worker /\ worker'.pc = "reset" /\ worker'.files = q /\ ~worker'.ok
    BY <1>0, <1>1, <1>2 DEF Worker, ActiveKept
  <1>4. TypeOK'
    BY <1>1, <1>3 DEF TypeOK, Worker
  <1>5. CountsAddUp' /\ FailuresRemain' /\ ActiveKept'
    BY <1>1, <1>3 DEF CountsAddUp, FailuresRemain, ActiveKept
  <1>6. BatchKept'
    BY <1>1, <1>2, <1>3 DEF BatchKept, Names
  <1> QED
    BY <1>4, <1>5, <1>6

LEMMA StartBatchKeeps == ASSUME IInv, StartBatch PROVE IInv'
  <1> USE DEF IInv, ImportInv
  <1> DEFINE n == Len(worker.files)
  <1>0. worker \in Worker /\ worker.files \in Seq(Podcasts) /\ n \in 0..Names /\ Names \in Nat
    BY Typed DEF Worker, BatchKept
  <1>1. /\ UNCHANGED <<upload, library, lastUpload, triggered, request, phase>>
        /\ worker' = [worker EXCEPT !.pc = "next"] /\ worker.pc = "reset"
        /\ status' = [Idle EXCEPT !.active = n > 0, !.total = n, !.waiting = n]
        /\ failures' = {}
    BY DEF StartBatch, KeepRequests, Go
  <1>2. worker' \in Worker /\ worker'.pc = "next" /\ worker'.files = worker.files
        /\ worker'.ok = worker.ok
    BY <1>0, <1>1 DEF Worker
  <1>3. /\ status' \in Status /\ status'.active = (n > 0) /\ status'.waiting = n
        /\ status'.total = n /\ status'.processed = 0 /\ status'.failed = 0
    <2>1. (n > 0) \in BOOLEAN
      OBVIOUS
    <2> QED
      BY <1>0, <1>1, <2>1, IdleTyped DEF Status
  <1>4. TypeOK'
    BY <1>1, <1>2, <1>3 DEF TypeOK, Worker, Status, Names
  <1>5. CountsAddUp' /\ FailuresRemain'
    BY <1>0, <1>1, <1>2, <1>3, FS_EmptySet DEF CountsAddUp, FailuresRemain
  <1>6. ActiveKept'
    <2>1. worker.files # <<>> => n > 0
      BY <1>0
    <2>2. ~worker.ok
      BY <1>1 DEF ActiveKept
    <2> QED
      BY <1>2, <1>3, <2>1, <2>2 DEF ActiveKept
  <1>7. BatchKept'
    BY <1>1, <1>2 DEF BatchKept, Sourced
  <1> QED
    BY <1>4, <1>5, <1>6, <1>7

LEMMA RemoveSourceKeeps == ASSUME IInv, RemoveSource PROVE IInv'
  <1> USE DEF IInv, ImportInv
  <1>0. upload \in [Podcasts -> 0..MaxUploads] /\ worker \in Worker
        /\ \A i \in DOMAIN worker.files : worker.files[i] \in Podcasts
    BY Typed DEF Worker
  <1>1. /\ UNCHANGED <<library, lastUpload, status, failures, triggered, request, phase>>
        /\ upload' = [upload EXCEPT ![File] = None] /\ worker.pc = "remove"
        /\ worker' = [worker EXCEPT !.pc = "count", !.ok = TRUE]
    BY DEF RemoveSource, KeepRequests
  <1>2. /\ File = worker.files[1] /\ File \in Podcasts /\ 1 \in DOMAIN worker.files
        /\ File \notin failures /\ status.active /\ worker.files # <<>>
    BY <1>1, FileHeld DEF ActiveKept
  <1>3. worker' \in Worker /\ worker'.pc = "count" /\ worker'.files = worker.files /\ worker'.ok
    BY <1>0, <1>1 DEF Worker
  <1>4. upload' \in [Podcasts -> 0..MaxUploads]
        /\ \A p \in Podcasts : p # File => upload'[p] = upload[p]
    BY <1>0, <1>1, <1>2, RestingTyped
  <1>5. TypeOK'
    BY <1>1, <1>3, <1>4 DEF TypeOK, Worker
  <1>6. CountsAddUp' /\ ActiveKept'
    BY <1>1, <1>2, <1>3 DEF CountsAddUp, ActiveKept
  <1>7. FailuresRemain'
    BY <1>1, <1>2, <1>4 DEF FailuresRemain, TypeOK
  <1>8. BatchKept'
    <2>1. \A i \in DOMAIN worker.files : i # 1 => upload'[worker.files[i]] = upload[worker.files[i]]
      BY <1>0, <1>2, <1>4 DEF BatchKept
    <2> QED
      BY <1>1, <1>3, <2>1 DEF BatchKept, Sourced
  <1> QED
    BY <1>5, <1>6, <1>7, <1>8

\* What is left of the batch after its first file.
LEMMA TailProperties ==
  ASSUME NEW q \in Seq(Podcasts), q # <<>>
  PROVE  /\ Tail(q) \in Seq(Podcasts) /\ Len(Tail(q)) = Len(q) - 1
         /\ \A i \in DOMAIN Tail(q) : i + 1 \in DOMAIN q /\ i + 1 # 1 /\ Tail(q)[i] = q[i + 1]
         /\ DOMAIN Tail(q) \subseteq Nat
  OBVIOUS

\* A file moves from those that wait to those that are done or lost.
LEMMA OneFileCounted ==
  ASSUME NEW n \in Nat, NEW w \in 1..n, NEW d \in 0..n, NEW f \in 0..n, NEW t \in 0..n,
         w + d + f = t
  PROVE  /\ d + 1 \in 0..n /\ f + 1 \in 0..n /\ w - 1 \in 0..n
         /\ (w - 1) + (d + 1) + f = t /\ (w - 1) + d + (f + 1) = t
  OBVIOUS

LEMMA CountKeeps == ASSUME IInv, Count PROVE IInv'
  <1> USE DEF IInv, ImportInv
  <1> DEFINE q == worker.files
             t == Tail(q)
  <1>0. worker \in Worker /\ status \in Status /\ Names \in Nat /\ q \in Seq(Podcasts)
        /\ failures \in SUBSET Podcasts
    BY Typed DEF Worker
  <1>1. /\ UNCHANGED <<upload, library, lastUpload, triggered, request, phase>>
        /\ worker.pc = "count"
        /\ status' = [status EXCEPT !.waiting = IF @ > 0 THEN @ - 1 ELSE 0,
                                    !.processed = IF worker.ok THEN @ + 1 ELSE @,
                                    !.failed = IF worker.ok THEN @ ELSE @ + 1]
        /\ failures' = (IF worker.ok THEN failures ELSE failures \cup {File})
        /\ worker' = [Resting EXCEPT !.pc = "next", !.files = t]
    BY DEF Count, KeepRequests
  <1>2. /\ File = q[1] /\ File \in Podcasts /\ 1 \in DOMAIN q /\ q # <<>>
        /\ File \notin failures /\ status.active /\ Len(q) \in Nat \ {0}
        /\ status.waiting = Len(q)
    BY <1>1, FileHeld DEF ActiveKept, CountsAddUp
  <1>3. /\ t \in Seq(Podcasts) /\ Len(t) = Len(q) - 1
        /\ \A i \in DOMAIN t : i + 1 \in DOMAIN q /\ i + 1 # 1 /\ t[i] = q[i + 1]
        /\ DOMAIN t \subseteq Nat
    BY <1>0, <1>2, TailProperties
  <1>4. worker' \in Worker /\ worker'.pc = "next" /\ worker'.files = t /\ ~worker'.ok
    BY <1>1, <1>3, RestingTyped DEF Worker
  <1>5. /\ status.waiting \in 1..Names /\ status.processed \in 0..Names /\ status.failed \in 0..Names
        /\ status.total \in 0..Names
        /\ status.waiting + status.processed + status.failed = status.total
    BY <1>0, <1>2 DEF Status, CountsAddUp
  <1> DEFINE done == IF worker.ok THEN status.processed + 1 ELSE status.processed
             lost == IF worker.ok THEN status.failed ELSE status.failed + 1
  <1>6. done \in 0..Names /\ lost \in 0..Names /\ status.waiting - 1 \in 0..Names
        /\ (status.waiting - 1) + done + lost = status.total
    <2>0. /\ status.processed \in 0..Names /\ status.failed \in 0..Names
          /\ status.processed + 1 \in 0..Names /\ status.failed + 1 \in 0..Names
          /\ status.waiting - 1 \in 0..Names
          /\ (status.waiting - 1) + (status.processed + 1) + status.failed = status.total
          /\ (status.waiting - 1) + status.processed + (status.failed + 1) = status.total
      <3>1. PICK w \in 1..Names, d \in 0..Names, f \in 0..Names, s \in 0..Names :
              /\ w = status.waiting /\ d = status.processed /\ f = status.failed
              /\ s = status.total /\ w + d + f = s
        BY <1>5
      <3>2. /\ d + 1 \in 0..Names /\ f + 1 \in 0..Names /\ w - 1 \in 0..Names
            /\ (w - 1) + (d + 1) + f = s /\ (w - 1) + d + (f + 1) = s
        <4>1. Names \in Nat
          BY <1>0
        <4>2. w + d + f = s
          BY <3>1
        <4> HIDE DEF IInv, ImportInv
        <4> QED
          BY <4>1, <4>2, OneFileCounted
      <3> QED
        BY <3>1, <3>2
    <2>1. CASE worker.ok
      <3>1. done = status.processed + 1 /\ lost = status.failed
        BY <2>1
      <3> HIDE DEF done, lost
      <3> QED
        BY <2>0, <3>1
    <2>2. CASE ~worker.ok
      <3>1. done = status.processed /\ lost = status.failed + 1
        BY <2>2
      <3> HIDE DEF done, lost
      <3> QED
        BY <2>0, <3>1
    <2> QED
      BY <2>1, <2>2
  <1>7. /\ status' = [status EXCEPT !.waiting = status.waiting - 1, !.processed = done, !.failed = lost]
    <2>1. (IF status.waiting > 0 THEN status.waiting - 1 ELSE 0) = status.waiting - 1
      BY <1>5
    <2> QED
      BY <1>1, <2>1
  <1>8. /\ status' \in Status /\ status'.active /\ status'.total = status.total
        /\ status'.waiting = status.waiting - 1 /\ status'.processed = done /\ status'.failed = lost
    <2> HIDE DEF done, lost
    <2> QED
      BY <1>0, <1>2, <1>6, <1>7 DEF Status
  <1>9. /\ failures' \in SUBSET Podcasts /\ Cardinality(failures') = lost
    <2>1. IsFiniteSet(failures) /\ Cardinality(failures) = status.failed
      BY <1>0, PodcastsFinite DEF CountsAddUp
    <2>2. CASE worker.ok
      BY <1>0, <1>1, <2>1, <2>2
    <2>3. CASE ~worker.ok
      <3>1. Cardinality(failures \cup {File}) = status.failed + 1
        <4>1. \A x : Cardinality(failures \cup {x})
                       = IF x \in failures THEN Cardinality(failures) ELSE Cardinality(failures) + 1
          BY <2>1, FS_AddElement
        <4> QED
          BY <1>2, <2>1, <4>1
      <3> QED
        BY <1>0, <1>1, <1>2, <2>3, <3>1
    <2> QED
      BY <2>2, <2>3
  <1>10. TypeOK'
    BY <1>1, <1>4, <1>8, <1>9 DEF TypeOK, Status, Worker, Names
  <1>11. CountsAddUp'
    BY <1>2, <1>3, <1>4, <1>6, <1>8, <1>9 DEF CountsAddUp
  <1>12. FailuresRemain'
    <2>1. ~worker.ok => upload[File] # None
      BY <1>1, <1>2 DEF BatchKept, Sourced
    <2> QED
      BY <1>1, <2>1 DEF FailuresRemain
  <1>13. ActiveKept'
    BY <1>4, <1>8 DEF ActiveKept
  <1>14. BatchKept'
    <2>1. Len(t) <= Names
      BY <1>0, <1>2, <1>3 DEF BatchKept
    <2>2. \A i, j \in DOMAIN t : i # j => t[i] # t[j]
      BY <1>3 DEF BatchKept
    <2>3. \A i \in DOMAIN t : t[i] \notin failures'
      BY <1>1, <1>2, <1>3 DEF BatchKept
    <2>4. \A i \in DOMAIN t : upload'[t[i]] # None
      BY <1>1, <1>3 DEF BatchKept, Sourced
    <2> QED
      BY <1>4, <2>1, <2>2, <2>3, <2>4 DEF BatchKept, Names
  <1> QED
    BY <1>10, <1>11, <1>12, <1>13, <1>14

LEMMA EndBatchKeeps == ASSUME IInv, EndBatch PROVE IInv'
  <1> USE DEF IInv, ImportInv
  <1>0. status \in Status /\ Names \in Nat
    BY Typed
  <1>1. /\ UNCHANGED <<upload, library, lastUpload, failures, triggered, request, phase>>
        /\ worker' = Resting /\ status' = [status EXCEPT !.active = FALSE]
    BY DEF EndBatch, KeepRequests, Resting, None
  <1>2. /\ status' \in Status /\ ~status'.active /\ status'.total = status.total
        /\ status'.waiting = status.waiting /\ status'.processed = status.processed
        /\ status'.failed = status.failed
    BY <1>0, <1>1 DEF Status
  <1>3. TypeOK'
    BY <1>1, <1>2, RestingTyped DEF TypeOK, Status, Worker, Names
  <1>4. CountsAddUp' /\ FailuresRemain' /\ ActiveKept'
    BY <1>1, <1>2, RestingTyped DEF CountsAddUp, FailuresRemain, ActiveKept
  <1>5. BatchKept'
    <2>1. Len(<<>>) = 0 /\ DOMAIN <<>> = {} /\ worker'.files = <<>> /\ Names' = Names
      BY <1>1, RestingTyped DEF Names
    <2> QED
      BY <1>0, <1>1, <2>1, RestingTyped DEF BatchKept
  <1> QED
    BY <1>3, <1>4, <1>5

-----------------------------------------------------------------------------
LEMMA IInvStep == IInv /\ [Next]_vars => IInv'
  <1> SUFFICES ASSUME IInv, [Next]_vars PROVE IInv'
    OBVIOUS
  <1>1. CASE \E p \in Podcasts : Upload(p) \/ Delete(p)
    BY <1>1, OutsideKeeps
  <1>2. CASE \E r \in Requests : Request(r) \/ \E start \in BOOLEAN : Begin(r, start)
    BY <1>2, RequestsKeep DEF Request
  <1>3. CASE Work
    BY <1>3, StagesKeep, ListUploadsKeeps, StartBatchKeeps, RemoveSourceKeeps, CountKeeps,
       EndBatchKeeps DEF Work
  <1>4. CASE Life
    BY <1>4, LifeKeeps
  <1>5. CASE UNCHANGED vars
    BY <1>5 DEF vars, IInv, ImportInv, TypeOK, CountsAddUp, FailuresRemain, BatchKept, ActiveKept, Sourced
  <1> QED
    BY <1>1, <1>2, <1>3, <1>4, <1>5 DEF Next

LEMMA Invariance == Spec => []IInv
  BY InitHolds, IInvStep, PTL DEF Spec

\* Whatever is uploaded, scanned and started meanwhile, and however often the
\* service is stopped or killed: the counts of the import card add up, and every
\* file it lists as failed is still in the upload directory (run_import).
THEOREM ImportCorrect == Spec => []ImportInv
  <1>1. IInv => ImportInv
    BY DEF IInv
  <1> QED
    BY <1>1, Invariance, PTL
=============================================================================

-------------------------- MODULE MusicJobs_proofs --------------------------
(***************************************************************************)
(* Proofs about MusicJobs, for any number of connections, songs, job slots *)
(* and identifiers and any quota.                                          *)
(***************************************************************************)
EXTENDS MusicJobs, FiniteSetTheorems, TLAPS

-----------------------------------------------------------------------------
\* ---------------------------------------------------- the size of a library

Sizes == [Songs -> 0..MaxSize]
Units(l) == {u \in Songs \X (1..MaxSize) : u[2] <= l[u[1]]}

LEMMA UnitsFinite ==
  ASSUME NEW l \in Sizes
  PROVE  IsFiniteSet(Units(l)) /\ Bytes(l) = Cardinality(Units(l)) /\ Bytes(l) \in Nat
  <1>1. IsFiniteSet(Songs \X (1..MaxSize))
    <2>1. IsFiniteSet(1..MaxSize)
      BY BoundsAssumption, FS_Interval
    <2> QED
      BY <2>1, SongsAssumption, FS_Product
  <1>2. IsFiniteSet(Units(l))
    BY <1>1, FS_Subset DEF Units
  <1> QED
    BY <1>2, FS_CardinalityType DEF Bytes, Units

\* A library takes up what one of its songs does and what it would without it.
LEMMA BytesSplit ==
  ASSUME NEW l \in Sizes, NEW f \in Songs
  PROVE  /\ [l EXCEPT ![f] = 0] \in Sizes
         /\ Bytes(l) = Bytes([l EXCEPT ![f] = 0]) + l[f]
  <1> DEFINE l0 == [l EXCEPT ![f] = 0]
             song == {f} \X (1..l[f])
  <1>1. l0 \in Sizes /\ l[f] \in Nat /\ l[f] <= MaxSize
    BY BoundsAssumption DEF Sizes
  <1>2. IsFiniteSet(song) /\ Cardinality(song) = l[f]
    <2>1. IsFiniteSet({f}) /\ Cardinality({f}) = 1
      BY FS_Singleton
    <2>2. IsFiniteSet(1..l[f]) /\ Cardinality(1..l[f]) = l[f]
      BY <1>1, FS_Interval
    <2>3. IsFiniteSet(song) /\ Cardinality(song) = 1 * l[f]
      BY <2>1, <2>2, FS_Product
    <2> QED
      BY <2>3, <1>1
  <1>3. Units(l) = Units(l0) \cup song /\ Units(l0) \cap song = {}
    BY <1>1, BoundsAssumption DEF Units, Sizes
  <1>4. /\ IsFiniteSet(Units(l0))
        /\ Bytes(l0) = Cardinality(Units(l0)) /\ Bytes(l0) \in Nat
        /\ Bytes(l) = Cardinality(Units(l))
    BY <1>1, UnitsFinite
  <1>5. Cardinality(Units(l0) \cup song)
          = Cardinality(Units(l0)) + Cardinality(song) - Cardinality(Units(l0) \cap song)
    BY <1>2, <1>4, FS_Union
  <1>6. Cardinality(Units(l0) \cap song) = 0
    BY <1>3, FS_EmptySet
  <1> QED
    BY <1>1, <1>2, <1>3, <1>4, <1>5, <1>6

\* A deletion makes room, also in what remains besides another song.
LEMMA DeletionShrinks ==
  ASSUME NEW l \in Sizes, NEW f \in Songs, NEW g \in Songs
  PROVE  /\ Bytes([l EXCEPT ![f] = 0]) <= Bytes(l)
         /\ Bytes([[l EXCEPT ![f] = 0] EXCEPT ![g] = 0]) <= Bytes([l EXCEPT ![g] = 0])
  <1>1. ASSUME NEW k \in Sizes PROVE Bytes([k EXCEPT ![f] = 0]) <= Bytes(k)
    <2>1. k[f] \in Nat /\ [k EXCEPT ![f] = 0] \in Sizes
      BY BytesSplit, BoundsAssumption DEF Sizes
    <2> QED
      BY <2>1, BytesSplit, UnitsFinite
  <1>2. [[l EXCEPT ![f] = 0] EXCEPT ![g] = 0] = [[l EXCEPT ![g] = 0] EXCEPT ![f] = 0]
    BY DEF Sizes
  <1>3. [l EXCEPT ![g] = 0] \in Sizes
    BY BytesSplit
  <1> QED
    BY <1>1, <1>2, <1>3

\* A song that replaces another needs the room besides it and its own.
LEMMA BytesReplaced ==
  ASSUME NEW l \in Sizes, NEW f \in Songs, NEW n \in 0..MaxSize
  PROVE  /\ [l EXCEPT ![f] = n] \in Sizes
         /\ Bytes([l EXCEPT ![f] = n]) = Bytes([l EXCEPT ![f] = 0]) + n
  <1>1. [l EXCEPT ![f] = n] \in Sizes /\ [l EXCEPT ![f] = n][f] = n
    BY DEF Sizes
  <1>2. [[l EXCEPT ![f] = n] EXCEPT ![f] = 0] = [l EXCEPT ![f] = 0]
    BY DEF Sizes
  <1> QED
    BY <1>1, <1>2, BytesSplit

-----------------------------------------------------------------------------
\* ---------------------------------------------------- the slots of a batch

LEMMA SlotsFinite ==
  /\ IsFiniteSet(Slots) /\ Cardinality(Slots) = SlotCount
  /\ IsFiniteSet(Usable) /\ Usable \subseteq Slots /\ Cardinality(Usable) \in Nat
  <1>1. IsFiniteSet(Slots) /\ Cardinality(Slots) = SlotCount
    BY BoundsAssumption, FS_Interval DEF Slots
  <1>2. Usable \subseteq Slots
    BY DEF Usable
  <1> QED
    BY <1>1, <1>2, FS_Subset, FS_CardinalityType

Ahead(s) == {t \in Usable : Sooner(t, s)}

LEMMA PlaceType ==
  ASSUME NEW s \in Usable
  PROVE  /\ IsFiniteSet(Ahead(s)) /\ Cardinality(Ahead(s)) \in Nat
         /\ Place(s) = Cardinality(Ahead(s)) + 1
         /\ Place(s) \in 1..Cardinality(Usable)
  <1>1. Ahead(s) \subseteq Usable /\ s \notin Ahead(s)
    BY DEF Ahead, Sooner, Usable, Slots
  <1>2. IsFiniteSet(Ahead(s)) /\ Cardinality(Ahead(s)) <= Cardinality(Usable)
        /\ Cardinality(Ahead(s)) \in Nat /\ Cardinality(Ahead(s)) # Cardinality(Usable)
    BY <1>1, SlotsFinite, FS_Subset, FS_CardinalityType
  <1>3. Place(s) = Cardinality(Ahead(s)) + 1
    BY DEF Place, Ahead
  <1> QED
    BY <1>2, <1>3, SlotsFinite

\* Of two usable slots one is taken sooner, and has the smaller place.
LEMMA PlaceOrder ==
  ASSUME NEW s \in Usable, NEW t \in Usable, Sooner(s, t)
  PROVE  Place(s) < Place(t)
  <1>1. Ahead(s) \subseteq Ahead(t) /\ s \in Ahead(t) /\ s \notin Ahead(s)
    BY DEF Ahead, Sooner, Usable, Slots
  <1>2. Cardinality(Ahead(s)) <= Cardinality(Ahead(t))
        /\ Cardinality(Ahead(s)) # Cardinality(Ahead(t))
    BY <1>1, PlaceType, FS_Subset
  <1> QED
    BY <1>2, PlaceType

\* The places of the usable slots are 1, 2, ... in some order: each song of a
\* batch that fits gets one slot, and no slot gets two.
LEMMA PlacesDistinct ==
  ASSUME NEW s \in Usable, NEW t \in Usable, Place(s) = Place(t)
  PROVE  s = t
  <1>1. s # t => Sooner(s, t) \/ Sooner(t, s)
    BY DEF Sooner, Usable, Slots
  <1>2. Place(s) \in Int /\ Place(t) \in Int
    BY PlaceType
  <1> QED
    BY <1>1, <1>2, PlaceOrder

LEMMA PlacesFilled ==
  ASSUME NEW i \in 1..Cardinality(Usable)
  PROVE  \E s \in Usable : Place(s) = i
  <1> DEFINE n == Cardinality(Usable)
             f == [s \in Usable |-> Place(s)]
  <1>1. n \in Nat /\ IsFiniteSet(1..n) /\ Cardinality(1..n) = n
    BY SlotsFinite, FS_Interval
  <1>2. f \in [Usable -> 1..n]
    BY PlaceType
  <1>3. f \in Injection(Usable, 1..n)
    BY <1>2, PlacesDistinct DEF Injection, IsInjective
  <1>4. f \in Surjection(Usable, 1..n)
    BY <1>1, <1>3, FS_Injection
  <1> QED
    BY <1>4 DEF Surjection

-----------------------------------------------------------------------------
\* ---------------------------------------------------- the inductive invariant

\* What a request carries fits how far it has come: past the gate it keeps its
\* reservation until it completes, it has a batch only while it holds the gate,
\* staged sources only between body and queue, and no late refusal.
Held(r) == r.pc \in {"gated", "ungate"} \/ r.reserved
RequestKept(r) ==
  /\ r.pc = "idle" => r = Quiet
  /\ r.pc \in {"body", "save", "stage", "queue", "drop"} => r.reserved
  /\ r.pc \in {"idle", "gated", "ungate", "unlink"} => ~r.reserved
  /\ r.batch # <<>> => Held(r)
  /\ r.pc \in {"gated", "body"} /\ r.kind = "music" => r.batch # <<>>
  /\ r.pc \in {"stage", "queue"} => r.batch # <<>>
  /\ r.staged # <<>> => r.pc \in {"stage", "queue", "drop"}
  /\ r.pc = "stage" => Len(r.staged) < Len(r.batch)
  /\ r.pc = "queue" => Len(r.staged) = Len(r.batch)
  /\ \A i, j \in DOMAIN r.staged : i # j => r.staged[i] # r.staged[j]
  /\ r.kind \in {"music", "podcast"} => r.answer \notin {"busy", "slots", "stopped"}

\* Past the gate and up to the queue, nothing becomes active besides a request,
\* and the identifiers for its batch are there.
Passed(r) == r.pc \in {"body", "save", "stage", "queue"}
Requests ==
  \A c \in Conns : /\ RequestKept(conn[c])
                   /\ Passed(conn[c]) => ~Active
                   /\ nextId + Len(conn[c].batch) <= MaxId + 1

\* Identifiers of listed jobs are used once.
IdsUnique ==
  \A s \in Slots : job[s].st # "empty" =>
    /\ job[s].id \in 1..(nextId - 1)
    /\ \A t \in Slots : job[t].st # "empty" /\ job[t].id = job[s].id => t = s

\* The worker's copy of a job is empty when it rests, and without a source at the end.
WorkerKept ==
  /\ worker.pc = "wait" => worker = Resting
  /\ worker.pc = "finish" => worker.src = None

\* A process that is gone, and a new one: nothing is held, listed or worked on.
Blank == /\ gate = FALSE /\ nextId = 1 /\ worker = Resting
         /\ conn = [c \in Conns |-> Quiet] /\ job = [s \in Slots |-> EmptyJob]

\* A service that joins its worker serves nobody, one that is down holds nothing.
Stopped ==
  /\ phase \in {"joining", "down"} => \A c \in Conns : conn[c].pc = "idle"
  /\ phase = "down" => Blank

\* While the worker decides, deletions only make more room than it has measured.
RoomKept ==
  /\ worker.pc = "quota" => Bytes(library) <= worker.seen
  /\ worker.pc = "rename" =>
       Bytes([library EXCEPT ![worker.file] = 0]) + worker.size <= Quota
  /\ QuotaRespected

IInv == /\ TypeOK /\ Requests /\ GateHeld /\ IdsUnique /\ SourcesOwned
        /\ WorkerOwnsSlot /\ WorkerKept /\ Stopped /\ RoomKept

-----------------------------------------------------------------------------
\* ---------------------------------------------------- types

LEMMA ResetsTyped == Quiet \in Request /\ EmptyJob \in Job /\ Resting \in Worker
  <1>1. (CHOOSE s \in Songs : TRUE) \in Songs
    BY SongsAssumption
  <1>2. <<>> \in Seq(Names)
    OBVIOUS
  <1> QED
    BY <1>1, <1>2, BoundsAssumption
       DEF Quiet, EmptyJob, Resting, Request, Job, Worker, ConnPcs, Kinds, Answers, None

LEMMA BatchTyped ==
  ASSUME NEW b \in Batches \cup {<<>>}
  PROVE  b \in Seq(Songs) /\ Len(b) \in 0..SlotCount
  <1>1. CASE b = <<>>
    BY <1>1, BoundsAssumption
  <1>2. CASE b \in Batches
    BY <1>2, BatchAssumption
  <1> QED
    BY <1>1, <1>2

LEMMA AnswerTyped ==
  ASSUME TypeOK, NEW c \in Conns, NEW a \in Answers, Answer(c, a)
  PROVE  /\ conn' \in [Conns -> Request]
         /\ \A d \in Conns \ {c} : conn'[d] = conn[d]
         /\ conn'[c] = [conn[c] EXCEPT !.pc = "done", !.batch = <<>>, !.answer = a]
  <1>1. conn \in [Conns -> Request] /\ conn[c] \in Request
    BY DEF TypeOK
  <1>2. [conn[c] EXCEPT !.pc = "done", !.batch = <<>>, !.answer = a] \in Request
    BY <1>1 DEF Request, ConnPcs
  <1>3. conn' = [conn EXCEPT ![c] = [conn[c] EXCEPT !.pc = "done", !.batch = <<>>, !.answer = a]]
    BY <1>1 DEF Answer
  <1> QED
    BY <1>1, <1>2, <1>3

\* The steps of one request on its own record, and what they do to the gate.
OwnStep(c) ==
  \/ Upload(c) \/ BeginDeleteAll(c) \/ \E f \in Songs : BeginDelete(c, f)
  \/ Reserve(c) \/ Unreserve(c) \/ Completed(c) \/ Refuse(c) \/ BodyReceived(c)
  \/ SavePodcasts(c) \/ StageFails(c) \/ Deleted(c)

LEMMA OwnStepTyped ==
  ASSUME TypeOK, NEW c \in Conns, OwnStep(c)
  PROVE  /\ conn' \in [Conns -> Request] /\ gate' \in BOOLEAN
         /\ UNCHANGED <<job, nextId, worker, files, library, phase>>
         /\ \A d \in Conns \ {c} : conn'[d] = conn[d]
  <1>0. conn \in [Conns -> Request] /\ conn[c] \in Request /\ gate \in BOOLEAN
    BY DEF TypeOK
  <1> USE DEF KeepJobs, KeepDisk
  <1>1. CASE Upload(c)
    <2>1. PICK kind \in {"music", "podcast"}, b \in Batches \cup {<<>>} : BeginUpload(c, kind, b)
      BY <1>1 DEF Upload
    <2>2. /\ [Quiet EXCEPT !.pc = "done", !.answer = "locked"] \in Request
          /\ [Quiet EXCEPT !.pc = "gated", !.kind = kind, !.batch = b] \in Request
      BY ResetsTyped DEF Request, ConnPcs, Answers, Kinds
    <2> QED
      BY <1>0, <2>1, <2>2 DEF BeginUpload
  <1>2. CASE BeginDeleteAll(c)
    <2>1. /\ [Quiet EXCEPT !.pc = "done", !.kind = "wipe", !.answer = "busy"] \in Request
          /\ [Quiet EXCEPT !.pc = "unlink", !.kind = "wipe", !.left = Present] \in Request
      BY ResetsTyped DEF Request, ConnPcs, Answers, Kinds, Present
    <2> QED
      BY <1>0, <1>2, <2>1 DEF BeginDeleteAll
  <1>3. CASE \E f \in Songs : BeginDelete(c, f)
    <2>1. PICK f \in Songs : BeginDelete(c, f)
      BY <1>3
    <2>2. /\ [Quiet EXCEPT !.pc = "done", !.kind = "delete", !.answer = "busy"] \in Request
          /\ [Quiet EXCEPT !.pc = "unlink", !.kind = "delete", !.left = {f}] \in Request
      BY ResetsTyped DEF Request, ConnPcs, Answers, Kinds
    <2> QED
      BY <1>0, <2>1, <2>2 DEF BeginDelete
  <1>4. CASE Reserve(c)
    <2>1. Active \in BOOLEAN
      BY DEF Active
    <2> QED
      BY <1>0, <1>4, <2>1 DEF Reserve, Request, ConnPcs
  <1>5. CASE Unreserve(c)
    BY <1>0, <1>5, AnswerTyped DEF Unreserve, Answers
  <1>6. CASE Completed(c)
    BY <1>0, <1>6, ResetsTyped DEF Completed, Request
  <1>7. CASE Refuse(c) \/ SavePodcasts(c) \/ Deleted(c)
    BY <1>0, <1>7, AnswerTyped DEF Refuse, SavePodcasts, Deleted, Answers
  <1>8. CASE BodyReceived(c)
    <2>1. CASE Active
      BY <1>0, <1>8, <2>1, AnswerTyped DEF BodyReceived, Answers
    <2>2. CASE ~Active
      <3>1. PICK to \in {"stage", "save"} : Move(c, to)
        BY <1>8, <2>2 DEF BodyReceived
      <3> QED
        BY <1>0, <1>8, <3>1 DEF BodyReceived, Move, Request, ConnPcs
    <2> QED
      BY <2>1, <2>2
  <1>9. CASE StageFails(c)
    BY <1>0, <1>9 DEF StageFails, Request, ConnPcs, Answers
  <1> QED
    BY <1>1, <1>2, <1>3, <1>4, <1>5, <1>6, <1>7, <1>8, <1>9 DEF OwnStep

\* What such a step does to the request: its shape stays right, its staged
\* sources stay, and it takes or releases the gate only as the flag says.
LEMMA OwnStepEffect ==
  ASSUME TypeOK, Requests, Stopped, GateHeld, NEW c \in Conns, OwnStep(c)
  PROVE  /\ RequestKept(conn'[c])
         /\ Passed(conn'[c]) => ~Active
         /\ nextId + Len(conn'[c].batch) <= MaxId + 1
         /\ conn'[c].staged = conn[c].staged
         /\ phase \notin {"joining", "down"}
         /\ \/ gate' = gate /\ (Held(conn'[c]) <=> Held(conn[c]))
            \/ ~gate /\ gate' /\ Held(conn'[c])
            \/ Held(conn[c]) /\ ~gate' /\ ~Held(conn'[c])
  <1>0. /\ conn \in [Conns -> Request] /\ conn[c] \in Request /\ gate \in BOOLEAN
        /\ nextId \in Nat /\ MaxId \in Nat /\ nextId + Len(<<>>) <= MaxId + 1
        /\ RequestKept(conn[c]) /\ (Passed(conn[c]) => ~Active)
        /\ nextId + Len(conn[c].batch) <= MaxId + 1
        /\ phase \in {"joining", "down"} => conn[c].pc = "idle"
        /\ Held(conn[c]) => gate
    BY BoundsAssumption DEF TypeOK, Requests, Stopped, GateHeld, Holds, Held
  <1>00. Quiet \in Request
    BY ResetsTyped
  <1>1. CASE Upload(c)
    <2>1. PICK kind \in {"music", "podcast"}, b \in Batches \cup {<<>>} :
            BeginUpload(c, kind, b) /\ (kind = "music" => b \in Batches)
      BY <1>1 DEF Upload
    <2>2. /\ Len(b) \in Nat /\ (kind = "music" => b # <<>>)
          /\ nextId + Len(b) <= MaxId + 1
      BY <1>0, <2>1, BatchAssumption, BatchTyped DEF BeginUpload
    <2>3. CASE gate
      BY <1>0, <1>00, <2>1, <2>2, <2>3 DEF BeginUpload, RequestKept, Quiet, Held, Passed
    <2>4. CASE ~gate
      <3>1. /\ conn'[c] = [Quiet EXCEPT !.pc = "gated", !.kind = kind, !.batch = b]
            /\ gate' /\ conn[c].pc = "idle" /\ phase = "up"
        BY <1>0, <2>1, <2>4 DEF BeginUpload
      <3>2. /\ conn'[c].pc = "gated" /\ conn'[c].kind = kind /\ conn'[c].batch = b
            /\ conn'[c].staged = <<>> /\ conn'[c].answer = "none" /\ ~conn'[c].reserved
        BY <3>1 DEF Quiet
      <3>3. conn[c].staged = <<>>
        BY <1>0, <3>1 DEF RequestKept, Quiet
      <3>4. RequestKept(conn'[c]) /\ Held(conn'[c]) /\ ~Passed(conn'[c])
        BY <2>2, <3>2 DEF RequestKept, Held, Passed
      <3> QED
        BY <2>2, <2>4, <3>1, <3>2, <3>3, <3>4
    <2> QED
      BY <2>3, <2>4
  <1>2. CASE BeginDeleteAll(c) \/ \E f \in Songs : BeginDelete(c, f)
    <2>1. /\ conn'[c].pc \in {"done", "unlink"} /\ conn'[c].kind \in {"delete", "wipe"}
          /\ conn'[c].batch = <<>> /\ conn'[c].staged = <<>> /\ ~conn'[c].reserved
          /\ gate' = gate /\ conn[c].pc = "idle" /\ phase = "up"
      <3>1. PICK l \in SUBSET Songs :
              /\ \/ conn'[c] = [Quiet EXCEPT !.pc = "done", !.kind = "wipe", !.answer = "busy"]
                 \/ conn'[c] = [Quiet EXCEPT !.pc = "unlink", !.kind = "wipe", !.left = l]
                 \/ conn'[c] = [Quiet EXCEPT !.pc = "done", !.kind = "delete", !.answer = "busy"]
                 \/ conn'[c] = [Quiet EXCEPT !.pc = "unlink", !.kind = "delete", !.left = l]
              /\ gate' = gate /\ conn[c].pc = "idle" /\ phase = "up"
        <4>1. CASE BeginDeleteAll(c)
          BY <1>0, <4>1 DEF BeginDeleteAll, Present
        <4>2. CASE \E f \in Songs : BeginDelete(c, f)
          <5>1. PICK f \in Songs : BeginDelete(c, f)
            BY <4>2
          <5>2. {f} \in SUBSET Songs
            OBVIOUS
          <5> QED
            BY <1>0, <5>1, <5>2 DEF BeginDelete
        <4> QED
          BY <1>2, <4>1, <4>2
      <3> QED
        BY <3>1 DEF Quiet
    <2>2. conn[c].staged = <<>> /\ ~Held(conn[c])
      BY <1>0, <2>1 DEF RequestKept, Quiet, Held
    <2> QED
      BY <1>0, <2>1, <2>2 DEF RequestKept, Held, Passed
  <1>4. CASE Reserve(c)
    BY <1>0, <1>4 DEF Reserve, RequestKept, Held, Passed, Request
  <1>6. CASE Completed(c)
    <2>1. conn'[c] = Quiet /\ gate' = (gate /\ ~conn[c].reserved) /\ conn[c].pc \in {"body", "done"}
      BY <1>0, <1>6 DEF Completed
    <2>2. conn[c].staged = <<>> /\ Quiet.staged = <<>> /\ Quiet.batch = <<>> /\ Quiet.pc = "idle"
          /\ ~Quiet.reserved /\ Quiet.answer = "none"
      BY <1>0, <2>1 DEF RequestKept, Quiet
    <2>3. RequestKept(Quiet) /\ ~Held(Quiet) /\ ~Passed(Quiet)
      BY <2>2 DEF RequestKept, Held, Passed
    <2> QED
      BY <1>0, <2>1, <2>2, <2>3 DEF Held
  <1>7. ASSUME NEW a \in Answers \ {"busy", "slots", "stopped"}, Answer(c, a),
               conn[c].pc \in {"ungate", "body", "save", "unlink"}
        PROVE  /\ RequestKept(conn'[c]) /\ ~Passed(conn'[c])
               /\ conn'[c].batch = <<>> /\ conn'[c].staged = conn[c].staged
               /\ phase \notin {"joining", "down"}
               /\ conn'[c].pc = "done" /\ conn'[c].reserved = conn[c].reserved
    <2>1. /\ conn'[c].pc = "done" /\ conn'[c].batch = <<>> /\ conn'[c].answer = a
          /\ conn'[c].staged = conn[c].staged /\ conn'[c].kind = conn[c].kind
          /\ conn'[c].reserved = conn[c].reserved
      <3>1. conn'[c] = [conn[c] EXCEPT !.pc = "done", !.batch = <<>>, !.answer = a]
        BY <1>7, AnswerTyped
      <3> QED
        BY <1>0, <3>1 DEF Request
    <2>2. conn[c].staged = <<>>
      BY <1>0, <1>7 DEF RequestKept
    <2> QED
      BY <1>0, <1>7, <2>1, <2>2 DEF RequestKept, Passed
  <1>8. CASE Unreserve(c)
    BY <1>0, <1>7, <1>8 DEF Unreserve, Answers, Held, RequestKept
  <1>9. CASE Refuse(c) \/ SavePodcasts(c) \/ Deleted(c)
    BY <1>0, <1>7, <1>9 DEF Refuse, SavePodcasts, Deleted, Answers, Held
  <1>10. CASE BodyReceived(c)
    <2>1. ~Active /\ conn[c].pc = "body"
      BY <1>0, <1>10 DEF BodyReceived, Passed
    <2>2. conn[c].kind = "music" => Len(conn[c].batch) > 0 /\ conn[c].batch # <<>>
      BY <1>0, <2>1, BatchAssumption, BatchTyped DEF RequestKept, Request
    <2> QED
      BY <1>0, <1>10, <2>1, <2>2 DEF BodyReceived, Move, RequestKept, Held, Passed, Request
  <1>11. CASE StageFails(c)
    BY <1>0, <1>11 DEF StageFails, RequestKept, Held, Passed, Request
  <1> QED
    BY <1>1, <1>2, <1>4, <1>6, <1>8, <1>9, <1>10, <1>11 DEF OwnStep

-----------------------------------------------------------------------------
\* ---------------------------------------------------- steps of the requests

\* Nobody but the holder of the gate has a batch or staged sources.
LEMMA OthersEmpty ==
  ASSUME TypeOK, Requests, GateHeld, NEW c \in Conns, Held(conn[c]), NEW d \in Conns \ {c}
  PROVE  /\ conn[d].batch = <<>> /\ conn[d].staged = <<>>
         /\ ~Passed(conn[d]) /\ ~Held(conn[d])
  <1>1. ~Held(conn[d])
    BY DEF GateHeld, Holds, Held
  <1> QED
    BY <1>1 DEF Requests, RequestKept, Held, Passed

LEMMA OwnersSame ==
  ASSUME SourcesOwned, \A d \in Conns : conn'[d].staged = conn[d].staged,
         UNCHANGED <<job, worker, files, phase>>
  PROVE  SourcesOwned'
  <1>1. /\ InQueue' = InQueue /\ InWorker' = InWorker /\ Slots' = Slots
    BY DEF InQueue, InWorker, Slots
  <1>2. \A d \in Conns : InStaging(d)' = InStaging(d)
    BY DEF InStaging
  <1>3. (UNION {InStaging(d) : d \in Conns})' = UNION {InStaging(d) : d \in Conns}
    BY <1>2
  <1> QED
    BY <1>1, <1>2, <1>3 DEF SourcesOwned

LEMMA OwnStepKeeps ==
  ASSUME IInv, NEW c \in Conns, OwnStep(c)
  PROVE  IInv'
  <1> USE DEF IInv
  <1>1. /\ conn' \in [Conns -> Request] /\ gate' \in BOOLEAN
        /\ UNCHANGED <<job, nextId, worker, files, library, phase>>
        /\ \A d \in Conns \ {c} : conn'[d] = conn[d]
    BY OwnStepTyped
  <1>2. /\ RequestKept(conn'[c])
        /\ Passed(conn'[c]) => ~Active
        /\ nextId + Len(conn'[c].batch) <= MaxId + 1
        /\ conn'[c].staged = conn[c].staged
        /\ phase \notin {"joining", "down"}
        /\ \/ gate' = gate /\ (Held(conn'[c]) <=> Held(conn[c]))
           \/ ~gate /\ gate' /\ Held(conn'[c])
           \/ Held(conn[c]) /\ ~gate' /\ ~Held(conn'[c])
    BY OwnStepEffect
  <1>3. TypeOK'
    BY <1>1 DEF TypeOK
  <1>4. Requests'
    BY <1>1, <1>2 DEF Requests, Active
  <1>5. GateHeld'
    BY <1>1, <1>2 DEF GateHeld, Holds, Held
  <1>6. \A d \in Conns : conn'[d].staged = conn[d].staged
    BY <1>1, <1>2
  <1>7. SourcesOwned'
    BY <1>1, <1>6, OwnersSame
  <1>8. (IdsUnique /\ WorkerOwnsSlot /\ WorkerKept)'
    BY <1>1 DEF IdsUnique, WorkerOwnsSlot, WorkerKept
  <1>9. (Stopped /\ RoomKept)'
    BY <1>1, <1>2 DEF Stopped, RoomKept, QuotaRespected
  <1> QED
    BY <1>3, <1>4, <1>5, <1>7, <1>8, <1>9

LEMMA UnlinkKeeps ==
  ASSUME IInv, NEW c \in Conns, Unlink(c)
  PROVE  IInv'
  <1> USE DEF IInv
  <1>0. conn \in [Conns -> Request] /\ library \in Sizes /\ worker \in Worker
    BY DEF TypeOK, Sizes
  <1>1. PICK f \in Songs : /\ library' = [library EXCEPT ![f] = 0]
                           /\ conn' = [conn EXCEPT ![c].left = @ \ {f}]
    BY <1>0 DEF Unlink, Present, TypeOK, Request
  <1>2. UNCHANGED <<gate, job, nextId, worker, files, phase>> /\ conn[c].pc = "unlink"
    BY DEF Unlink, KeepJobs
  <1>3. /\ conn' \in [Conns -> Request] /\ \A d \in Conns \ {c} : conn'[d] = conn[d]
        /\ conn'[c] = [conn[c] EXCEPT !.left = conn[c].left \ {f}]
    BY <1>0, <1>1 DEF Request
  <1>4. /\ conn'[c].pc = "unlink" /\ conn'[c].batch = conn[c].batch
        /\ conn'[c].staged = conn[c].staged /\ conn'[c].reserved = conn[c].reserved
        /\ conn'[c].kind = conn[c].kind /\ conn'[c].answer = conn[c].answer
    BY <1>0, <1>2, <1>3 DEF Request
  <1>5. /\ TypeOK' /\ library' \in Sizes
    BY <1>0, <1>1, <1>2, <1>3, BytesSplit DEF TypeOK, Sizes
  <1>6. RequestKept(conn'[c]) /\ ~Passed(conn'[c]) /\ (Held(conn'[c]) <=> Held(conn[c]))
    BY <1>2, <1>4 DEF Requests, RequestKept, Held, Passed
  <1>7. Requests'
    BY <1>2, <1>3, <1>4, <1>6 DEF Requests, Active
  <1>8. GateHeld'
    BY <1>2, <1>3, <1>6 DEF GateHeld, Holds, Held
  <1>9. SourcesOwned'
    <2>1. \A d \in Conns : conn'[d].staged = conn[d].staged
      BY <1>3, <1>4
    <2> QED
      BY <1>2, <2>1, OwnersSame
  <1>10. (IdsUnique /\ WorkerOwnsSlot /\ WorkerKept)'
    BY <1>2 DEF IdsUnique, WorkerOwnsSlot, WorkerKept
  <1>11. Stopped'
    BY <1>2 DEF Stopped
  <1>12. RoomKept'
    <2>1. worker.file \in Songs /\ worker.size \in Nat /\ worker.seen \in Nat
      BY <1>0 DEF Worker
    <2>2. /\ Bytes(library') <= Bytes(library)
          /\ Bytes([library' EXCEPT ![worker.file] = 0])
               <= Bytes([library EXCEPT ![worker.file] = 0])
      BY <1>0, <1>1, <2>1, DeletionShrinks
    <2>3. /\ Bytes(library') \in Nat /\ Bytes(library) \in Nat
          /\ Bytes([library' EXCEPT ![worker.file] = 0]) \in Nat
          /\ Bytes([library EXCEPT ![worker.file] = 0]) \in Nat
      BY <1>0, <1>5, <2>1, BytesSplit, UnitsFinite
    <2> QED
      BY <1>2, <2>1, <2>2, <2>3, BoundsAssumption DEF RoomKept, QuotaRespected
  <1> QED
    BY <1>5, <1>7, <1>8, <1>9, <1>10, <1>11, <1>12

LEMMA RangeAppend ==
  ASSUME NEW S, NEW q \in Seq(S), NEW n
  PROVE  Range(Append(q, n)) = Range(q) \cup {n}
  <1>1. /\ Len(q) \in Nat /\ DOMAIN q = 1..Len(q)
        /\ DOMAIN Append(q, n) = 1..(Len(q) + 1)
        /\ Append(q, n)[Len(q) + 1] = n
        /\ \A i \in 1..Len(q) : Append(q, n)[i] = q[i]
    OBVIOUS
  <1> QED
    BY <1>1 DEF Range

LEMMA StageKeeps ==
  ASSUME IInv, NEW c \in Conns, Stage(c)
  PROVE  IInv'
  <1> USE DEF IInv
  <1> DEFINE r == conn[c]
  <1>0. /\ conn \in [Conns -> Request] /\ r \in Request /\ files \in [src : SUBSET Names, out : BOOLEAN]
        /\ r.pc = "stage" /\ RequestKept(r) /\ Held(r) /\ ~Active
        /\ nextId + Len(r.batch) <= MaxId + 1
        /\ r.staged \in Seq(Names) /\ Len(r.batch) \in Nat /\ Len(r.staged) < Len(r.batch)
    BY BatchTyped DEF TypeOK, Stage, Requests, RequestKept, Held, Passed, Request
  <1>1. /\ UNCHANGED <<gate, job, nextId, worker, library, phase>>
        /\ \E n \in Names \ files.src : \E to \in {"stage", "queue"} :
             /\ to = "queue" <=> Len(r.staged) + 1 = Len(r.batch)
             /\ files' = [files EXCEPT !.src = @ \cup {n}]
             /\ conn' = [conn EXCEPT ![c].staged = Append(@, n), ![c].pc = to]
    BY DEF Stage, KeepJobs
  <1>2. PICK n \in Names \ files.src, to \in {"stage", "queue"} :
             /\ to = "queue" <=> Len(r.staged) + 1 = Len(r.batch)
             /\ files' = [files EXCEPT !.src = @ \cup {n}]
             /\ conn' = [conn EXCEPT ![c].staged = Append(@, n), ![c].pc = to]
    BY <1>1
  <1> DEFINE q == Append(r.staged, n)
  <1>3. /\ conn'[c] = [r EXCEPT !.staged = q, !.pc = to]
        /\ \A d \in Conns \ {c} : conn'[d] = conn[d]
        /\ q \in Seq(Names) /\ Len(q) = Len(r.staged) + 1 /\ Len(r.staged) \in Nat
    BY <1>0, <1>2
  <1>4. /\ conn'[c].pc = to /\ conn'[c].staged = q /\ conn'[c].batch = r.batch
        /\ conn'[c].reserved = r.reserved /\ conn'[c].kind = r.kind
        /\ conn'[c].answer = r.answer
    BY <1>0, <1>3 DEF Request
  <1>5. conn' \in [Conns -> Request]
    <2>1. conn'[c] \in Request
      BY <1>0, <1>3 DEF Request, ConnPcs
    <2> QED
      BY <1>0, <1>2, <1>3, <2>1
  <1>6. TypeOK'
    BY <1>0, <1>1, <1>2, <1>5 DEF TypeOK
  <1>7. phase \notin {"joining", "down"}
    BY <1>0 DEF Stopped
  <1>8. InStaging(c) \subseteq files.src /\ n \notin InStaging(c)
    BY <1>2, <1>7 DEF SourcesOwned
  <1>9. RequestKept(conn'[c]) /\ Held(conn'[c])
    <2>1. /\ DOMAIN q = 1..(Len(r.staged) + 1) /\ q[Len(r.staged) + 1] = n
          /\ \A i \in 1..Len(r.staged) : q[i] = r.staged[i]
          /\ DOMAIN r.staged = 1..Len(r.staged)
      BY <1>0
    <2>2. \A i \in 1..Len(r.staged) : r.staged[i] # n
      BY <1>8, <2>1 DEF InStaging, Range
    <2>3. \A i, j \in DOMAIN q : i # j => q[i] # q[j]
      BY <1>0, <1>3, <2>1, <2>2 DEF RequestKept
    <2>4. to = "stage" => Len(q) < Len(r.batch)
      BY <1>0, <1>2, <1>3
    <2>5. to = "queue" => Len(q) = Len(r.batch)
      BY <1>2, <1>3
    <2> QED
      BY <1>0, <1>2, <1>4, <2>3, <2>4, <2>5 DEF RequestKept, Held
  <1>10. Requests'
    BY <1>0, <1>1, <1>3, <1>4, <1>9 DEF Requests, Active
  <1>11. GateHeld'
    BY <1>0, <1>1, <1>3, <1>9 DEF GateHeld, Holds, Held
  <1>12. SourcesOwned'
    <2>1. InStaging(c)' = InStaging(c) \cup {n}
      BY <1>0, <1>4, RangeAppend DEF InStaging
    <2>2. \A d \in Conns \ {c} : InStaging(d)' = InStaging(d)
      BY <1>3 DEF InStaging
    <2>3. (UNION {InStaging(d) : d \in Conns})' = (UNION {InStaging(d) : d \in Conns}) \cup {n}
      BY <2>1, <2>2
    <2>4. InQueue' = InQueue /\ InWorker' = InWorker
      BY <1>1 DEF InQueue, InWorker, Slots
    <2>5. files.src = (UNION {InStaging(d) : d \in Conns}) \cup InQueue \cup InWorker
      BY <1>7 DEF SourcesOwned
    <2>6. n \notin InQueue \cup InWorker
      BY <1>2, <2>5
    <2>7. files'.src = files.src \cup {n} /\ files'.out = files.out
      BY <1>0, <1>2
    <2>8. \A d \in Conns : InStaging(d)' \cap (InQueue' \cup InWorker') = {}
      BY <1>7, <2>1, <2>2, <2>4, <2>6 DEF SourcesOwned
    <2> QED
      BY <1>1, <1>7, <2>3, <2>4, <2>5, <2>7, <2>8 DEF SourcesOwned, Slots
  <1>13. (IdsUnique /\ WorkerOwnsSlot /\ WorkerKept /\ RoomKept)'
    BY <1>1 DEF IdsUnique, WorkerOwnsSlot, WorkerKept, RoomKept, QuotaRespected
  <1>14. Stopped'
    BY <1>1, <1>7 DEF Stopped
  <1> QED
    BY <1>6, <1>10, <1>11, <1>12, <1>13, <1>14

\* A request that leaves the queue or gives up: it keeps the gate, and nothing else.
LEMMA LeavesQueue ==
  ASSUME TypeOK, Requests, NEW c \in Conns, conn[c].pc \in {"queue", "drop"},
         conn' = [conn EXCEPT ![c] = [conn[c] EXCEPT !.pc = "done", !.answer = conn'[c].answer,
                                                     !.batch = <<>>, !.staged = <<>>]],
         conn'[c].answer \in {conn[c].answer, "ok"}
  PROVE  /\ conn' \in [Conns -> Request]
         /\ conn'[c].pc = "done" /\ conn'[c].batch = <<>> /\ conn'[c].staged = <<>>
         /\ RequestKept(conn'[c]) /\ Held(conn'[c]) /\ ~Passed(conn'[c])
         /\ \A d \in Conns \ {c} : conn'[d] = conn[d]
  <1> DEFINE a == conn'[c].answer
  <1>0. conn \in [Conns -> Request] /\ conn[c] \in Request /\ RequestKept(conn[c])
        /\ a \in Answers /\ <<>> \in Seq(Names)
    BY DEF TypeOK, Requests, Request, Answers
  <1>1. /\ conn'[c] = [conn[c] EXCEPT !.pc = "done", !.answer = a, !.batch = <<>>, !.staged = <<>>]
        /\ \A d \in Conns \ {c} : conn'[d] = conn[d]
    BY <1>0
  <1>2. conn'[c] \in Request
    BY <1>0, <1>1 DEF Request, ConnPcs
  <1>3. /\ conn'[c].pc = "done" /\ conn'[c].batch = <<>> /\ conn'[c].staged = <<>>
        /\ conn'[c].kind = conn[c].kind /\ conn'[c].reserved = conn[c].reserved
    BY <1>0, <1>1 DEF Request
  <1>4. RequestKept(conn'[c]) /\ Held(conn'[c]) /\ ~Passed(conn'[c])
    BY <1>0, <1>3 DEF RequestKept, Held, Passed
  <1> QED
    BY <1>0, <1>1, <1>2, <1>3, <1>4

LEMMA DropStagedKeeps ==
  ASSUME IInv, NEW c \in Conns, DropStaged(c)
  PROVE  IInv'
  <1> USE DEF IInv
  <1>0. /\ conn \in [Conns -> Request] /\ files \in [src : SUBSET Names, out : BOOLEAN]
        /\ conn[c] \in Request /\ conn[c].pc = "drop" /\ RequestKept(conn[c]) /\ Held(conn[c])
        /\ nextId \in Nat /\ nextId + Len(<<>>) <= MaxId + 1 /\ MaxId \in Nat
    BY BoundsAssumption DEF TypeOK, DropStaged, Requests, RequestKept, Held
  <1>1. /\ UNCHANGED <<gate, job, nextId, worker, library, phase>>
        /\ files' = [files EXCEPT !.src = @ \ InStaging(c)]
        /\ conn' = [conn EXCEPT ![c].pc = "done", ![c].batch = <<>>, ![c].staged = <<>>]
    BY DEF DropStaged, KeepJobs, InStaging
  <1>2. conn' = [conn EXCEPT ![c] = [conn[c] EXCEPT !.pc = "done", !.answer = conn'[c].answer,
                                                    !.batch = <<>>, !.staged = <<>>]]
        /\ conn'[c].answer = conn[c].answer
    BY <1>0, <1>1 DEF Request
  <1>3. /\ conn' \in [Conns -> Request]
        /\ conn'[c].pc = "done" /\ conn'[c].batch = <<>> /\ conn'[c].staged = <<>>
        /\ RequestKept(conn'[c]) /\ Held(conn'[c]) /\ ~Passed(conn'[c])
        /\ \A d \in Conns \ {c} : conn'[d] = conn[d]
    BY <1>0, <1>2, LeavesQueue
  <1>4. TypeOK'
    BY <1>0, <1>1, <1>3 DEF TypeOK
  <1>5. Requests'
    BY <1>0, <1>1, <1>3 DEF Requests, Active
  <1>6. GateHeld'
    BY <1>0, <1>1, <1>3 DEF GateHeld, Holds, Held
  <1>7. phase \notin {"joining", "down"}
    BY <1>0 DEF Stopped
  <1>8. SourcesOwned'
    <2>1. InStaging(c)' = {}
      BY <1>3 DEF InStaging, Range
    <2>2. \A d \in Conns \ {c} : InStaging(d) = {} /\ InStaging(d)' = {}
      BY <1>0, <1>3, OthersEmpty DEF InStaging, Range
    <2>3. InQueue' = InQueue /\ InWorker' = InWorker
      BY <1>1 DEF InQueue, InWorker, Slots
    <2>4. (UNION {InStaging(d) : d \in Conns})' = {}
      BY <2>1, <2>2
    <2>5. (UNION {InStaging(d) : d \in Conns}) = InStaging(c)
      BY <2>2
    <2>6. files'.src = InQueue \cup InWorker /\ files'.out = files.out
      BY <1>0, <1>1, <1>7, <2>5 DEF SourcesOwned
    <2> QED
      BY <1>1, <1>7, <2>1, <2>2, <2>3, <2>4, <2>6 DEF SourcesOwned, Slots
  <1>9. (IdsUnique /\ WorkerOwnsSlot /\ WorkerKept /\ RoomKept)'
    BY <1>1 DEF IdsUnique, WorkerOwnsSlot, WorkerKept, RoomKept, QuotaRespected
  <1>10. Stopped'
    BY <1>1, <1>7 DEF Stopped
  <1> QED
    BY <1>4, <1>5, <1>6, <1>8, <1>9, <1>10

-----------------------------------------------------------------------------
\* ---------------------------------------------------- a batch is queued

\* A request that reaches the queue is never refused: nothing is active, every
\* slot is usable, and the service is not stopping its jobs.
LEMMA QueueOpen ==
  ASSUME IInv, NEW c \in Conns, QueueBatch(c)
  PROVE  /\ ~Active /\ Usable = Slots /\ Cardinality(Usable) = SlotCount
         /\ phase \notin {"joining", "down"}
         /\ conn[c].batch \in Batches /\ Len(conn[c].batch) \in 1..SlotCount
         /\ Len(conn[c].staged) = Len(conn[c].batch)
         /\ conn[c].pc = "queue" /\ RequestKept(conn[c]) /\ Held(conn[c])
         /\ nextId + Len(conn[c].batch) <= MaxId + 1
  <1> USE DEF IInv
  <1>1. conn[c].pc = "queue" /\ conn[c] \in Request /\ RequestKept(conn[c])
    BY DEF QueueBatch, TypeOK, Requests
  <1>2. ~Active /\ nextId + Len(conn[c].batch) <= MaxId + 1
    BY <1>1 DEF Requests, Passed
  <1>3. Usable = Slots
    <2>1. \A s \in Slots : job[s].st \in {"empty", "ended"}
      BY <1>2 DEF TypeOK, Job, Active
    <2> QED
      BY <2>1 DEF Usable, Reusable, Finished
  <1>4. conn[c].batch \in Batches
    BY <1>1 DEF RequestKept, Request
  <1>5. Len(conn[c].batch) \in 1..SlotCount
    BY <1>4, BatchAssumption
  <1>6. Held(conn[c])
    BY <1>1 DEF RequestKept, Held
  <1> QED
    BY <1>1, <1>2, <1>3, <1>4, <1>5, <1>6, SlotsFinite DEF Stopped, RequestKept

\* The batch in the slots it was written to.
Filled(c) ==
  [s \in Slots |->
     IF Place(s) <= Len(conn[c].batch)
     THEN [st |-> "queued", id |-> nextId + Place(s) - 1, file |-> conn[c].batch[Place(s)],
           src |-> conn[c].staged[Place(s)], old |-> FALSE]
     ELSE job[s]]

LEMMA QueueEffect ==
  ASSUME IInv, NEW c \in Conns, QueueBatch(c)
  PROVE  /\ job' = Filled(c) /\ nextId' = nextId + Len(conn[c].batch)
         /\ UNCHANGED <<gate, worker, files, library, phase>>
         /\ conn' \in [Conns -> Request]
         /\ conn'[c].pc = "done" /\ conn'[c].batch = <<>> /\ conn'[c].staged = <<>>
         /\ RequestKept(conn'[c]) /\ Held(conn'[c]) /\ ~Passed(conn'[c])
         /\ \A d \in Conns \ {c} : conn'[d] = conn[d]
  <1>0. /\ TypeOK /\ Requests /\ conn \in [Conns -> Request] /\ conn[c] \in Request
    BY DEF IInv, TypeOK
  <1>1. /\ ~Active /\ Usable = Slots /\ ~(Cardinality(Usable) < Len(conn[c].batch))
        /\ phase \notin {"joining", "down"} /\ conn[c].pc = "queue"
    BY QueueOpen, SlotsFinite
  <1>2. /\ job' = Filled(c) /\ nextId' = nextId + Len(conn[c].batch)
        /\ conn' = [conn EXCEPT ![c].pc = "done", ![c].answer = "ok", ![c].batch = <<>>,
                                ![c].staged = <<>>]
        /\ UNCHANGED <<gate, worker, files, library, phase>>
    BY <1>1 DEF QueueBatch, Filled, Issue
  <1>3. conn' = [conn EXCEPT ![c] = [conn[c] EXCEPT !.pc = "done", !.answer = conn'[c].answer,
                                                    !.batch = <<>>, !.staged = <<>>]]
        /\ conn'[c].answer = "ok"
    BY <1>0, <1>2 DEF Request
  <1> QED
    BY <1>0, <1>1, <1>2, <1>3, LeavesQueue

LEMMA QueueBatchKeeps ==
  ASSUME IInv, NEW c \in Conns, QueueBatch(c)
  PROVE  IInv'
  <1> USE DEF IInv
  <1> DEFINE b == conn[c].batch
             q == conn[c].staged
             n == Len(b)
             New == {s \in Slots : Place(s) <= n}
  <1>0. /\ ~Active /\ Usable = Slots /\ phase \notin {"joining", "down"}
        /\ b \in Batches /\ n \in 1..SlotCount /\ Len(q) = n /\ RequestKept(conn[c]) /\ Held(conn[c])
        /\ nextId + n <= MaxId + 1 /\ Cardinality(Usable) = SlotCount
    BY QueueOpen
  <1>1. /\ job' = Filled(c) /\ nextId' = nextId + n
        /\ UNCHANGED <<gate, worker, files, library, phase>>
        /\ conn' \in [Conns -> Request]
        /\ conn'[c].pc = "done" /\ conn'[c].batch = <<>> /\ conn'[c].staged = <<>>
        /\ RequestKept(conn'[c]) /\ Held(conn'[c]) /\ ~Passed(conn'[c])
        /\ \A d \in Conns \ {c} : conn'[d] = conn[d]
    BY QueueEffect
  <1>2. /\ job \in [Slots -> Job] /\ nextId \in 1..(MaxId + 1) /\ MaxId \in Nat
        /\ q \in Seq(Names) /\ DOMAIN q = 1..n /\ b \in Seq(Songs) /\ DOMAIN b = 1..n
        /\ files \in [src : SUBSET Names, out : BOOLEAN] /\ n \in Nat
    BY <1>0, BoundsAssumption, BatchAssumption DEF TypeOK, Request
  <1>3. /\ \A s \in Slots : Place(s) \in 1..SlotCount
        /\ \A s, t \in Slots : Place(s) = Place(t) => s = t
        /\ \A i \in 1..n : \E s \in New : Place(s) = i
    <2>1. \A s \in Slots : Place(s) \in 1..SlotCount
      BY <1>0, PlaceType
    <2>2. \A s, t \in Slots : Place(s) = Place(t) => s = t
      BY <1>0, PlacesDistinct
    <2>3. ASSUME NEW i \in 1..n PROVE \E s \in New : Place(s) = i
      <3>1. i \in 1..Cardinality(Usable) /\ i <= n
        BY <1>0, BoundsAssumption
      <3> QED
        BY <1>0, <3>1, PlacesFilled
    <2> QED
      BY <2>1, <2>2, <2>3
  <1>4. \A s \in New :
          /\ job'[s] = [st |-> "queued", id |-> nextId + Place(s) - 1, file |-> b[Place(s)],
                        src |-> q[Place(s)], old |-> FALSE]
          /\ Place(s) \in 1..n
    BY <1>1, <1>2, <1>3 DEF Filled
  <1>5. \A s \in Slots \ New : job'[s] = job[s]
    BY <1>1 DEF Filled
  <1>6. \A s \in New : job'[s].st = "queued" /\ job'[s].id = nextId + Place(s) - 1
                       /\ job'[s].src = q[Place(s)]
    <2>1. ASSUME NEW s \in New
          PROVE  job'[s].st = "queued" /\ job'[s].id = nextId + Place(s) - 1
                 /\ job'[s].src = q[Place(s)]
      <3>1. job'[s] = [st |-> "queued", id |-> nextId + Place(s) - 1, file |-> b[Place(s)],
                       src |-> q[Place(s)], old |-> FALSE]
        BY <1>4
      <3> QED
        BY <3>1
    <2> QED
      BY <2>1
  <1>7. \A s \in Slots : job[s].st \in {"empty", "ended"}
    BY <1>0, <1>2 DEF Job, Active
  <1>8. TypeOK'
    <2>1. \A s \in New : job'[s] \in Job
      <3>1. ASSUME NEW s \in New PROVE job'[s] \in Job
        <4>1. /\ nextId + Place(s) - 1 \in 0..MaxId
              /\ b[Place(s)] \in Songs /\ q[Place(s)] \in Names
          <5>1. Place(s) \in 1..n
            BY <1>4
          <5>2. b[Place(s)] \in Songs /\ q[Place(s)] \in Names
            BY <1>2, <5>1
          <5> QED
            BY <1>0, <1>2, <5>1, <5>2
        <4>2. job'[s] = [st |-> "queued", id |-> nextId + Place(s) - 1, file |-> b[Place(s)],
                         src |-> q[Place(s)], old |-> FALSE]
          BY <1>4
        <4> QED
          BY <4>1, <4>2 DEF Job
      <3> QED
        BY <3>1
    <2>2. job' \in [Slots -> Job]
      BY <1>1, <1>2, <1>5, <2>1 DEF Filled
    <2>3. nextId' \in 1..(MaxId + 1)
      BY <1>0, <1>1, <1>2
    <2> QED
      BY <1>1, <2>2, <2>3 DEF TypeOK
  <1>9. Requests'
    <2>1. \A d \in Conns \ {c} : conn'[d].batch = <<>> /\ ~Passed(conn'[d]) /\ RequestKept(conn'[d])
      BY <1>0, <1>1, OthersEmpty DEF Requests
    <2>2. nextId' + Len(<<>>) <= MaxId + 1
      BY <1>0, <1>1, <1>2
    <2> QED
      BY <1>1, <2>1, <2>2 DEF Requests
  <1>10. GateHeld'
    BY <1>0, <1>1 DEF GateHeld, Holds, Held
  <1>11. IdsUnique'
    <2>1. ASSUME NEW s \in New
          PROVE  /\ job'[s].id \in 1..(nextId' - 1) /\ job'[s].id >= nextId
                 /\ \A t \in New : job'[t].id = job'[s].id => t = s
      BY <1>1, <1>2, <1>3, <1>4, <1>6
    <2>2. ASSUME NEW s \in Slots \ New, job'[s].st # "empty"
          PROVE  /\ job'[s].id \in 1..(nextId - 1) /\ job'[s].id \in 1..(nextId' - 1)
                 /\ \A t \in Slots \ New : job'[t].st # "empty" /\ job'[t].id = job'[s].id => t = s
      BY <1>1, <1>2, <1>5, <2>2 DEF IdsUnique
    <2> QED
      BY <1>2, <2>1, <2>2 DEF IdsUnique, Slots
  <1>12. SourcesOwned'
    <2>1. InQueue = {}
      BY <1>7 DEF InQueue
    <2>2. InQueue' = InStaging(c)
      <3>1. {t \in Slots : job'[t].st = "queued"} = New
        BY <1>5, <1>6, <1>7
      <3>2. {job'[s].src : s \in New} = {q[i] : i \in 1..n}
        <4>1. \A s \in New : job'[s].src = q[Place(s)] /\ Place(s) \in 1..n
          BY <1>4, <1>6
        <4> QED
          BY <1>3, <4>1
      <3>3. InQueue' = {job'[s].src : s \in New}
        BY <3>1 DEF InQueue, Slots
      <3>4. InStaging(c) = {q[i] : i \in 1..n}
        BY <1>2 DEF InStaging, Range
      <3> QED
        BY <3>2, <3>3, <3>4
    <2>3. InStaging(c)' = {} /\ InWorker' = InWorker
      BY <1>1 DEF InStaging, Range, InWorker
    <2>4. \A d \in Conns \ {c} : InStaging(d) = {} /\ InStaging(d)' = {}
      BY <1>0, <1>1, OthersEmpty DEF InStaging, Range
    <2>5. (UNION {InStaging(d) : d \in Conns})' = {}
      BY <2>3, <2>4
    <2>6. (UNION {InStaging(d) : d \in Conns}) = InStaging(c)
      BY <2>4
    <2>7. \A s, t \in Slots : job'[s].st = "queued" /\ job'[t].st = "queued" /\ s # t
                             => job'[s].src # job'[t].src
      <3>1. \A s, t \in New : s # t => q[Place(s)] # q[Place(t)]
        BY <1>0, <1>2, <1>3, <1>4 DEF RequestKept
      <3> QED
        BY <1>5, <1>6, <1>7, <3>1
    <2> QED
      BY <1>0, <1>1, <2>1, <2>2, <2>3, <2>4, <2>5, <2>6, <2>7 DEF SourcesOwned, Slots
  <1>13. worker.pc = "wait"
    BY <1>7 DEF WorkerOwnsSlot
  <1>14. (WorkerOwnsSlot /\ WorkerKept)'
    BY <1>1, <1>5, <1>6, <1>7, <1>13 DEF WorkerOwnsSlot, WorkerKept, Slots
  <1>15. (Stopped /\ RoomKept)'
    BY <1>0, <1>1 DEF Stopped, RoomKept, QuotaRespected
  <1> QED
    BY <1>8, <1>9, <1>10, <1>11, <1>12, <1>14, <1>15

-----------------------------------------------------------------------------
\* ---------------------------------------------------- the table and the worker

\* Steps that touch no request and start no job leave the requests' part alone.
LEMMA RequestsSame ==
  ASSUME Requests, GateHeld, UNCHANGED <<gate, conn, nextId>>, Active' => Active
  PROVE  Requests' /\ GateHeld'
  BY DEF Requests, GateHeld, Holds

\* A job that waits or has ended may end or leave the table.
Fades(s) ==
  \/ job'[s] = job[s]
  \/ job[s].st \in {"queued", "ended"} /\ job'[s].st = "ended" /\ job'[s].id = job[s].id
  \/ job[s].st \in {"queued", "ended"} /\ job'[s].st = "empty"

LEMMA FadesKeeps ==
  ASSUME IInv, UNCHANGED <<gate, conn, nextId, worker, library>>, \A s \in Slots : Fades(s)
  PROVE  Requests' /\ GateHeld' /\ IdsUnique' /\ WorkerOwnsSlot' /\ WorkerKept' /\ RoomKept'
  <1> USE DEF IInv
  <1>1. Active' => Active
    BY DEF Active, Fades, Slots
  <1>2. IdsUnique'
    <2>1. \A s \in Slots : job'[s].st # "empty" => job[s].st # "empty" /\ job'[s].id = job[s].id
      BY DEF Fades
    <2> QED
      BY <2>1 DEF IdsUnique, Slots
  <1>3. WorkerOwnsSlot'
    <2>1. \A s \in Slots : /\ job'[s].st = "processing" <=> job[s].st = "processing"
                           /\ job[s].st = "processing" => job'[s] = job[s]
                           /\ job'[s].st # "empty" => job[s].st # "empty" /\ job'[s].id = job[s].id
      BY DEF Fades
    <2>2. CASE worker.pc = "wait"
      BY <2>1, <2>2 DEF WorkerOwnsSlot, Slots
    <2>3. CASE worker.pc # "wait"
      <3>1. PICK s \in Slots :
              /\ {t \in Slots : job[t].st = "processing"} = {s}
              /\ job[s].id = worker.id /\ job[s].file = worker.file
              /\ \A t \in Slots : job[t].st # "empty" /\ job[t].id = worker.id => t = s
        BY <2>3 DEF WorkerOwnsSlot
      <3>2. {t \in Slots : job'[t].st = "processing"} = {s} /\ job'[s] = job[s]
        BY <2>1, <3>1
      <3>3. \A t \in Slots : job'[t].st # "empty" /\ job'[t].id = worker.id => t = s
        BY <2>1, <3>1
      <3> QED
        BY <2>3, <3>1, <3>2, <3>3 DEF WorkerOwnsSlot, Slots
    <2> QED
      BY <2>2, <2>3
  <1> QED
    BY <1>1, <1>2, <1>3, RequestsSame DEF WorkerKept, RoomKept, QuotaRespected

\* When every waiting job goes with its source, only staging and worker own some.
LEMMA QueueEmptied ==
  ASSUME IInv, UNCHANGED <<conn, worker>>, phase \notin {"down"},
         files' = [files EXCEPT !.src = @ \ InQueue],
         \A s \in Slots : job'[s].st # "queued"
  PROVE  SourcesOwned'
  <1> USE DEF IInv
  <1>1. files \in [src : SUBSET Names, out : BOOLEAN]
    BY DEF TypeOK
  <1>2. InQueue' = {} /\ InWorker' = InWorker
    BY DEF InQueue, InWorker, Slots
  <1>3. \A d \in Conns : InStaging(d)' = InStaging(d)
    BY DEF InStaging
  <1>4. (UNION {InStaging(d) : d \in Conns})' = UNION {InStaging(d) : d \in Conns}
    BY <1>3
  <1>5. files'.src = files.src \ InQueue /\ files'.out = files.out
    BY <1>1
  <1>6. (UNION {InStaging(d) : d \in Conns}) \cap InQueue = {}
    BY DEF SourcesOwned
  <1> QED
    BY <1>2, <1>3, <1>4, <1>5, <1>6 DEF SourcesOwned, Slots

LEMMA ClearQueuedKeeps == ASSUME IInv, ClearQueued PROVE IInv'
  <1> USE DEF IInv
  <1>1. /\ UNCHANGED <<gate, conn, nextId, worker, library, phase>> /\ phase = "up"
        /\ files' = [files EXCEPT !.src = @ \ InQueue]
        /\ job' = [s \in Slots |-> IF job[s].st = "queued" THEN EmptyJob ELSE job[s]]
    BY DEF ClearQueued, InQueue
  <1>2. \A s \in Slots : Fades(s) /\ job'[s].st # "queued"
    BY <1>1 DEF Fades, EmptyJob
  <1>3. TypeOK'
    <2>1. job' \in [Slots -> Job]
      BY <1>1, ResetsTyped DEF TypeOK
    <2>2. files' \in [src : SUBSET Names, out : BOOLEAN]
      BY <1>1 DEF TypeOK
    <2> QED
      BY <1>1, <2>1, <2>2 DEF TypeOK
  <1>4. Stopped'
    BY <1>1 DEF Stopped
  <1> QED
    BY <1>1, <1>2, <1>3, <1>4, FadesKeeps, QueueEmptied

LEMMA StopJobsKeeps == ASSUME IInv, StopJobs PROVE IInv'
  <1> USE DEF IInv
  <1>1. /\ UNCHANGED <<gate, conn, nextId, worker, library>>
        /\ phase = "stopping" /\ phase' = "joining" /\ \A c \in Conns : conn[c].pc = "idle"
        /\ files' = [files EXCEPT !.src = @ \ InQueue]
        /\ job' = [s \in Slots |-> IF job[s].st = "queued"
                                   THEN [job[s] EXCEPT !.st = "ended", !.src = None] ELSE job[s]]
    BY DEF StopJobs, InQueue
  <1>2. job \in [Slots -> Job]
    BY DEF TypeOK
  <1>3. \A s \in Slots : Fades(s) /\ job'[s].st # "queued"
    BY <1>1, <1>2 DEF Fades, Job
  <1>4. TypeOK'
    <2>1. job' \in [Slots -> Job]
      BY <1>1, <1>2 DEF Job
    <2>2. files' \in [src : SUBSET Names, out : BOOLEAN]
      BY <1>1 DEF TypeOK
    <2> QED
      BY <1>1, <2>1, <2>2 DEF TypeOK
  <1>5. Stopped'
    BY <1>1 DEF Stopped
  <1> QED
    BY <1>1, <1>3, <1>4, <1>5, FadesKeeps, QueueEmptied

\* Only the history changes: the waiting jobs and their sources stay.
LEMMA HistoryKeeps ==
  ASSUME IInv, Snapshot \/ \E s \in Slots : Ages(s)
  PROVE  IInv'
  <1> USE DEF IInv
  <1>1. /\ UNCHANGED <<gate, conn, nextId, worker, files, library, phase>>
        /\ \E s \in Slots : job[s].st # "empty"
    BY DEF Snapshot, Ages, Finished
  <1>2. job \in [Slots -> Job]
    BY DEF TypeOK
  <1>3. /\ job' \in [Slots -> Job]
        /\ \A s \in Slots : \/ job'[s] = job[s]
                            \/ /\ job[s].st = "ended" /\ job'[s].st \in {"ended", "empty"}
                               /\ job'[s].st = "ended" => job'[s].id = job[s].id
    <2>1. CASE Snapshot
      BY <1>2, <2>1, ResetsTyped DEF Snapshot, Finished, EmptyJob
    <2>2. ASSUME NEW s \in Slots, Ages(s) PROVE <1>3
      <3>1. job' = [job EXCEPT ![s] = [job[s] EXCEPT !.old = TRUE]] /\ job[s].st = "ended"
        BY <1>2, <2>2 DEF Ages, Finished
      <3>2. [job[s] EXCEPT !.old = TRUE] \in Job
        BY <1>2 DEF Job
      <3>3. [job[s] EXCEPT !.old = TRUE].st = "ended" /\ [job[s] EXCEPT !.old = TRUE].id = job[s].id
        BY <1>2, <3>1 DEF Job
      <3> QED
        BY <1>2, <3>1, <3>2, <3>3
    <2> QED
      BY <2>1, <2>2
  <1>4. \A s \in Slots : Fades(s)
    BY <1>3 DEF Fades
  <1>5. TypeOK' /\ Stopped'
    BY <1>1, <1>3 DEF TypeOK, Stopped, Blank, EmptyJob
  <1>6. \A s \in Slots : /\ job'[s].st = "queued" <=> job[s].st = "queued"
                         /\ job[s].st = "queued" => job'[s] = job[s]
    BY <1>3
  <1>7. SourcesOwned'
    <2>1. InQueue' = InQueue /\ InWorker' = InWorker
      BY <1>1, <1>6 DEF InQueue, InWorker, Slots
    <2>2. \A d \in Conns : InStaging(d)' = InStaging(d)
      BY <1>1 DEF InStaging
    <2>3. (UNION {InStaging(d) : d \in Conns})' = UNION {InStaging(d) : d \in Conns}
      BY <2>2
    <2>4. \A s, t \in Slots : job'[s].st = "queued" /\ job'[t].st = "queued" /\ s # t
                                /\ phase # "down" => job'[s].src # job'[t].src
      BY <1>6 DEF SourcesOwned
    <2> QED
      BY <1>1, <2>1, <2>2, <2>3, <2>4 DEF SourcesOwned, Slots
  <1> QED
    BY <1>1, <1>4, <1>5, <1>7, FadesKeeps

-----------------------------------------------------------------------------
\* ---------------------------------------------------- the worker

LEMMA TakeJobKeeps == ASSUME IInv, TakeJob PROVE IInv'
  <1> USE DEF IInv
  <1>1. PICK s \in Slots :
          /\ job[s].st = "queued"
          /\ job' = [job EXCEPT ![s].st = "processing"]
          /\ worker' = [Resting EXCEPT !.pc = "output", !.id = job[s].id,
                                       !.file = job[s].file, !.src = job[s].src]
    BY DEF TakeJob
  <1>2. /\ UNCHANGED <<gate, conn, nextId, phase, files, library>>
        /\ worker.pc = "wait" /\ phase \in {"up", "stopping"}
    BY DEF TakeJob, KeepRequests
  <1>3. job \in [Slots -> Job] /\ job[s] \in Job /\ worker = Resting
    BY <1>2 DEF TypeOK, WorkerKept
  <1>4. /\ job' = [job EXCEPT ![s] = [job[s] EXCEPT !.st = "processing"]]
        /\ [job[s] EXCEPT !.st = "processing"] \in Job
        /\ job'[s].st = "processing" /\ job'[s].id = job[s].id /\ job'[s].file = job[s].file
        /\ \A t \in Slots \ {s} : job'[t] = job[t]
    BY <1>1, <1>3 DEF Job
  <1>5. /\ worker'.pc = "output" /\ worker'.id = job[s].id /\ worker'.file = job[s].file
        /\ worker'.src = job[s].src
    BY <1>1 DEF Resting
  <1>6. TypeOK'
    <2>1. job' \in [Slots -> Job]
      BY <1>3, <1>4
    <2>2. worker' \in Worker
      BY <1>1, <1>3, ResetsTyped DEF Worker, Job
    <2> QED
      BY <1>2, <2>1, <2>2 DEF TypeOK
  <1>7. Requests' /\ GateHeld'
    <2>1. Active
      BY <1>1 DEF Active
    <2> QED
      BY <1>2, <2>1, RequestsSame
  <1>8. IdsUnique'
    <2>1. \A t \in Slots : /\ job'[t].st # "empty" <=> job[t].st # "empty"
                           /\ job'[t].id = job[t].id
      BY <1>1, <1>4
    <2> QED
      BY <1>2, <2>1 DEF IdsUnique, Slots
  <1>9. \A t \in Slots : job[t].st # "processing"
    BY <1>2 DEF WorkerOwnsSlot
  <1>10. WorkerOwnsSlot'
    <2>1. {t \in Slots : job'[t].st = "processing"} = {s}
      BY <1>4, <1>9
    <2>2. \A t \in Slots : job'[t].st # "empty" /\ job'[t].id = worker'.id => t = s
      BY <1>1, <1>4, <1>5 DEF IdsUnique
    <2> QED
      BY <1>4, <1>5, <2>1, <2>2 DEF WorkerOwnsSlot, Slots
  <1>11. SourcesOwned'
    <2>1. InWorker = {}
      BY <1>3 DEF InWorker, Resting
    <2>2. job[s].src \in InQueue /\ job[s].src # None
      <3>1. job[s].src \in InQueue
        BY <1>1 DEF InQueue
      <3>2. job[s].src \in Names
        BY <1>2, <3>1 DEF SourcesOwned, TypeOK
      <3> QED
        BY <3>1, <3>2, BoundsAssumption DEF Names, None
    <2>3. InWorker' = {job[s].src}
      BY <1>5, <2>2 DEF InWorker, None
    <2>4. \A t \in Slots : job'[t].st = "queued" <=> t # s /\ job[t].st = "queued"
      BY <1>4
    <2>5. \A t, u \in Slots : job[t].st = "queued" /\ job[u].st = "queued" /\ t # u
                                => job[t].src # job[u].src
      BY <1>2 DEF SourcesOwned
    <2>6. InQueue' = InQueue \ {job[s].src}
      <3>1. {job'[t].src : t \in {u \in Slots : job'[u].st = "queued"}}
              = {job[t].src : t \in {u \in Slots : job[u].st = "queued"}} \ {job[s].src}
        BY <1>1, <1>4, <2>4, <2>5
      <3> QED
        BY <3>1 DEF InQueue, Slots
    <2>7. \A d \in Conns : InStaging(d)' = InStaging(d)
      BY <1>2 DEF InStaging
    <2>8. (UNION {InStaging(d) : d \in Conns})' = UNION {InStaging(d) : d \in Conns}
      BY <2>7
    <2>9. ~files'.out
      BY <1>2 DEF SourcesOwned
    <2>10. files.src = (UNION {InStaging(d) : d \in Conns}) \cup InQueue
      BY <1>2, <2>1 DEF SourcesOwned
    <2>11. \A d \in Conns : InStaging(d) \cap InQueue = {}
      BY <1>2 DEF SourcesOwned
    <2>12. \A t, u \in Slots : job'[t].st = "queued" /\ job'[u].st = "queued" /\ t # u
                                 => job'[t].src # job'[u].src
      BY <1>4, <2>4, <2>5
    <2> QED
      BY <1>2, <2>2, <2>3, <2>6, <2>7, <2>8, <2>9, <2>10, <2>11, <2>12 DEF SourcesOwned, Slots
  <1>12. (WorkerKept /\ Stopped /\ RoomKept)'
    BY <1>2, <1>5 DEF WorkerKept, Stopped, RoomKept, QuotaRespected
  <1> QED
    BY <1>6, <1>7, <1>8, <1>10, <1>11, <1>12

\* A step of the worker inside a job: it keeps its slot, and keeps or gives up its source.
Goes == /\ UNCHANGED <<gate, conn, job, nextId, phase>>
        /\ worker.pc # "wait" /\ worker' \in Worker /\ worker'.pc # "wait"
        /\ worker'.id = worker.id /\ worker'.file = worker.file
        /\ files' \in [src : SUBSET Names, out : BOOLEAN]
        /\ \/ files'.src = files.src /\ worker'.src = worker.src
           \/ files'.src = files.src \ {worker.src} /\ worker'.src = None
        /\ files'.out => worker'.pc \in {"optimize", "scan", "quota", "rename"}

LEMMA WorkingIsUp == Stopped /\ worker.pc # "wait" => phase # "down"
  BY DEF Stopped, Blank, Resting

LEMMA GoesKeeps ==
  ASSUME IInv, Goes
  PROVE  /\ Requests' /\ GateHeld' /\ IdsUnique' /\ SourcesOwned' /\ WorkerOwnsSlot' /\ Stopped'
         /\ phase # "down"
  <1> USE DEF IInv
  <1>1. phase # "down"
    BY WorkingIsUp DEF Goes
  <1>2. Requests' /\ GateHeld'
    BY RequestsSame DEF Goes, Active, Slots
  <1>3. IdsUnique' /\ Stopped'
    BY <1>1 DEF Goes, IdsUnique, Stopped, Slots
  <1>4. WorkerOwnsSlot'
    BY DEF Goes, WorkerOwnsSlot, Slots
  <1>5. SourcesOwned'
    <2>1. /\ files.src = (UNION {InStaging(d) : d \in Conns}) \cup InQueue \cup InWorker
          /\ InQueue \cap InWorker = {}
          /\ \A d \in Conns : InStaging(d) \cap (InQueue \cup InWorker) = {}
      BY <1>1 DEF SourcesOwned
    <2>2. None \notin files.src
      BY BoundsAssumption DEF TypeOK, Names, None
    <2>3. InQueue' = InQueue /\ \A d \in Conns : InStaging(d)' = InStaging(d)
      BY DEF Goes, InQueue, InStaging, Slots
    <2>4. (UNION {InStaging(d) : d \in Conns})' = UNION {InStaging(d) : d \in Conns}
      BY <2>3
    <2>5. \/ files'.src = files.src /\ InWorker' = InWorker
          \/ files'.src = files.src \ InWorker /\ InWorker' = {}
      BY <2>2 DEF Goes, InWorker
    <2>6. files'.src = (UNION {InStaging(d) : d \in Conns}) \cup InQueue \cup InWorker'
          /\ InWorker' \subseteq InWorker
      BY <2>1, <2>5
    <2> QED
      BY <1>1, <2>1, <2>3, <2>4, <2>6 DEF SourcesOwned, Goes, Slots
  <1> QED
    BY <1>1, <1>2, <1>3, <1>4, <1>5

\* The stages of process_job that decide nothing.
LEMMA StagesKeep ==
  ASSUME IInv, CreateOutput \/ Optimize \/ RemoveSource \/ JobFails
  PROVE  IInv'
  <1> USE DEF IInv
  <1>0. worker \in Worker /\ files \in [src : SUBSET Names, out : BOOLEAN]
    BY DEF TypeOK
  <1>1. UNCHANGED <<gate, conn, job, nextId, phase, library>>
    BY DEF CreateOutput, Optimize, RemoveSource, JobFails, KeepRequests
  <1>2. Goes /\ worker'.pc \in {"optimize", "scan", "finish"}
        /\ (worker'.pc = "finish" => worker'.src = None)
    <2>1. CASE CreateOutput
      BY <1>0, <1>1, <2>1 DEF CreateOutput, Goes, Worker
    <2>2. CASE Optimize
      <3>1. PICK n \in 1..MaxSize : worker' = [worker EXCEPT !.pc = "scan", !.size = n]
        BY <2>2 DEF Optimize
      <3>2. n \in 0..MaxSize
        BY BoundsAssumption
      <3>3. phase # "down" /\ (files.out => worker.pc = "optimize")
        BY <2>2, WorkingIsUp DEF SourcesOwned, Optimize
      <3> QED
        BY <1>0, <1>1, <2>2, <3>1, <3>2, <3>3 DEF Optimize, Goes, Worker
    <2>3. CASE RemoveSource
      <3>1. phase # "down" /\ ~files.out
        BY <2>3, WorkingIsUp DEF SourcesOwned, RemoveSource
      <3>2. files' = [files EXCEPT !.src = files.src \ {worker.src}]
            /\ worker' = [worker EXCEPT !.pc = "finish", !.src = None, !.size = 0]
            /\ worker.pc = "cleanup"
        BY <2>3 DEF RemoveSource
      <3>3. worker' \in Worker /\ worker'.pc = "finish" /\ worker'.src = None
            /\ worker'.id = worker.id /\ worker'.file = worker.file
        <4>1. 0 \in 0..MaxSize /\ 0 \in Nat
          BY BoundsAssumption
        <4>2. worker' \in Worker
          BY <1>0, <3>2, <4>1 DEF Worker
        <4> QED
          BY <1>0, <3>2, <4>2 DEF Worker
      <3>4. /\ files' \in [src : SUBSET Names, out : BOOLEAN]
            /\ files'.src = files.src \ {worker.src} /\ ~files'.out
        BY <1>0, <3>1, <3>2
      <3> QED
        BY <1>1, <3>2, <3>3, <3>4 DEF Goes
    <2>4. CASE JobFails
      <3>1. files' = [src |-> files.src \ {worker.src}, out |-> FALSE]
            /\ worker' = [worker EXCEPT !.pc = "finish", !.src = None, !.size = 0, !.seen = 0]
            /\ worker.pc # "wait"
        BY <2>4 DEF JobFails
      <3>2. worker' \in Worker /\ worker'.pc = "finish" /\ worker'.src = None
            /\ worker'.id = worker.id /\ worker'.file = worker.file
        <4>1. 0 \in 0..MaxSize /\ 0 \in Nat
          BY BoundsAssumption
        <4>2. worker' \in Worker
          BY <1>0, <3>1, <4>1 DEF Worker
        <4> QED
          BY <1>0, <3>1, <4>2 DEF Worker
      <3>3. /\ files' \in [src : SUBSET Names, out : BOOLEAN]
            /\ files'.src = files.src \ {worker.src} /\ ~files'.out
        BY <1>0, <3>1
      <3> QED
        BY <1>1, <3>1, <3>2, <3>3 DEF Goes
    <2> QED
      BY <2>1, <2>2, <2>3, <2>4
  <1>3. TypeOK'
    BY <1>1, <1>2 DEF TypeOK, Goes
  <1>4. WorkerKept' /\ RoomKept'
    BY <1>1, <1>2 DEF WorkerKept, RoomKept, QuotaRespected
  <1> QED
    BY <1>2, <1>3, <1>4, GoesKeeps

\* The decisions of output_quota_allows, and the rename they allow.
LEMMA ScanLibraryKeeps == ASSUME IInv, ScanLibrary PROVE IInv'
  <1> USE DEF IInv
  <1>0. worker \in Worker /\ files \in [src : SUBSET Names, out : BOOLEAN] /\ library \in Sizes
    BY DEF TypeOK, Sizes
  <1>1. /\ UNCHANGED <<gate, conn, job, nextId, phase, library, files>>
        /\ worker' = [worker EXCEPT !.pc = "quota", !.seen = Bytes(library)]
        /\ worker.pc = "scan" /\ Bytes(library) \in Nat
    BY <1>0, UnitsFinite DEF ScanLibrary, KeepRequests
  <1>2. worker' \in Worker /\ worker'.pc = "quota" /\ worker'.seen = Bytes(library)
        /\ worker'.src = worker.src /\ worker'.id = worker.id /\ worker'.file = worker.file
    BY <1>0, <1>1 DEF Worker
  <1>3. Goes
    BY <1>0, <1>1, <1>2 DEF Goes
  <1>4. TypeOK' /\ WorkerKept'
    BY <1>1, <1>2 DEF TypeOK, WorkerKept
  <1>5. RoomKept'
    BY <1>1, <1>2 DEF RoomKept, QuotaRespected
  <1> QED
    BY <1>3, <1>4, <1>5, GoesKeeps

LEMMA WithinQuotaKeeps == ASSUME IInv, WithinQuota PROVE IInv'
  <1> USE DEF IInv
  <1>0. worker \in Worker /\ files \in [src : SUBSET Names, out : BOOLEAN] /\ library \in Sizes
        /\ worker.file \in Songs /\ worker.size \in 0..MaxSize /\ worker.seen \in Nat
    BY DEF TypeOK, Sizes, Worker
  <1>1. /\ UNCHANGED <<gate, conn, job, nextId, phase, library, files>>
        /\ worker' = [worker EXCEPT !.pc = "rename", !.seen = 0]
        /\ worker.pc = "quota" /\ Retained + worker.size <= Quota
    BY DEF WithinQuota, KeepRequests
  <1>2. worker' \in Worker /\ worker'.pc = "rename" /\ worker'.size = worker.size
        /\ worker'.src = worker.src /\ worker'.id = worker.id /\ worker'.file = worker.file
    BY <1>0, <1>1 DEF Worker
  <1>3. Goes
    BY <1>0, <1>1, <1>2 DEF Goes
  <1>4. TypeOK' /\ WorkerKept'
    BY <1>1, <1>2 DEF TypeOK, WorkerKept
  <1>5. Bytes([library EXCEPT ![worker.file] = 0]) + worker.size <= Quota
    <2>1. Bytes(library) <= worker.seen
      BY <1>1 DEF RoomKept
    <2>2. /\ Bytes(library) = Bytes([library EXCEPT ![worker.file] = 0]) + library[worker.file]
          /\ Bytes([library EXCEPT ![worker.file] = 0]) \in Nat
          /\ library[worker.file] \in Nat
      <3>1. library[worker.file] \in Nat
        BY <1>0, BoundsAssumption DEF Sizes
      <3> QED
        BY <1>0, <3>1, BytesSplit, UnitsFinite
    <2>3. Retained = worker.seen - library[worker.file]
      BY <1>0, <2>1, <2>2 DEF Retained
    <2> QED
      BY <1>0, <1>1, <2>1, <2>2, <2>3, BoundsAssumption
  <1>6. RoomKept'
    BY <1>1, <1>2, <1>5 DEF RoomKept, QuotaRespected
  <1> QED
    BY <1>3, <1>4, <1>6, GoesKeeps

LEMMA RenameKeeps == ASSUME IInv, Rename PROVE IInv'
  <1> USE DEF IInv
  <1>0. worker \in Worker /\ files \in [src : SUBSET Names, out : BOOLEAN] /\ library \in Sizes
        /\ worker.file \in Songs /\ worker.size \in 0..MaxSize
    BY DEF TypeOK, Sizes, Worker
  <1>1. /\ UNCHANGED <<gate, conn, job, nextId, phase>>
        /\ library' = [library EXCEPT ![worker.file] = worker.size]
        /\ files' = [files EXCEPT !.out = FALSE]
        /\ worker' = [worker EXCEPT !.pc = "cleanup"] /\ worker.pc = "rename"
    BY DEF Rename, KeepRequests
  <1>2. worker' \in Worker /\ worker'.pc = "cleanup"
        /\ worker'.src = worker.src /\ worker'.id = worker.id /\ worker'.file = worker.file
    BY <1>0, <1>1 DEF Worker
  <1>3. files' \in [src : SUBSET Names, out : BOOLEAN] /\ files'.src = files.src /\ ~files'.out
    BY <1>0, <1>1
  <1>4. Goes
    BY <1>0, <1>1, <1>2, <1>3 DEF Goes
  <1>5. /\ library' \in Sizes
        /\ Bytes(library') = Bytes([library EXCEPT ![worker.file] = 0]) + worker.size
    BY <1>0, <1>1, BytesReplaced
  <1>6. TypeOK' /\ WorkerKept'
    BY <1>1, <1>2, <1>3, <1>5 DEF TypeOK, WorkerKept, Sizes
  <1>7. RoomKept'
    BY <1>1, <1>2, <1>5 DEF RoomKept, QuotaRespected
  <1> QED
    BY <1>4, <1>6, <1>7, GoesKeeps

LEMMA FinishJobKeeps == ASSUME IInv, FinishJob PROVE IInv'
  <1> USE DEF IInv
  <1>1. /\ UNCHANGED <<gate, conn, nextId, phase, files, library>>
        /\ worker.pc = "finish" /\ worker' = Resting
        /\ job' = [s \in Slots |-> IF job[s].st # "empty" /\ job[s].id = worker.id
                     THEN [job[s] EXCEPT !.st = "ended", !.src = None] ELSE job[s]]
    BY DEF FinishJob, KeepRequests
  <1>2. job \in [Slots -> Job]
    BY DEF TypeOK
  <1>3. PICK s \in Slots :
          /\ {t \in Slots : job[t].st = "processing"} = {s}
          /\ job[s].id = worker.id
          /\ \A t \in Slots : job[t].st # "empty" /\ job[t].id = worker.id => t = s
    BY <1>1 DEF WorkerOwnsSlot
  <1>4. job[s].st = "processing"
    BY <1>3
  <1>5. \A t \in Slots \ {s} : job'[t] = job[t] /\ job[t].st # "processing"
    BY <1>1, <1>3
  <1>6. job'[s] = [job[s] EXCEPT !.st = "ended", !.src = None]
    BY <1>1, <1>3, <1>4
  <1>7. job'[s] \in Job /\ job'[s].st = "ended" /\ job'[s].id = job[s].id
    BY <1>2, <1>6 DEF Job
  <1>8. TypeOK'
    <2>1. job' \in [Slots -> Job]
      BY <1>1, <1>2, <1>5, <1>7
    <2> QED
      BY <1>1, <2>1, ResetsTyped DEF TypeOK
  <1>9. Requests' /\ GateHeld'
    <2>1. Active
      BY <1>4 DEF Active
    <2> QED
      BY <1>1, <2>1, RequestsSame
  <1>10. IdsUnique'
    <2>1. \A t \in Slots : /\ job'[t].st # "empty" <=> job[t].st # "empty"
                           /\ job'[t].id = job[t].id
      BY <1>4, <1>5, <1>7
    <2> QED
      BY <1>1, <2>1 DEF IdsUnique, Slots
  <1>11. (WorkerOwnsSlot /\ WorkerKept)'
    BY <1>1, <1>5, <1>7 DEF WorkerOwnsSlot, WorkerKept, Resting, Slots
  <1>12. phase # "down"
    BY <1>1, WorkingIsUp
  <1>13. SourcesOwned'
    <2>1. \A t \in Slots : /\ job'[t].st = "queued" <=> job[t].st = "queued"
                           /\ job[t].st = "queued" => job'[t] = job[t]
      BY <1>4, <1>5, <1>7
    <2>2. InQueue' = InQueue
      BY <2>1 DEF InQueue, Slots
    <2>3. InWorker = {} /\ InWorker' = {}
      BY <1>1 DEF InWorker, WorkerKept, Resting
    <2>4. \A d \in Conns : InStaging(d)' = InStaging(d)
      BY <1>1 DEF InStaging
    <2>5. (UNION {InStaging(d) : d \in Conns})' = UNION {InStaging(d) : d \in Conns}
      BY <2>4
    <2>6. ~files'.out
      BY <1>1, <1>12 DEF SourcesOwned
    <2>7. \A t, u \in Slots : job'[t].st = "queued" /\ job'[u].st = "queued" /\ t # u
                                => job'[t].src # job'[u].src
      BY <1>12, <2>1 DEF SourcesOwned
    <2> QED
      BY <1>1, <1>12, <2>2, <2>3, <2>4, <2>5, <2>6, <2>7 DEF SourcesOwned, Slots
  <1>14. (Stopped /\ RoomKept)'
    BY <1>1, <1>12 DEF Stopped, RoomKept, QuotaRespected, Resting
  <1> QED
    BY <1>8, <1>9, <1>10, <1>11, <1>13, <1>14

-----------------------------------------------------------------------------
\* ---------------------------------------------------- stop, crash and start

Fresh == /\ Blank /\ phase \in {"up", "down"} /\ QuotaRespected
         /\ files \in [src : SUBSET Names, out : BOOLEAN] /\ library \in Sizes
         /\ phase = "up" => files = [src |-> {}, out |-> FALSE]

LEMMA FreshHolds == Fresh => IInv
  <1> SUFFICES ASSUME Fresh PROVE IInv
    OBVIOUS
  <1> USE DEF Fresh
  <1>1. TypeOK
    <2>1. conn \in [Conns -> Request] /\ job \in [Slots -> Job] /\ worker \in Worker
      BY ResetsTyped DEF Blank
    <2>2. gate \in BOOLEAN /\ nextId \in 1..(MaxId + 1)
      <3>1. 1 \in 1..(MaxId + 1)
        BY BoundsAssumption
      <3> QED
        BY <3>1 DEF Blank
    <2> QED
      BY <2>1, <2>2 DEF TypeOK, Sizes
  <1>2. /\ \A c \in Conns : conn[c] = Quiet /\ InStaging(c) = {}
        /\ \A s \in Slots : job[s].st = "empty"
        /\ worker.pc = "wait" /\ worker.src = None
    BY DEF Blank, EmptyJob, Resting, InStaging, Quiet, Range
  <1>3. ~Active
    BY <1>2 DEF Active
  <1>4. Requests
    <2>1. RequestKept(Quiet) /\ ~Passed(Quiet) /\ Len(Quiet.batch) = 0
      BY DEF RequestKept, Passed, Quiet, Held
    <2> QED
      BY <1>2, <2>1, BoundsAssumption DEF Requests, Blank
  <1>5. GateHeld
    BY <1>2 DEF GateHeld, Holds, Blank, Quiet
  <1>6. IdsUnique /\ WorkerOwnsSlot /\ WorkerKept
    BY <1>2 DEF IdsUnique, WorkerOwnsSlot, WorkerKept, Blank
  <1>7. SourcesOwned
    <2>1. InQueue = {} /\ InWorker = {}
      BY <1>2 DEF InQueue, InWorker
    <2>2. UNION {InStaging(c) : c \in Conns} = {}
      BY <1>2
    <2> QED
      BY <1>2, <2>1, <2>2 DEF SourcesOwned
  <1>8. Stopped /\ RoomKept
    BY <1>2 DEF Stopped, RoomKept, Quiet, Blank
  <1> QED
    BY <1>1, <1>4, <1>5, <1>6, <1>7, <1>8 DEF IInv

LEMMA FreshAfter == Fresh' => IInv'
  BY FreshHolds, PTL

LEMMA InitHolds == Init => IInv
  <1> SUFFICES ASSUME Init PROVE IInv
    OBVIOUS
  <1>1. Blank /\ phase = "up" /\ files = [src |-> {}, out |-> FALSE]
    BY DEF Init, Blank
  <1>2. library \in Sizes /\ QuotaRespected
    BY BoundsAssumption DEF Init, Sizes, QuotaRespected
  <1> QED
    BY <1>1, <1>2, FreshHolds DEF Fresh

LEMMA LifeKeeps ==
  ASSUME IInv, StopDaemon \/ Exit \/ Crash \/ Start
  PROVE  IInv'
  <1> USE DEF IInv
  <1>1. CASE StopDaemon
    <2>1. UNCHANGED <<gate, conn, job, nextId, worker, files, library>>
          /\ phase = "up" /\ phase' = "stopping"
      BY <1>1 DEF StopDaemon
    <2>2. TypeOK' /\ Stopped' /\ IdsUnique' /\ WorkerOwnsSlot' /\ WorkerKept' /\ RoomKept'
      BY <2>1 DEF TypeOK, Stopped, IdsUnique, WorkerOwnsSlot, WorkerKept, RoomKept, QuotaRespected
    <2>3. Requests' /\ GateHeld'
      BY <2>1, RequestsSame DEF Active
    <2>4. SourcesOwned'
      <3>1. InQueue' = InQueue /\ InWorker' = InWorker
            /\ \A d \in Conns : InStaging(d)' = InStaging(d)
        BY <2>1 DEF InQueue, InWorker, InStaging, Slots
      <3>2. (UNION {InStaging(d) : d \in Conns})' = UNION {InStaging(d) : d \in Conns}
        BY <3>1
      <3> QED
        BY <2>1, <3>1, <3>2 DEF SourcesOwned, Slots
    <2> QED
      BY <2>2, <2>3, <2>4
  <1>2. CASE Exit \/ Crash
    <2>1. Blank' /\ phase' = "down" /\ UNCHANGED <<files, library>>
      BY <1>2 DEF Exit, Crash, Gone, Blank, Slots, Quiet, EmptyJob, Resting, None
    <2>2. files' \in [src : SUBSET Names, out : BOOLEAN] /\ library' \in Sizes /\ QuotaRespected'
      BY <2>1 DEF TypeOK, Sizes, RoomKept, QuotaRespected
    <2> QED
      BY <2>1, <2>2, FreshAfter DEF Fresh
  <1>3. CASE Start
    <2>1. UNCHANGED <<gate, conn, job, nextId, worker, library>> /\ phase = "down"
          /\ phase' = "up" /\ files' = [src |-> {}, out |-> FALSE]
      BY <1>3 DEF Start
    <2>2. Blank'
      BY <2>1 DEF Stopped, Blank, Slots, Quiet, EmptyJob, Resting, None
    <2>3. files' \in [src : SUBSET Names, out : BOOLEAN] /\ library' \in Sizes /\ QuotaRespected'
      BY <2>1 DEF TypeOK, Sizes, RoomKept, QuotaRespected
    <2> QED
      BY <2>1, <2>2, <2>3, FreshAfter DEF Fresh
  <1> QED
    BY <1>1, <1>2, <1>3

-----------------------------------------------------------------------------
\* ---------------------------------------------------- the theorems

LEMMA StutterKeeps == ASSUME IInv, UNCHANGED vars PROVE IInv'
  <1> USE DEF IInv
  <1>1. UNCHANGED <<gate, conn, job, nextId, worker, files, library, phase>>
    BY DEF vars
  <1>2. TypeOK' /\ Stopped' /\ IdsUnique' /\ WorkerOwnsSlot' /\ WorkerKept' /\ RoomKept'
    BY <1>1 DEF TypeOK, Stopped, Blank, IdsUnique, WorkerOwnsSlot, WorkerKept, RoomKept, QuotaRespected
  <1>3. Requests' /\ GateHeld'
    BY <1>1, RequestsSame DEF Active
  <1>4. SourcesOwned'
    BY <1>1, OwnersSame
  <1> QED
    BY <1>2, <1>3, <1>4

LEMMA IInvStep == IInv /\ [Next]_vars => IInv'
  <1> SUFFICES ASSUME IInv, [Next]_vars PROVE IInv'
    OBVIOUS
  <1>1. ASSUME NEW c \in Conns, Begin(c) \/ Serve(c) PROVE IInv'
    <2>1. OwnStep(c) \/ Stage(c) \/ QueueBatch(c) \/ DropStaged(c) \/ Unlink(c)
      BY <1>1 DEF Begin, Serve, OwnStep
    <2> QED
      BY <2>1, OwnStepKeeps, StageKeeps, QueueBatchKeeps, DropStagedKeeps, UnlinkKeeps
  <1>2. CASE ClearQueued \/ Snapshot \/ \E s \in Slots : Ages(s)
    BY <1>2, ClearQueuedKeeps, HistoryKeeps
  <1>3. CASE Work
    BY <1>3, TakeJobKeeps, StagesKeep, ScanLibraryKeeps, WithinQuotaKeeps, RenameKeeps,
       FinishJobKeeps DEF Work
  <1>4. CASE Life
    BY <1>4, LifeKeeps, StopJobsKeeps DEF Life
  <1>5. CASE UNCHANGED vars
    BY <1>5, StutterKeeps
  <1> QED
    BY <1>1, <1>2, <1>3, <1>4, <1>5 DEF Next

LEMMA Invariance == Spec => []IInv
  BY InitHolds, IInvStep, PTL DEF Spec

\* However many connections upload, delete and disconnect at once, and whenever
\* the service is stopped or killed: the variables keep their types, each
\* temporary source of music_jobs.c has exactly one owner, and the slot that
\* finish_job looks for is the worker's own.
THEOREM JobsCorrect == Spec => []JobsInv
  <1>1. IInv => JobsInv
    BY DEF IInv, JobsInv
  <1> QED
    BY <1>1, Invariance, PTL

\* The upload flag is set exactly while one request holds it, and no upload that
\* was let in is turned away after its body was sent (music_upload_try_reserve,
\* mp_music_jobs_queue_batch).
THEOREM GateCorrect == Spec => []UploadGate
  <1>1. IInv => UploadGate
    BY DEF IInv, UploadGate, NeverTurnedAwayLate, Requests, RequestKept
  <1> QED
    BY <1>1, Invariance, PTL

\* A library within its quota stays within it, for any quota, song sizes and
\* interleaving of deletions with the two reads of output_quota_allows.
THEOREM QuotaCorrect == Spec => []QuotaRespected
  <1>1. IInv => QuotaRespected
    BY DEF IInv, RoomKept
  <1> QED
    BY <1>1, Invariance, PTL
=============================================================================

------------------------- MODULE PodcastHistory_proofs -------------------------
(* Theorems about PodcastHistory, for any names the library may hold, any       *)
(* length of a scan and any length of the file.                                 *)
(*                                                                              *)
(* The core reads and rewrites at most ScanMax lines or names at a time.  The   *)
(* theorems say what holds as long as nothing is cut off (Fits), and that       *)
(* nothing is when there are no more than ScanMax names.                        *)
EXTENDS PodcastHistory, FiniteSetTheorems, NaturalsInduction,
        WellFoundedInduction, TLAPS

--------------------------------------------------------------------------------
(* Induction over the natural numbers, as a fact about sets.                    *)

LEMMA LeastElement ==
  ASSUME NEW T \in SUBSET Nat, T # {}
  PROVE  \E x \in T : \A y \in T : x <= y
  <1> DEFINE R == OpToRel(<, Nat)
  <1>1. IsWellFoundedOn(R, Nat)
    BY NatLessThanWellFounded
  <1>2. \A x, y \in Nat : <<y, x>> \in R <=> y < x
    BY DEF OpToRel
  <1> HIDE DEF R
  <1>3. PICK x \in T : \A y \in T : <<y, x>> \notin R
    BY <1>1, WFMin
  <1>4. ASSUME NEW y \in T PROVE x <= y
    <2>1. x \in Nat /\ y \in Nat /\ ~(y < x)
      BY <1>2, <1>3
    <2> QED
      BY <2>1
  <1> QED
    BY <1>4

LEMMA SetInduction ==
  ASSUME NEW S, 0 \in S, \A n \in Nat : n \in S => n + 1 \in S
  PROVE  Nat \subseteq S
  <1> SUFFICES ASSUME Nat \ S # {} PROVE FALSE
    OBVIOUS
  <1>1. PICK x \in Nat \ S : \A y \in Nat \ S : x <= y
    BY LeastElement
  <1>2. x - 1 \in Nat /\ x - 1 \notin Nat \ S
    BY <1>1
  <1> QED
    BY <1>1, <1>2

--------------------------------------------------------------------------------
(* What the copying loops keep.                                                 *)

\* The function that Those computes, up to the member m of seq.
IsKept(kept, seq, set, m) ==
  kept = [n \in 0..m |->
            IF n = 0 THEN <<>>
            ELSE IF seq[n] \in set THEN Append(kept[n - 1], seq[n]) ELSE kept[n - 1]]

Distinct(seq) == \A i, j \in DOMAIN seq : i # j => seq[i] # seq[j]

\* The loop ends: there is such a function for every m.
LEMMA KeptExists ==
  ASSUME NEW seq, NEW set, NEW m \in Nat
  PROVE  \E kept : IsKept(kept, seq, set, m)
  <1> DEFINE S == {k \in Nat : \E kept : IsKept(kept, seq, set, k)}
  <1>1. 0 \in S
    <2>1. IsKept([n \in 0..0 |-> <<>>], seq, set, 0)
      BY DEF IsKept
    <2> QED
      BY <2>1
  <1>2. ASSUME NEW k \in Nat, k \in S PROVE k + 1 \in S
    <2>1. PICK f : IsKept(f, seq, set, k)
      BY <1>2
    <2> DEFINE g == [n \in 0..k + 1 |->
                       IF n \in 0..k THEN f[n]
                       ELSE IF seq[n] \in set THEN Append(f[n - 1], seq[n]) ELSE f[n - 1]]
    <2>2. ASSUME NEW n \in 0..k + 1
          PROVE  g[n] = IF n = 0 THEN <<>>
                        ELSE IF seq[n] \in set THEN Append(g[n - 1], seq[n]) ELSE g[n - 1]
      <3>1. CASE n = 0
        BY <2>1, <3>1 DEF IsKept
      <3>2. CASE n # 0
        <4>1. n - 1 \in 0..k /\ n - 1 \in 0..k + 1
          BY <3>2
        <4>2. g[n - 1] = f[n - 1]
          BY <4>1
        <4>3. CASE n \in 0..k
          <5>1. f[n] = IF seq[n] \in set THEN Append(f[n - 1], seq[n]) ELSE f[n - 1]
            BY <2>1, <3>2, <4>3 DEF IsKept
          <5> QED
            BY <3>2, <4>2, <4>3, <5>1
        <4>4. CASE n \notin 0..k
          BY <3>2, <4>2, <4>4
        <4> QED
          BY <4>3, <4>4
      <3> QED
        BY <3>1, <3>2
    <2>3. g = [n \in 0..k + 1 |-> g[n]]
      OBVIOUS
    <2> HIDE DEF g
    <2>4. IsKept(g, seq, set, k + 1)
      BY <2>2, <2>3 DEF IsKept
    <2> QED
      BY <2>4
  <1> HIDE DEF S
  <1>3. m \in S
    BY <1>1, <1>2, SetInduction
  <1> QED
    BY <1>3 DEF S

LEMMA ThoseKept ==
  ASSUME NEW seq, Len(seq) \in Nat, NEW set
  PROVE  \E kept : IsKept(kept, seq, set, Len(seq)) /\ Those(seq, set) = kept[Len(seq)]
  <1> DEFINE kept == CHOOSE f : IsKept(f, seq, set, Len(seq))
  <1>1. IsKept(kept, seq, set, Len(seq))
    BY KeptExists
  <1>2. Those(seq, set) = kept[Len(seq)]
    BY DEF Those, IsKept
  <1> QED
    BY <1>1, <1>2
\* Those(seq, set) is a sequence of the members of seq that are in set, not longer than
\* seq, and without repetition if seq is.
LEMMA ThoseFacts ==
  ASSUME NEW A, NEW seq \in Seq(A), NEW set
  PROVE  /\ Those(seq, set) \in Seq(A)
         /\ Len(Those(seq, set)) <= Len(seq)
         /\ Range(Those(seq, set)) = Range(seq) \cap set
         /\ Distinct(seq) => Distinct(Those(seq, set))
  <1> DEFINE N == Len(seq)
  <1>0. N \in Nat /\ DOMAIN seq = 1..N /\ \A i \in 1..N : seq[i] \in A
    OBVIOUS
  <1>1. PICK kept : IsKept(kept, seq, set, N) /\ Those(seq, set) = kept[N]
    BY <1>0, ThoseKept
  <1>2. kept[0] = <<>>
    BY <1>0, <1>1 DEF IsKept
  <1>3. ASSUME NEW n \in 1..N
        PROVE  kept[n] = IF seq[n] \in set THEN Append(kept[n - 1], seq[n]) ELSE kept[n - 1]
    <2>1. n \in 0..N /\ n # 0
      BY <1>0
    <2> HIDE DEF N
    <2> QED
      BY <1>1, <2>1 DEF IsKept
  <1> DEFINE Sofar(n) == {i \in 1..n : seq[i] \in set}
             Good(n) == /\ kept[n] \in Seq(A) /\ Len(kept[n]) <= n
                        /\ Range(kept[n]) = {seq[i] : i \in Sofar(n)}
                        /\ Distinct(seq) => Distinct(kept[n])
             S == {n \in Nat : n <= N => Good(n)}
  <1>4. 0 \in S
    <2>1. Range(kept[0]) = {} /\ Distinct(kept[0]) /\ Sofar(0) = {}
      BY <1>2 DEF Range, Distinct
    <2>2. {seq[i] : i \in Sofar(0)} = {}
      BY <2>1
    <2>3. kept[0] \in Seq(A) /\ Len(kept[0]) = 0
      BY <1>2
    <2> HIDE DEF Sofar
    <2> QED
      BY <2>1, <2>2, <2>3
  <1>5. ASSUME NEW k \in Nat, k \in S PROVE k + 1 \in S
    <2> SUFFICES ASSUME k + 1 <= N PROVE Good(k + 1)
      OBVIOUS
    <2> DEFINE old == kept[k]
               new == kept[k + 1]
               x == seq[k + 1]
    <2>1. k + 1 \in 1..N /\ k <= N /\ (k + 1) - 1 = k /\ x \in A
      BY <1>0
    <2>2. /\ old \in Seq(A) /\ Len(old) <= k
          /\ Range(old) = {seq[i] : i \in Sofar(k)}
          /\ Distinct(seq) => Distinct(old)
      BY <1>5, <2>1
    <2>3. new = IF x \in set THEN Append(old, x) ELSE old
      BY <1>3, <2>1
    <2>4. CASE x \notin set
      <3>1. new = old /\ Sofar(k + 1) = Sofar(k)
        BY <2>3, <2>4
      <3> QED
        BY <2>2, <3>1
    <2>5. CASE x \in set
      <3>1. new = Append(old, x)
        BY <2>3, <2>5
      <3>2. /\ new \in Seq(A) /\ Len(new) = Len(old) + 1
            /\ \A i \in 1..Len(old) : new[i] = old[i]
            /\ new[Len(old) + 1] = x
            /\ DOMAIN new = 1..Len(old) + 1 /\ DOMAIN old = 1..Len(old) /\ Len(old) \in Nat
        BY <2>1, <2>2, <3>1
      <3>3. Range(new) = Range(old) \cup {x}
        <4> HIDE DEF new, old, x
        <4> QED
          BY <3>2 DEF Range
      <3>4. Sofar(k + 1) = Sofar(k) \cup {k + 1}
        BY <2>5
      <3>5. Range(new) = {seq[i] : i \in Sofar(k + 1)}
        <4> HIDE DEF new, old, Sofar
        <4> QED
          BY <2>2, <3>3, <3>4
      <3>6. ASSUME Distinct(seq) PROVE Distinct(new)
        <4>1. x \notin Range(old)
          <5>1. \A i \in 1..k : seq[i] # x
            BY <1>0, <2>1, <3>6 DEF Distinct
          <5> QED
            BY <2>2, <5>1
        <4>2. \A i \in 1..Len(old) : old[i] # x
          <5> HIDE DEF new, old, x
          <5> QED
            BY <3>2, <4>1 DEF Range
        <4>3. \A i, j \in 1..Len(old) : i # j => old[i] # old[j]
          BY <2>2, <3>2, <3>6 DEF Distinct
        <4> HIDE DEF new, old, x
        <4>4. ASSUME NEW i \in DOMAIN new, NEW j \in DOMAIN new, i # j PROVE new[i] # new[j]
          <5>1. CASE i \in 1..Len(old) /\ j \in 1..Len(old)
            BY <3>2, <4>3, <4>4, <5>1
          <5>2. CASE i = Len(old) + 1
            <6>1. j \in 1..Len(old) /\ new[i] = x /\ new[j] = old[j]
              BY <3>2, <4>4, <5>2
            <6> QED
              BY <4>2, <6>1
          <5>3. CASE j = Len(old) + 1
            <6>1. i \in 1..Len(old) /\ new[j] = x /\ new[i] = old[i]
              BY <3>2, <4>4, <5>3
            <6> QED
              BY <4>2, <6>1
          <5> QED
            BY <3>2, <5>1, <5>2, <5>3
        <4> QED
          BY <4>4 DEF Distinct
      <3> HIDE DEF Sofar
      <3> QED
        BY <2>2, <3>2, <3>5, <3>6
    <2> QED
      BY <2>4, <2>5
  <1> HIDE DEF S
  <1>6. N \in S
    BY <1>0, <1>4, <1>5, SetInduction
  <1>7. Good(N)
    BY <1>0, <1>6 DEF S
  <1>8. {seq[i] : i \in Sofar(N)} = Range(seq) \cap set
    BY <1>0 DEF Range
  <1> QED
    BY <1>1, <1>7, <1>8
\* A scan is the front of what there is, and all of it if it fits.
LEMMA FrontFacts ==
  ASSUME NEW A, NEW seq \in Seq(A)
  PROVE  /\ Front(seq) \in Seq(A) /\ Len(Front(seq)) <= Len(seq)
         /\ Len(seq) <= ScanMax => Front(seq) = seq
  <1> DEFINE m == IF Len(seq) < ScanMax THEN Len(seq) ELSE ScanMax
  <1>1. m \in 0..Len(seq) /\ (Len(seq) <= ScanMax => m = Len(seq))
    BY ScanAssumption
  <1>2. Front(seq) = SubSeq(seq, 1, m)
    BY DEF Front
  <1>3. Front(seq) \in Seq(A) /\ Len(Front(seq)) = m
    BY <1>1, <1>2
  <1>4. ASSUME m = Len(seq) PROVE Front(seq) = seq
    BY <1>2, <1>4
  <1> QED
    BY <1>1, <1>3, <1>4

\* What is appended to a sequence.
LEMMA AppendFacts ==
  ASSUME NEW A, NEW seq \in Seq(A), NEW x \in A
  PROVE  /\ Append(seq, x) \in Seq(A)
         /\ Range(Append(seq, x)) = Range(seq) \cup {x}
         /\ Distinct(seq) /\ x \notin Range(seq) => Distinct(Append(seq, x))
  <1> DEFINE new == Append(seq, x)
             n == Len(seq)
  <1>1. /\ new \in Seq(A) /\ n \in Nat /\ DOMAIN new = 1..n + 1 /\ DOMAIN seq = 1..n
        /\ \A i \in 1..n : new[i] = seq[i]
        /\ new[n + 1] = x
    OBVIOUS
  <1> HIDE DEF new, n
  <1>2. Range(new) = Range(seq) \cup {x}
    BY <1>1 DEF Range
  <1>3. ASSUME Distinct(seq), x \notin Range(seq) PROVE Distinct(new)
    <2>1. \A i \in 1..n : seq[i] # x
      BY <1>1, <1>3 DEF Range
    <2>2. \A i, j \in 1..n : i # j => seq[i] # seq[j]
      BY <1>1, <1>3 DEF Distinct
    <2>3. ASSUME NEW i \in 1..n + 1, NEW j \in 1..n + 1, i # j PROVE new[i] # new[j]
      <3>1. CASE i \in 1..n /\ j \in 1..n
        BY <1>1, <2>2, <2>3, <3>1
      <3>2. CASE i = n + 1
        <4>1. j \in 1..n
          BY <1>1, <2>3, <3>2
        <4> QED
          BY <1>1, <2>1, <3>2, <4>1
      <3>3. CASE j = n + 1
        <4>1. i \in 1..n
          BY <1>1, <2>3, <3>3
        <4> QED
          BY <1>1, <2>1, <3>3, <4>1
      <3> QED
        BY <1>1, <3>1, <3>2, <3>3
    <2> QED
      BY <1>1, <2>3 DEF Distinct
  <1> QED
    BY <1>1, <1>2, <1>3 DEF new

--------------------------------------------------------------------------------
(* Types, whatever is cut off.                                                  *)

\* A request that has got as far as its file holds one.
Held ==
  /\ random.pc \in {"stop", "mark", "start"} => random.file \in Podcasts
  /\ manual.pc # "idle" => manual.file \in Podcasts

RandomType == [pc : {"idle", "load", "reset", "stop", "mark", "start"},
               files : SUBSET Podcasts, file : Podcasts \cup {None}, stale : BOOLEAN]
ManualType == [pc : {"idle", "mark", "start"}, file : Podcasts \cup {None}]

LEMMA RestingTyped == Resting \in RandomType /\ Waiting \in ManualType
  BY DEF Resting, Waiting, RandomType, ManualType

\* What a request of the IPC thread, or of the HTTP service, does to the touch thread's.
LEMMA OvertakenTyped ==
  ASSUME TypeOK, Held, Overtaken
  PROVE  /\ random' \in RandomType
         /\ random'.pc = random.pc /\ random'.files = random.files
         /\ random'.file = random.file
         /\ random.pc = "idle" \/ random'.stale
  BY DEF TypeOK, Overtaken, RandomType

\* The three ways to change the file.
LEMMA MarkTyped ==
  ASSUME TypeOK, NEW f \in Podcasts, Mark(f)
  PROVE  /\ history' \in Seq(Podcasts) /\ Len(history') <= MaxLines
         /\ marked' \subseteq Podcasts
  BY AppendFacts DEF TypeOK, Mark

LEMMA ForgetTyped ==
  ASSUME TypeOK, NEW f, Forget(f)
  PROVE  /\ history' \in Seq(Podcasts) /\ Len(history') <= MaxLines
         /\ marked' \subseteq Podcasts
  <1>1. history \in Seq(Podcasts) /\ Len(history) <= MaxLines /\ MaxLines \in Nat
    BY ScanAssumption DEF TypeOK
  <1>2. Loaded \in Seq(Podcasts) /\ Len(Loaded) <= Len(history)
    BY <1>1, FrontFacts DEF Loaded
  <1>3. /\ Those(Loaded, Podcasts \ {f}) \in Seq(Podcasts)
        /\ Len(Those(Loaded, Podcasts \ {f})) <= Len(Loaded)
    BY <1>2, ThoseFacts
  <1>4. Len(Those(Loaded, Podcasts \ {f})) <= MaxLines
    <2> DEFINE a == Those(Loaded, Podcasts \ {f})
    <2>1. Len(a) \in Nat /\ Len(Loaded) \in Nat /\ Len(history) \in Nat
      BY <1>1, <1>2, <1>3
    <2> QED
      BY <1>1, <1>2, <1>3, <2>1
  <1> QED
    BY <1>1, <1>3, <1>4 DEF Forget, TypeOK

LEMMA ResetTyped ==
  ASSUME Reset
  PROVE  /\ history' \in Seq(Podcasts) /\ Len(history') <= MaxLines
         /\ marked' \subseteq Podcasts
  BY ScanAssumption DEF Reset

\* What a scan of the directory answers.
LEMMA ListingFacts ==
  ASSUME TypeOK
  PROVE  /\ Listing \in Seq(Podcasts)
         /\ Len(Listing) <= Len(Order)
         /\ Range(Listing) = library
         /\ Range(Front(Listing)) \subseteq Podcasts
  <1>1. Order \in Seq(Podcasts) /\ library \subseteq Podcasts /\ Range(Order) = Podcasts
    BY OrderAssumption DEF TypeOK, Podcasts
  <1>2. /\ Listing \in Seq(Podcasts) /\ Len(Listing) <= Len(Order)
        /\ Range(Listing) = Range(Order) \cap library
    BY <1>1, ThoseFacts DEF Listing
  <1>3. Front(Listing) \in Seq(Podcasts)
    BY <1>2, FrontFacts
  <1>4. Range(Front(Listing)) \subseteq Podcasts
    BY <1>3 DEF Range
  <1> QED
    BY <1>1, <1>2, <1>4
LEMMA TypedStep == TypeOK /\ Held /\ [Next]_vars => TypeOK' /\ Held'
  <1> SUFFICES ASSUME TypeOK, Held, [Next]_vars PROVE TypeOK' /\ Held'
    OBVIOUS
  <1>0. /\ library \subseteq Podcasts /\ marked \subseteq Podcasts
        /\ history \in Seq(Podcasts) /\ Len(history) <= MaxLines
        /\ random \in RandomType /\ manual \in ManualType
        /\ notices \subseteq Podcasts \cup {All}
    BY DEF TypeOK, RandomType, ManualType
  <1>1. ASSUME Collect PROVE TypeOK' /\ Held'
    <2>1. random' = [Resting EXCEPT !.pc = "load", !.files = Range(Front(Listing))]
          /\ Range(Front(Listing)) \subseteq Podcasts
      BY <1>1, ListingFacts DEF Collect
    <2>2. random' \in RandomType /\ random'.pc = "load"
      BY <2>1, RestingTyped DEF Resting, RandomType
    <2> QED
      BY <1>0, <1>1, <2>2 DEF Collect, TypeOK, Held, RandomType, ManualType
  <1>2. ASSUME Choose \/ NewCycle PROVE TypeOK' /\ Held'
    <2>1. \E f \in Podcasts : random' = [random EXCEPT !.pc = "stop", !.files = {}, !.file = f]
      <3>1. random.files \subseteq Podcasts
        BY <1>0 DEF RandomType
      <3> QED
        BY <1>2, <3>1 DEF Choose, NewCycle, Available
    <2>2. random' \in RandomType /\ random'.file \in Podcasts
      BY <1>0, <2>1 DEF RandomType
    <2>3. /\ library' = library /\ manual' = manual /\ notices' = notices
          /\ history' \in Seq(Podcasts) /\ Len(history') <= MaxLines /\ marked' \subseteq Podcasts
      BY <1>0, <1>2, ResetTyped DEF Choose, NewCycle
    <2> QED
      BY <1>0, <2>2, <2>3 DEF TypeOK, Held, RandomType, ManualType
  <1>3. ASSUME Exhausted \/ Stopped PROVE TypeOK' /\ Held'
    <2>1. random' \in RandomType
          /\ (random'.pc \in {"stop", "mark", "start"} => random'.file \in Podcasts)
      BY <1>0, <1>3 DEF Exhausted, Stopped, RandomType, Held
    <2> QED
      BY <1>0, <1>3, <2>1 DEF Exhausted, Stopped, TypeOK, Held, RandomType, ManualType
  <1>4. ASSUME GiveUp \/ StartRandom \/ Restart PROVE TypeOK' /\ Held'
    <2>1. random' = Resting /\ (manual' = manual \/ manual' = Waiting)
      BY <1>4 DEF GiveUp, StartRandom, Restart
    <2>2. random' \in RandomType /\ manual' \in ManualType /\ random'.pc = "idle"
          /\ (manual'.pc # "idle" => manual'.file \in Podcasts)
      BY <1>0, <2>1, RestingTyped DEF Resting, Waiting, Held
    <2>3. UNCHANGED <<library, history, notices, marked>>
      BY <1>4 DEF GiveUp, StartRandom, Restart
    <2> QED
      BY <1>0, <2>2, <2>3 DEF TypeOK, Held, RandomType, ManualType
  <1>5. ASSUME MarkRandom PROVE TypeOK' /\ Held'
    <2>1. random.file \in Podcasts
      BY <1>5 DEF MarkRandom, Held
    <2>2. random' \in RandomType /\ random'.file \in Podcasts
      BY <1>0, <1>5, <2>1 DEF MarkRandom, RandomType
    <2> QED
      BY <1>0, <1>5, <2>1, <2>2, MarkTyped
         DEF MarkRandom, TypeOK, Held, RandomType, ManualType
  <1>6. ASSUME RandomFails PROVE TypeOK' /\ Held'
    BY <1>0, <1>6, ForgetTyped, RestingTyped
       DEF RandomFails, TypeOK, Held, RandomType, ManualType, Resting
  <1>7. ASSUME NEW f \in Podcasts, PlayManual(f) PROVE TypeOK' /\ Held'
    BY <1>0, <1>7 DEF PlayManual, TypeOK, Held, RandomType, ManualType
  <1>8. ASSUME EndManual PROVE TypeOK' /\ Held'
    BY <1>0, <1>8, RestingTyped DEF EndManual, TypeOK, Held, RandomType, ManualType, Waiting
  \* The steps that overtake the touch thread.
  <1>9. ASSUME Overtaken, UNCHANGED library \/ library' \subseteq Podcasts,
               history' \in Seq(Podcasts), Len(history') <= MaxLines, marked' \subseteq Podcasts,
               manual' \in ManualType, manual'.pc # "idle" => manual'.file \in Podcasts,
               notices' \subseteq Podcasts \cup {All}
        PROVE  TypeOK' /\ Held'
    <2>1. random' \in RandomType
          /\ (random'.pc \in {"stop", "mark", "start"} => random'.file \in Podcasts)
      BY <1>9, OvertakenTyped DEF Held
    <2> QED
      BY <1>0, <1>9, <2>1 DEF TypeOK, Held, RandomType, ManualType
  <1>10. ASSUME MarkManual PROVE TypeOK' /\ Held'
    <2>1. manual.file \in Podcasts
      BY <1>10 DEF MarkManual, Held
    <2>2. manual' \in ManualType /\ manual'.file \in Podcasts
      BY <1>0, <1>10, <2>1 DEF MarkManual, ManualType
    <2>3. history' \in Seq(Podcasts) /\ Len(history') <= MaxLines /\ marked' \subseteq Podcasts
      BY <1>10, <2>1, MarkTyped DEF MarkManual
    <2>4. Overtaken /\ UNCHANGED library /\ UNCHANGED notices
      BY <1>10 DEF MarkManual
    <2> QED
      BY <1>0, <1>9, <2>2, <2>3, <2>4
  <1>11. ASSUME ManualFails PROVE TypeOK' /\ Held'
    <2>1. history' \in Seq(Podcasts) /\ Len(history') <= MaxLines /\ marked' \subseteq Podcasts
      BY <1>11, ForgetTyped DEF ManualFails
    <2>2. manual' \in ManualType /\ manual'.pc = "idle" /\ Overtaken
          /\ UNCHANGED library /\ UNCHANGED notices
      BY <1>11, RestingTyped DEF ManualFails, Waiting
    <2> QED
      BY <1>0, <1>9, <2>1, <2>2
  <1>12. ASSUME ResetManual PROVE TypeOK' /\ Held'
    <2>1. history' \in Seq(Podcasts) /\ Len(history') <= MaxLines /\ marked' \subseteq Podcasts
      BY <1>12, ResetTyped DEF ResetManual
    <2>2. Overtaken /\ UNCHANGED <<library, manual, notices>>
      BY <1>12 DEF ResetManual
    <2> QED
      BY <1>0, <1>9, <2>1, <2>2 DEF Held
  <1>13. ASSUME NEW n \in notices, Notice(n) PROVE TypeOK' /\ Held'
    <2>1. history' \in Seq(Podcasts) /\ Len(history') <= MaxLines /\ marked' \subseteq Podcasts
      BY <1>13, ResetTyped, ForgetTyped DEF Notice
    <2>2. Overtaken /\ UNCHANGED <<library, manual>> /\ notices' \subseteq notices
      BY <1>13 DEF Notice
    <2> QED
      BY <1>0, <1>9, <2>1, <2>2 DEF Held
  <1>14. ASSUME \/ \E f \in Podcasts : Import(f) \/ Remove(f)
                \/ RemoveAll
         PROVE  TypeOK' /\ Held'
    <2>1. /\ Overtaken /\ UNCHANGED <<history, manual, marked>>
          /\ library' \subseteq Podcasts /\ notices' \subseteq Podcasts \cup {All}
      BY <1>0, <1>14 DEF Import, Remove, RemoveAll
    <2> QED
      BY <1>0, <1>9, <2>1 DEF Held
  <1>15. ASSUME NEW n \in notices, LoseNotice(n) PROVE TypeOK' /\ Held'
    BY <1>0, <1>15 DEF LoseNotice, TypeOK, Held, RandomType, ManualType
  <1>16. ASSUME UNCHANGED vars PROVE TypeOK' /\ Held'
    BY <1>0, <1>16 DEF vars, TypeOK, Held, RandomType, ManualType
  <1> QED
    BY <1>1, <1>2, <1>3, <1>4, <1>5, <1>6, <1>7, <1>8, <1>10, <1>11, <1>12, <1>13, <1>14,
       <1>15, <1>16 DEF Next, Random, Manual, Library

LEMMA Typed == Spec => [](TypeOK /\ Held)
  <1>1. Init => TypeOK /\ Held
    BY RestingTyped, ScanAssumption DEF Init, TypeOK, Held, RandomType, ManualType, Resting, Waiting
  <1> QED
    BY <1>1, TypedStep, PTL DEF Spec
--------------------------------------------------------------------------------
(* What the file says, as long as nothing is cut off.                           *)

\* The file has no more lines than are read, and the directory no more files than are
\* listed.
Fits == Len(history) <= ScanMax /\ Len(Listing) <= ScanMax

\* A random request that was not overtaken: what it has listed is the library, it
\* resets the history when all of the library has been played, and the file it is about to
\* play has not.
Whole == random.pc = "load" => random.stale \/ random.files = library
Spent == random.pc = "reset" => random.stale \/ library \subseteq marked
Fresh == random.pc \in {"stop", "mark"} => random.stale \/ random.file \notin marked

IInv == TypeOK /\ Held /\ HistoryTrue /\ Whole /\ Spent /\ Fresh

LEMMA FitsFacts ==
  ASSUME TypeOK, HistoryTrue, Fits
  PROVE  Loaded = history /\ Known = marked /\ Range(Front(Listing)) = library
  <1>1. history \in Seq(Podcasts) /\ Len(history) <= ScanMax /\ Len(Listing) <= ScanMax
    BY DEF TypeOK, Fits
  <1>2. Loaded = history
    BY <1>1, FrontFacts DEF Loaded
  <1>3. Front(Listing) = Listing /\ Range(Listing) = library
    BY <1>1, FrontFacts, ListingFacts
  <1> QED
    BY <1>2, <1>3 DEF Known, HistoryTrue

LEMMA MarkTrue ==
  ASSUME TypeOK, HistoryTrue, Fits, NEW f \in Podcasts, Mark(f)
  PROVE  HistoryTrue'
  <1>1. history \in Seq(Podcasts) /\ Known = marked /\ Range(history) = marked /\ Distinct(history)
    BY FitsFacts DEF TypeOK, HistoryTrue, Distinct
  <1>2. CASE f \in Known
    BY <1>1, <1>2 DEF Mark, HistoryTrue, Distinct
  <1>3. CASE f \notin Known
    <2>1. history' = Append(history, f) /\ marked' = marked \cup {f}
      BY <1>3 DEF Mark
    <2>2. Range(history') = marked' /\ Distinct(history')
      BY <1>1, <1>3, <2>1, AppendFacts
    <2> QED
      BY <2>2 DEF HistoryTrue, Distinct
  <1> QED
    BY <1>2, <1>3

LEMMA ForgetTrue ==
  ASSUME TypeOK, HistoryTrue, Fits, NEW f, Forget(f)
  PROVE  HistoryTrue'
  <1>1. /\ history \in Seq(Podcasts) /\ Known = marked /\ Loaded = history
        /\ Range(history) = marked /\ Distinct(history) /\ marked \subseteq Podcasts
    BY FitsFacts DEF TypeOK, HistoryTrue, Distinct
  <1>2. CASE f \in Known
    <2>1. history' = Those(history, Podcasts \ {f}) /\ marked' = marked \ {f}
      BY <1>1, <1>2 DEF Forget
    <2>2. Range(history') = marked' /\ Distinct(history')
      BY <1>1, <2>1, ThoseFacts
    <2> QED
      BY <2>2 DEF HistoryTrue, Distinct
  <1>3. CASE f \notin Known
    <2>1. history' = history /\ marked' = marked
      BY <1>1, <1>3 DEF Forget
    <2> QED
      BY <2>1 DEF HistoryTrue
  <1> QED
    BY <1>2, <1>3

LEMMA ResetTrue == ASSUME Reset PROVE HistoryTrue'
  BY DEF Reset, HistoryTrue, Range

\* The three together, with what they leave of marked.
LEMMA FileStep ==
  ASSUME IInv, Fits, [Next]_vars
  PROVE  HistoryTrue'
  <1>0. TypeOK /\ Held /\ HistoryTrue
    BY DEF IInv
  <1>1. CASE UNCHANGED <<history, marked>>
    BY <1>0, <1>1 DEF HistoryTrue
  <1>2. CASE NewCycle \/ ResetManual
    BY <1>2, ResetTrue DEF NewCycle, ResetManual
  <1>3. CASE MarkRandom
    <2>1. random.file \in Podcasts /\ Mark(random.file)
      BY <1>0, <1>3 DEF MarkRandom, Held
    <2> QED
      BY <1>0, <2>1, MarkTrue
  <1>4. CASE MarkManual
    <2>1. manual.file \in Podcasts /\ Mark(manual.file)
      BY <1>0, <1>4 DEF MarkManual, Held
    <2> QED
      BY <1>0, <2>1, MarkTrue
  <1>5. CASE RandomFails \/ ManualFails
    <2>1. Forget(random.file) \/ Forget(manual.file)
      BY <1>5 DEF RandomFails, ManualFails
    <2> QED
      BY <1>0, <2>1, ForgetTrue
  <1>6. ASSUME NEW n \in notices, Notice(n) PROVE HistoryTrue'
    <2>1. Reset \/ Forget(n)
      BY <1>6 DEF Notice
    <2> QED
      BY <1>0, <2>1, ForgetTrue, ResetTrue
  <1>7. UNCHANGED <<history, marked>>
        \/ NewCycle \/ ResetManual \/ MarkRandom \/ MarkManual \/ RandomFails \/ ManualFails
        \/ \E n \in notices : Notice(n)
    BY DEF Next, Random, Manual, Library, vars, Collect, Choose, Exhausted, Stopped, GiveUp,
           StartRandom, PlayManual, EndManual, Import, Remove, RemoveAll, LoseNotice, Restart
  <1> QED
    BY <1>1, <1>2, <1>3, <1>4, <1>5, <1>6, <1>7
\* The touch thread's request: its own steps establish what it relies on, and the steps of
\* the others mark it as overtaken or leave alone what it relies on.
LEMMA RequestStep ==
  ASSUME IInv, Fits, [Next]_vars
  PROVE  Whole' /\ Spent' /\ Fresh'
  <1>0. /\ TypeOK /\ Held /\ HistoryTrue /\ Whole /\ Spent /\ Fresh
        /\ random \in RandomType
    BY DEF IInv, TypeOK, RandomType
  <1>1. Known = marked /\ Range(Front(Listing)) = library
    BY <1>0, FitsFacts
  <1>2. CASE Collect
    <2>1. random'.pc = "load" /\ random'.files = library /\ library' = library
      BY <1>1, <1>2 DEF Collect, Resting
    <2> QED
      BY <2>1 DEF Whole, Spent, Fresh
  <1>3. CASE Choose
    <2>1. PICK f \in Available : random' = [random EXCEPT !.pc = "stop", !.files = {}, !.file = f]
      BY <1>3 DEF Choose
    <2>2. random'.pc = "stop" /\ random'.file = f
      BY <1>0, <2>1 DEF RandomType
    <2>3. f \notin marked /\ marked' = marked
      BY <1>1, <1>3, <2>1 DEF Choose, Available
    <2> QED
      BY <2>2, <2>3 DEF Whole, Spent, Fresh
  <1>4. CASE Exhausted
    <2>1. random'.pc = "reset" /\ random'.stale = random.stale /\ random.pc = "load"
          /\ UNCHANGED <<library, marked>>
      BY <1>0, <1>4 DEF Exhausted, RandomType
    <2>2. random.files \subseteq marked
      BY <1>1, <1>4 DEF Exhausted, Available
    <2> QED
      BY <1>0, <2>1, <2>2 DEF Whole, Spent, Fresh
  <1>5. CASE NewCycle
    <2>1. random'.pc = "stop" /\ marked' = {}
      BY <1>0, <1>5 DEF NewCycle, Reset, RandomType
    <2> QED
      BY <2>1 DEF Whole, Spent, Fresh
  <1>6. CASE Stopped
    <2>1. random'.pc = "mark" /\ random'.stale = random.stale /\ random'.file = random.file
          /\ random.pc = "stop" /\ marked' = marked
      BY <1>0, <1>6 DEF Stopped, RandomType
    <2> QED
      BY <1>0, <2>1 DEF Whole, Spent, Fresh
  <1>7. CASE MarkRandom
    <2>1. random'.pc = "start"
      BY <1>0, <1>7 DEF MarkRandom, RandomType
    <2> QED
      BY <2>1 DEF Whole, Spent, Fresh
  <1>8. CASE GiveUp \/ StartRandom \/ RandomFails \/ Restart
    <2>1. random'.pc = "idle"
      BY <1>8 DEF GiveUp, StartRandom, RandomFails, Restart, Resting
    <2> QED
      BY <2>1 DEF Whole, Spent, Fresh
  <1>9. CASE Overtaken
    <2>1. random'.pc = "idle" \/ random'.stale
      BY <1>0, <1>9, OvertakenTyped
    <2> QED
      BY <2>1 DEF Whole, Spent, Fresh
  <1>10. CASE UNCHANGED <<library, random, marked>>
    BY <1>0, <1>10 DEF Whole, Spent, Fresh
  <1>11. \/ Collect \/ Choose \/ Exhausted \/ NewCycle \/ Stopped \/ MarkRandom
         \/ GiveUp \/ StartRandom \/ RandomFails \/ Restart \/ Overtaken
         \/ UNCHANGED <<library, random, marked>>
    BY DEF Next, Random, Manual, Library, vars, PlayManual, MarkManual, EndManual, ManualFails,
           ResetManual, Import, Remove, RemoveAll, Notice, LoseNotice
  <1> QED
    BY <1>2, <1>3, <1>4, <1>5, <1>6, <1>7, <1>8, <1>9, <1>10, <1>11

LEMMA HistoryStep == IInv /\ Fits /\ [Next]_vars => IInv'
  BY TypedStep, FileStep, RequestStep DEF IInv

LEMMA HistoryInit == Init => IInv
  <1> SUFFICES ASSUME Init PROVE IInv
    OBVIOUS
  <1>1. TypeOK /\ Held
    BY RestingTyped, ScanAssumption DEF Init, TypeOK, Held, RandomType, ManualType, Resting, Waiting
  <1>2. HistoryTrue
    BY DEF Init, HistoryTrue, Range
  <1> QED
    BY <1>1, <1>2 DEF Init, IInv, Resting, Whole, Spent, Fresh

\* The file names exactly the podcasts played and not forgotten since, each once, as long as
\* nothing is cut off (podcast_history_mark_played, podcast_history_forget).
THEOREM HistoryCorrect == Spec /\ []Fits => []HistoryInv
  <1>1. IInv => HistoryInv
    BY DEF IInv, HistoryInv
  <1> QED
    BY <1>1, HistoryInit, HistoryStep, PTL DEF Spec

\* A random request repeats a played podcast only if it was overtaken
\* (choose_random_podcast_file, audio_play_podcast_file).
THEOREM NoRepeatCorrect == Spec /\ []Fits => NoRepeat
  <1>1. IInv => (MarkRandom => random.file \notin marked \/ random.stale)
    BY DEF IInv, Fresh, MarkRandom
  <1> QED
    BY <1>1, HistoryInit, HistoryStep, PTL DEF Spec, NoRepeat

\* The history is reset by a random request only after everything in the library was played,
\* unless it was overtaken (choose_random_podcast_file).
THEOREM CycleCorrect == Spec /\ []Fits => CycleComplete
  <1>1. IInv => (NewCycle => library \subseteq marked \/ random.stale)
    BY DEF IInv, Spent, NewCycle
  <1> QED
    BY <1>1, HistoryInit, HistoryStep, PTL DEF Spec, CycleComplete

--------------------------------------------------------------------------------
(* When nothing can be cut off.                                                 *)

LEMMA Counted == ASSUME NEW k \in Nat PROVE IsFiniteSet(1..k) /\ Cardinality(1..k) = k
  <1>1. 1 \in Int /\ k \in Int
    OBVIOUS
  <1>2. IsFiniteSet(1..k) /\ Cardinality(1..k) = IF 1 > k THEN 0 ELSE k - 1 + 1
    BY <1>1, FS_Interval
  <1>3. (IF 1 > k THEN 0 ELSE k - 1 + 1) = k
    OBVIOUS
  <1> QED
    BY <1>2, <1>3

\* A file without repetition has no more lines than there are names.
LEMMA FewLines ==
  ASSUME TypeOK, HistoryTrue
  PROVE  Len(history) <= Len(Order)
  <1> DEFINE n == Len(history)
             m == Len(Order)
  <1>1. /\ history \in [1..n -> Podcasts] /\ n \in Nat /\ m \in Nat
        /\ \A i, j \in 1..n : i # j => history[i] # history[j]
    BY OrderAssumption DEF TypeOK, HistoryTrue
  <1>2. Order \in Surjection(1..m, Podcasts)
    BY OrderAssumption DEF Podcasts, Range, Surjection
  <1>3. IsFiniteSet(Podcasts) /\ Cardinality(Podcasts) <= m
    <2>1. IsFiniteSet(1..m) /\ Cardinality(1..m) = m
      BY <1>1, Counted
    <2> QED
      BY <1>2, <2>1, FS_Surjection
  <1>4. history \in Injection(1..n, Podcasts)
    BY <1>1 DEF Injection, IsInjective
  <1>5. Cardinality(1..n) = n
    BY <1>1, Counted
  <1>6. n <= Cardinality(Podcasts) /\ Cardinality(Podcasts) \in Nat
    BY <1>3, <1>4, <1>5, FS_Injection, FS_CardinalityType
  <1> QED
    BY <1>1, <1>3, <1>6

\* With no more names than a scan answers, all three hold without further hypothesis.
THEOREM FewPodcasts ==
  ASSUME Len(Order) <= ScanMax
  PROVE  Spec => []HistoryInv /\ NoRepeat /\ CycleComplete
  <1>1. IInv => Fits
    <2> SUFFICES ASSUME IInv PROVE Fits
      OBVIOUS
    <2>1. /\ Len(history) <= Len(Order) /\ Len(Listing) <= Len(Order)
          /\ Len(history) \in Nat /\ Len(Listing) \in Nat /\ Len(Order) \in Nat
          /\ ScanMax \in Nat
      BY FewLines, ListingFacts, OrderAssumption, ScanAssumption DEF IInv, TypeOK
    <2> QED
      BY <2>1 DEF Fits
  <1>2. Spec => []Fits
    BY <1>1, HistoryInit, HistoryStep, PTL DEF Spec
  <1> QED
    BY <1>2, HistoryCorrect, NoRepeatCorrect, CycleCorrect, PTL

================================================================================

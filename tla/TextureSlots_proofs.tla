------------------------ MODULE TextureSlots_proofs ------------------------
(***************************************************************************)
(* A material samples its own textures, for any documents, images,         *)
(* samplers and sizes of the descriptor array, whatever fails to load.     *)
(***************************************************************************)
EXTENDS TextureSlots, FiniteSetTheorems, SequenceTheorems, WellFoundedInduction, TLAPS

-----------------------------------------------------------------------------
\* A set of naturals has a least one.
LEMMA LeastOf ==
  ASSUME NEW S, S \subseteq Nat, S # {}
  PROVE  \E n \in S : \A k \in S : n <= k
<1> DEFINE R == { ss \in Nat \X Nat : ss[1] < ss[2] }
<1>1. IsWellFoundedOn(R, Nat)
  BY NatLessThanWellFounded DEF OpToRel
<1> HIDE DEF R
<1>2. PICK n \in S : \A k \in S : << k, n >> \notin R
  BY <1>1, WFMin
<1>3. ASSUME NEW k \in S PROVE n <= k
  <2>1. k \in Nat /\ n \in Nat /\ << k, n >> \in Nat \X Nat
    OBVIOUS
  <2>2. ~(k < n)
    BY <1>2, <2>1 DEF R
  <2> QED
    BY <2>1, <2>2
<1> QED
  BY <1>3

(***************************************************************************)
(* Loops.                                                                  *)
(***************************************************************************)
\* A set of naturals that has zero and every successor has all of them.
LEMMA InductiveSets ==
  ASSUME NEW S, 0 \in S, \A n \in Nat : n \in S => n + 1 \in S
  PROVE  \A n \in Nat : n \in S
<1> SUFFICES ASSUME NEW m \in Nat, m \notin S PROVE FALSE
  OBVIOUS
<1> DEFINE T == { n \in Nat : n \notin S }
<1>1. T \subseteq Nat /\ T # {}
  OBVIOUS
<1>2. PICK n \in T : \A k \in T : n <= k
  <2> HIDE DEF T
  <2> QED
    BY <1>1, LeastOf
<1>3. n \in Nat /\ n # 0 /\ n \notin S
  BY <1>1, <1>2 DEF T
<1>4. n - 1 \in Nat /\ (n - 1) + 1 = n /\ ~(n <= n - 1)
  BY <1>3
<1>5. n - 1 \in S
  BY <1>1, <1>2, <1>3, <1>4 DEF T
<1> QED
  BY <1>3, <1>4, <1>5

\* What one step makes of the elements of A, for every step of a loop.
Loop(N, A, start, step, f) ==
  /\ f \in [0 .. N -> A]
  /\ f[0] = start
  /\ \A n \in 1 .. N : f[n] = step[<< n, f[n - 1] >>]

\* A loop can be run.
LEMMA LoopRuns ==
  ASSUME NEW N \in Nat, NEW A, NEW start \in A, NEW step \in [(1 .. N) \X A -> A]
  PROVE  \E f : Loop(N, A, start, step, f)
<1> DEFINE T == { m \in Nat : m <= N => \E f : Loop(m, A, start, step, f) }
<1>1. 0 \in T
  <2>1. Loop(0, A, start, step, [n \in 0 .. 0 |-> start])
    BY DEF Loop
  <2> QED
    BY <2>1
<1>2. ASSUME NEW m \in Nat, m \in T PROVE m + 1 \in T
  <2> SUFFICES ASSUME m + 1 <= N PROVE \E f : Loop(m + 1, A, start, step, f)
    OBVIOUS
  <2>1. PICK f : Loop(m, A, start, step, f)
    BY <1>2
  <2> DEFINE g == [n \in 0 .. m + 1 |-> IF n = m + 1 THEN step[<< m + 1, f[m] >>] ELSE f[n]]
  <2>2. step[<< m + 1, f[m] >>] \in A
    BY <2>1 DEF Loop
  <2>3. g \in [0 .. m + 1 -> A] /\ g[0] = start
    BY <2>1, <2>2 DEF Loop
  <2>4. ASSUME NEW n \in 1 .. m + 1 PROVE g[n] = step[<< n, g[n - 1] >>]
    <3>1. CASE n = m + 1
      <4>1. n - 1 = m /\ n - 1 \in 0 .. m + 1 /\ n - 1 # m + 1
        BY <3>1
      <4>2. g[n - 1] = f[m] /\ g[m + 1] = step[<< m + 1, f[m] >>]
        BY <3>1, <4>1
      <4> HIDE DEF g
      <4> QED
        BY <3>1, <4>2
    <3>2. CASE n # m + 1
      <4>1. n \in 1 .. m /\ n - 1 \in 0 .. m + 1 /\ n - 1 # m + 1
        BY <3>2
      <4>2. g[n - 1] = f[n - 1] /\ g[n] = f[n]
        BY <4>1
      <4> QED
        BY <2>1, <4>1, <4>2 DEF Loop
    <3> QED
      BY <3>1, <3>2
  <2> QED
    BY <2>3, <2>4 DEF Loop
<1> HIDE DEF T
<1>3. N \in T
  BY <1>1, <1>2, InductiveSets
<1> QED
  BY <1>3 DEF T

(***************************************************************************)
(* The offsets of the models (assignTextureOffsets(), meshBaseOffsets()).  *)
(***************************************************************************)
\* The sums of the counts are a loop over the counts.
LEMMA SumsLoop ==
  ASSUME NEW N \in Nat, NEW counts \in [1 .. N -> Nat]
  PROVE  /\ Sums(counts) \in [0 .. N -> Nat]
         /\ Sums(counts)[0] = 0
         /\ \A n \in 1 .. N : Sums(counts)[n] = Sums(counts)[n - 1] + counts[n]
<1> DEFINE step == [x \in (1 .. N) \X Nat |-> x[2] + counts[x[1]]]
           body(f) == [n \in 0 .. N |-> IF n = 0 THEN 0 ELSE f[n - 1] + counts[n]]
<1>1. Len(counts) = N
  OBVIOUS
<1>2. step \in [(1 .. N) \X Nat -> Nat]
  OBVIOUS
<1>3. PICK f : Loop(N, Nat, 0, step, f)
  <2> HIDE DEF step
  <2> QED
    BY <1>2, LoopRuns
<1>4. f = body(f)
  <2>1. ASSUME NEW n \in 0 .. N PROVE f[n] = IF n = 0 THEN 0 ELSE f[n - 1] + counts[n]
    <3>1. CASE n = 0
      BY <1>3, <3>1 DEF Loop
    <3>2. CASE n # 0
      <4>1. n \in 1 .. N /\ n - 1 \in 0 .. N
        BY <3>2
      <4>2. f[n - 1] \in Nat /\ f[n] = step[<< n, f[n - 1] >>]
        BY <1>3, <4>1 DEF Loop
      <4>3. << n, f[n - 1] >> \in (1 .. N) \X Nat
        BY <4>1, <4>2
      <4> QED
        BY <3>2, <4>2, <4>3
    <3> QED
      BY <3>1, <3>2
  <2> QED
    BY <1>3, <2>1 DEF Loop
<1>5. Sums(counts) = CHOOSE g : g = body(g)
  BY <1>1 DEF Sums
<1>6. PICK sum : sum = Sums(counts) /\ sum = body(sum)
  BY <1>4, <1>5
<1>7. sum[0] = 0 /\ \A n \in 1 .. N : sum[n] = sum[n - 1] + counts[n]
  BY <1>6
<1>8. \A n \in Nat : n \in { k \in Nat : k <= N => sum[k] \in Nat }
  <2> DEFINE T == { k \in Nat : k <= N => sum[k] \in Nat }
  <2>1. 0 \in T
    BY <1>7
  <2>2. ASSUME NEW n \in Nat, n \in T PROVE n + 1 \in T
    <3> SUFFICES ASSUME n + 1 <= N PROVE sum[n + 1] \in Nat
      OBVIOUS
    <3>1. n + 1 \in 1 .. N /\ (n + 1) - 1 = n /\ n <= N
      OBVIOUS
    <3>2. sum[n] \in Nat /\ counts[n + 1] \in Nat /\ sum[n + 1] = sum[n] + counts[n + 1]
      BY <1>7, <2>2, <3>1
    <3> QED
      BY <3>2
  <2> HIDE DEF T
  <2>3. \A n \in Nat : n \in T
    BY <2>1, <2>2, InductiveSets
  <2> QED
    BY <2>3 DEF T
<1>9. sum \in [0 .. N -> Nat]
  <2>1. DOMAIN sum = 0 .. N /\ sum = [n \in 0 .. N |-> sum[n]]
    BY <1>6
  <2>2. \A n \in 0 .. N : sum[n] \in Nat
    BY <1>8
  <2> QED
    BY <2>1, <2>2
<1> QED
  BY <1>6, <1>7, <1>9

(***************************************************************************)
(* Lists joined (planFlattenedTextureSlots()).                             *)
(***************************************************************************)
\* The first n lists, joined to the sequence j.
JoinedUpTo(j, lists, counts, n) ==
  /\ Len(j) = Sums(counts)[n]
  /\ \A m \in 1 .. n : \A k \in 1 .. counts[m] :
       /\ Sums(counts)[m - 1] + k \in 1 .. Len(j)
       /\ j[Sums(counts)[m - 1] + k] = lists[m][k]

\* One list more.
LEMMA JoinedOneMore ==
  ASSUME NEW N \in Nat, NEW S, NEW counts \in [1 .. N -> Nat], NEW lists \in [1 .. N -> Seq(S)],
         \A n \in 1 .. N : Len(lists[n]) = counts[n],
         NEW n \in Nat, n + 1 \in 1 .. N, NEW j \in Seq(S), JoinedUpTo(j, lists, counts, n)
  PROVE  JoinedUpTo(j \o lists[n + 1], lists, counts, n + 1)
<1>1. PICK sums \in [0 .. N -> Nat] :
        sums = Sums(counts) /\ sums[0] = 0 /\ \A i \in 1 .. N : sums[i] = sums[i - 1] + counts[i]
  BY SumsLoop
<1>2. PICK a \in Nat, b \in Nat, list \in Seq(S) :
        /\ a = sums[n] /\ b = counts[n + 1] /\ list = lists[n + 1] /\ Len(list) = b
        /\ sums[n + 1] = a + b /\ Len(j) = a
  <2>1. n \in 0 .. N /\ (n + 1) - 1 = n /\ sums[n] \in Nat /\ counts[n + 1] \in Nat
    OBVIOUS
  <2>2. sums[n + 1] = sums[n] + counts[n + 1]
    BY <1>1, <2>1
  <2> QED
    BY <1>1, <2>1, <2>2 DEF JoinedUpTo
<1>3. PICK joined \in Seq(S) : joined = j \o list
  BY ConcatProperties
<1>4. /\ Len(joined) = a + b
      /\ \A i \in 1 .. a : joined[i] = j[i]
      /\ \A i \in 1 .. b : joined[a + i] = list[i] /\ a + i \in 1 .. a + b
  <2>1. /\ Len(joined) = Len(j) + Len(list)
        /\ \A i \in 1 .. Len(j) + Len(list) :
             joined[i] = IF i <= Len(j) THEN j[i] ELSE list[i - Len(j)]
    BY <1>3, ConcatProperties
  <2>2. \A i \in 1 .. a : i <= a /\ i \in 1 .. a + b
    BY <1>2
  <2>3. \A i \in 1 .. b : ~(a + i <= a) /\ (a + i) - a = i /\ a + i \in 1 .. a + b
    <3>1. \A p, q \in Nat : \A i \in 1 .. q : ~(p + i <= p) /\ (p + i) - p = i /\ p + i \in 1 .. p + q
      OBVIOUS
    <3>2. a \in Nat /\ b \in Nat
      OBVIOUS
    <3> QED
      BY <3>1, <3>2
  <2> QED
    BY <1>2, <2>1, <2>2, <2>3
<1>5. ASSUME NEW m \in 1 .. n + 1, NEW k \in 1 .. counts[m]
      PROVE  sums[m - 1] + k \in 1 .. Len(joined) /\ joined[sums[m - 1] + k] = lists[m][k]
  <2>1. CASE m = n + 1
    <3>1. m - 1 = n
      BY <2>1
    <3> QED
      BY <1>2, <1>3, <1>4, <2>1, <3>1
  <2>2. CASE m # n + 1
    <3>1. m \in 1 .. n
      BY <2>2
    <3>2. sums[m - 1] + k \in 1 .. a /\ j[sums[m - 1] + k] = lists[m][k]
      BY <1>1, <1>2, <3>1 DEF JoinedUpTo
    <3>3. \A i \in 1 .. a : i \in 1 .. a + b
      BY <1>2
    <3> QED
      BY <1>3, <1>4, <3>2, <3>3
  <2> QED
    BY <2>1, <2>2
<1>6. joined = j \o lists[n + 1] /\ Len(joined) = sums[n + 1]
  BY <1>2, <1>3, <1>4
<1>7. JoinedUpTo(joined, lists, counts, n + 1)
  BY <1>1, <1>5, <1>6 DEF JoinedUpTo
<1> QED
  BY <1>6, <1>7

\* All lists joined: list m starts behind the sum of the ones before it.
LEMMA JoinedLoop ==
  ASSUME NEW N \in Nat, NEW S, NEW counts \in [1 .. N -> Nat], NEW lists \in [1 .. N -> Seq(S)],
         \A n \in 1 .. N : Len(lists[n]) = counts[n]
  PROVE  Joined(lists) \in Seq(S) /\ JoinedUpTo(Joined(lists), lists, counts, N)
<1> DEFINE step == [x \in (1 .. N) \X Seq(S) |-> x[2] \o lists[x[1]]]
           body(f) == [n \in 0 .. N |-> IF n = 0 THEN <<>> ELSE f[n - 1] \o lists[n]]
<1>1. Len(lists) = N
  OBVIOUS
<1>2. step \in [(1 .. N) \X Seq(S) -> Seq(S)] /\ <<>> \in Seq(S)
  <2>1. ASSUME NEW x \in (1 .. N) \X Seq(S) PROVE x[2] \o lists[x[1]] \in Seq(S)
    <3>1. x[2] \in Seq(S) /\ lists[x[1]] \in Seq(S)
      OBVIOUS
    <3> QED
      BY <3>1
  <2> QED
    BY <2>1
<1>3. PICK f : Loop(N, Seq(S), <<>>, step, f)
  <2> HIDE DEF step
  <2> QED
    BY <1>2, LoopRuns
<1>4. f = body(f)
  <2>1. ASSUME NEW n \in 0 .. N PROVE f[n] = IF n = 0 THEN <<>> ELSE f[n - 1] \o lists[n]
    <3>1. CASE n = 0
      BY <1>3, <3>1 DEF Loop
    <3>2. CASE n # 0
      <4>1. n \in 1 .. N /\ n - 1 \in 0 .. N
        BY <3>2
      <4>2. f[n - 1] \in Seq(S) /\ f[n] = step[<< n, f[n - 1] >>]
        BY <1>3, <4>1 DEF Loop
      <4>3. << n, f[n - 1] >> \in (1 .. N) \X Seq(S)
        BY <4>1, <4>2
      <4>4. step[<< n, f[n - 1] >>] = f[n - 1] \o lists[n]
        BY <4>3
      <4> QED
        BY <3>2, <4>2, <4>4
    <3> QED
      BY <3>1, <3>2
  <2> QED
    BY <1>3, <2>1 DEF Loop
<1>5. PICK joined : joined = body(joined) /\ Joined(lists) = joined[N]
  <2>1. Joined(lists) = (CHOOSE g : g = body(g))[N]
    BY <1>1 DEF Joined
  <2> QED
    BY <1>4, <2>1
<1>6. joined[0] = <<>> /\ \A n \in 1 .. N : joined[n] = joined[n - 1] \o lists[n]
  <2>1. \A n \in 0 .. N : joined[n] = IF n = 0 THEN <<>> ELSE joined[n - 1] \o lists[n]
    BY <1>5
  <2>2. 0 \in 0 .. N /\ \A n \in 1 .. N : n \in 0 .. N /\ n # 0
    OBVIOUS
  <2> QED
    BY <2>1, <2>2
<1> DEFINE T == { n \in Nat : n <= N => joined[n] \in Seq(S) /\ JoinedUpTo(joined[n], lists, counts, n) }
<1>7. 0 \in T
  <2>1. Sums(counts)[0] = 0
    BY SumsLoop
  <2>2. joined[0] \in Seq(S) /\ Len(joined[0]) = 0
    BY <1>6
  <2>3. JoinedUpTo(joined[0], lists, counts, 0)
    BY <2>1, <2>2 DEF JoinedUpTo
  <2> QED
    BY <2>2, <2>3
<1>8. ASSUME NEW n \in Nat, n \in T PROVE n + 1 \in T
  <2> SUFFICES ASSUME n + 1 <= N
               PROVE  joined[n + 1] \in Seq(S) /\ JoinedUpTo(joined[n + 1], lists, counts, n + 1)
    OBVIOUS
  <2>1. n + 1 \in 1 .. N /\ (n + 1) - 1 = n /\ n <= N
    OBVIOUS
  <2>2. joined[n + 1] = joined[n] \o lists[n + 1] /\ lists[n + 1] \in Seq(S)
    BY <1>6, <2>1
  <2>3. joined[n] \in Seq(S) /\ JoinedUpTo(joined[n], lists, counts, n)
    BY <1>8, <2>1
  <2>4. JoinedUpTo(joined[n] \o lists[n + 1], lists, counts, n + 1)
    BY <2>1, <2>3, JoinedOneMore
  <2> QED
    BY <2>2, <2>3, <2>4
<1> HIDE DEF T
<1>9. N \in T
  BY <1>7, <1>8, InductiveSets
<1> QED
  BY <1>5, <1>9 DEF T

\* The slots of the textures there are.
TexturesOf(N, counts) ==
  { slot \in [model : 1 .. N, indexInModel : Nat] : slot.indexInModel \in 1 .. counts[slot.model] }

\* All textures in model order: texture t of model m is behind those of the
\* models before it.
LEMMA RequestedTextures ==
  ASSUME NEW N \in Nat, NEW counts \in [1 .. N -> Nat]
  PROVE  /\ Requested(counts) \in Seq(TexturesOf(N, counts))
         /\ Len(Requested(counts)) = Sums(counts)[N]
         /\ \A m \in 1 .. N : \A t \in 1 .. counts[m] :
              /\ Sums(counts)[m - 1] + t \in 1 .. Len(Requested(counts))
              /\ Requested(counts)[Sums(counts)[m - 1] + t] = [model |-> m, indexInModel |-> t]
<1> DEFINE list(m) == [t \in 1 .. counts[m] |-> [model |-> m, indexInModel |-> t]]
<1>1. PICK lists : lists = [m \in 1 .. N |-> list(m)]
  OBVIOUS
<1>2. Requested(counts) = Joined(lists)
  <2>1. DOMAIN counts = 1 .. N
    OBVIOUS
  <2> QED
    BY <1>1, <2>1 DEF Requested
<1>3. ASSUME NEW m \in 1 .. N
      PROVE  list(m) \in Seq(TexturesOf(N, counts)) /\ Len(list(m)) = counts[m]
  <2>1. counts[m] \in Nat
    OBVIOUS
  <2>2. \A t \in 1 .. counts[m] : [model |-> m, indexInModel |-> t] \in TexturesOf(N, counts)
    BY <2>1 DEF TexturesOf
  <2> QED
    BY <2>1, <2>2
<1>4. lists \in [1 .. N -> Seq(TexturesOf(N, counts))] /\ \A m \in 1 .. N : lists[m] = list(m)
  BY <1>1, <1>3
<1>5. \A m \in 1 .. N : Len(lists[m]) = counts[m]
  BY <1>3, <1>4
<1>6. Joined(lists) \in Seq(TexturesOf(N, counts)) /\ JoinedUpTo(Joined(lists), lists, counts, N)
  BY <1>4, <1>5, JoinedLoop
<1>7. \A m \in 1 .. N : \A t \in 1 .. counts[m] : lists[m][t] = [model |-> m, indexInModel |-> t]
  BY <1>4
<1> HIDE DEF list
<1>8. PICK r, sums : r = Joined(lists) /\ sums = Sums(counts)
  OBVIOUS
<1>9. /\ Len(r) = sums[N]
      /\ \A m \in 1 .. N : \A t \in 1 .. counts[m] :
           sums[m - 1] + t \in 1 .. Len(r) /\ r[sums[m - 1] + t] = lists[m][t]
  BY <1>6, <1>8 DEF JoinedUpTo
<1>10. \A m \in 1 .. N : \A t \in 1 .. counts[m] :
         /\ sums[m - 1] + t \in 1 .. Len(r)
         /\ r[sums[m - 1] + t] = [model |-> m, indexInModel |-> t]
  BY <1>7, <1>9, Zenon
<1> QED
  BY <1>2, <1>6, <1>8, <1>9, <1>10

\* The fixed array holds only textures there are, and the first ones in place.
LEMMA PlannedSlots ==
  ASSUME NEW N \in Nat \ {0}, NEW counts \in [1 .. N -> Nat \ {0}]
  PROVE  /\ planFlattenedTextureSlots(counts) \in [1 .. MAX_TEXTURE_COUNT -> TexturesOf(N, counts)]
         /\ \A s \in 1 .. MAX_TEXTURE_COUNT :
              s <= Len(Requested(counts)) => planFlattenedTextureSlots(counts)[s] = Requested(counts)[s]
<1>1. counts \in [1 .. N -> Nat] /\ 1 \in 1 .. N /\ 1 - 1 = 0
  OBVIOUS
<1>2. PICK requested \in Seq(TexturesOf(N, counts)) : requested = Requested(counts)
  BY <1>1, RequestedTextures
<1>3. 1 \in 1 .. Len(requested) /\ requested # <<>>
  <2>1. 1 \in 1 .. counts[1]
    BY <1>1
  <2>2. Sums(counts)[0] = 0
    BY <1>1, SumsLoop
  <2>3. Sums(counts)[0] + 1 \in 1 .. Len(requested)
    BY <1>1, <1>2, <2>1, RequestedTextures
  <2> QED
    BY <2>2, <2>3
<1>4. planFlattenedTextureSlots(counts)
        = [s \in 1 .. MAX_TEXTURE_COUNT |-> IF s <= Len(requested) THEN requested[s] ELSE requested[1]]
  BY <1>2, <1>3 DEF planFlattenedTextureSlots
<1>5. ASSUME NEW s \in 1 .. MAX_TEXTURE_COUNT
      PROVE  (IF s <= Len(requested) THEN requested[s] ELSE requested[1]) \in TexturesOf(N, counts)
  <2>1. s \in Nat /\ s >= 1
    BY TextureSlotsAssumption
  <2>2. s <= Len(requested) => s \in 1 .. Len(requested)
    BY <2>1
  <2> QED
    BY <1>3, <2>2, ElementOfSeq
<1> QED
  BY <1>2, <1>4, <1>5

(***************************************************************************)
(* The lists of a loader (uploadParsed()).                                 *)
(***************************************************************************)
\* What the loop over the entries of a list keeps.
KeptLoop(S, list, f) ==
  /\ f \in [0 .. Len(list) -> Seq(S)]
  /\ f[0] = <<>>
  /\ \A n \in 1 .. Len(list) :
       f[n] = IF list[n] = Skipped THEN f[n - 1] ELSE Append(f[n - 1], list[n])

\* The entries that name a texture are a loop over the list.
LEMMA EntriesLoop ==
  ASSUME NEW S, NEW list \in Seq(S \cup {Skipped})
  PROVE  \E f : KeptLoop(S, list, f) /\ Entries(list) = f[Len(list)]
<1> DEFINE N == Len(list)
           next(kept, n) == IF list[n] = Skipped THEN kept ELSE Append(kept, list[n])
           step == [x \in (1 .. N) \X Seq(S) |-> next(x[2], x[1])]
           body(f) == [n \in 0 .. N |-> IF n = 0 THEN <<>> ELSE next(f[n - 1], n)]
<1>1. N \in Nat
  OBVIOUS
<1>2. step \in [(1 .. N) \X Seq(S) -> Seq(S)] /\ <<>> \in Seq(S)
  <2>1. ASSUME NEW x \in (1 .. N) \X Seq(S) PROVE next(x[2], x[1]) \in Seq(S)
    <3>1. x[2] \in Seq(S) /\ list[x[1]] \in S \cup {Skipped}
      OBVIOUS
    <3> QED
      BY <3>1
  <2> HIDE DEF next
  <2> QED
    BY <2>1
<1>3. PICK f : Loop(N, Seq(S), <<>>, step, f)
  <2> HIDE DEF step, N
  <2> QED
    BY <1>1, <1>2, LoopRuns
<1> HIDE DEF next
<1>4. f = body(f)
  <2>1. ASSUME NEW n \in 0 .. N PROVE f[n] = IF n = 0 THEN <<>> ELSE next(f[n - 1], n)
    <3>1. CASE n = 0
      BY <1>3, <3>1 DEF Loop
    <3>2. CASE n # 0
      <4>1. n \in 1 .. N /\ n - 1 \in 0 .. N
        BY <1>1, <3>2
      <4>2. f[n - 1] \in Seq(S) /\ f[n] = step[<< n, f[n - 1] >>]
        BY <1>3, <4>1 DEF Loop
      <4>3. << n, f[n - 1] >> \in (1 .. N) \X Seq(S)
        BY <4>1, <4>2
      <4>4. step[<< n, f[n - 1] >>] = next(f[n - 1], n)
        BY <4>3
      <4> QED
        BY <3>2, <4>2, <4>4
    <3> QED
      BY <3>1, <3>2
  <2> QED
    BY <1>3, <2>1 DEF Loop
<1>5. PICK kept : kept = body(kept) /\ Entries(list) = kept[N]
  <2>1. Entries(list) = (CHOOSE g : g = body(g))[N]
    BY DEF Entries, next
  <2> QED
    BY <1>4, <2>1
<1>6. kept[0] = <<>> /\ \A n \in 1 .. N : kept[n] = next(kept[n - 1], n)
  <2>1. \A n \in 0 .. N : kept[n] = IF n = 0 THEN <<>> ELSE next(kept[n - 1], n)
    BY <1>5
  <2>2. 0 \in 0 .. N /\ \A n \in 1 .. N : n \in 0 .. N /\ n # 0
    BY <1>1
  <2> HIDE DEF N
  <2> QED
    BY <2>1, <2>2
<1> DEFINE T == { n \in Nat : n <= N => kept[n] \in Seq(S) }
<1>7. 0 \in T
  <2>1. kept[0] \in Seq(S)
    BY <1>2, <1>6
  <2> QED
    BY <2>1
<1>8. ASSUME NEW n \in Nat, n \in T PROVE n + 1 \in T
  <2> SUFFICES ASSUME n + 1 <= N PROVE kept[n + 1] \in Seq(S)
    OBVIOUS
  <2>1. n + 1 \in 1 .. N /\ (n + 1) - 1 = n /\ n <= N
    BY <1>1
  <2>2. kept[n] \in Seq(S) /\ list[n + 1] \in S \cup {Skipped}
    BY <1>8, <2>1
  <2>3. next(kept[n], n + 1) \in Seq(S)
    BY <2>2 DEF next
  <2> QED
    BY <1>6, <2>1, <2>3
<1> HIDE DEF T
<1>9. \A n \in Nat : n \in T
  BY <1>7, <1>8, InductiveSets
<1>10. kept \in [0 .. N -> Seq(S)]
  <2>1. DOMAIN kept = 0 .. N /\ kept = [n \in 0 .. N |-> kept[n]]
    BY <1>5
  <2>2. \A n \in 0 .. N : kept[n] \in Seq(S)
    BY <1>1, <1>9 DEF T
  <2> QED
    BY <2>1, <2>2
<1> QED
  BY <1>5, <1>6, <1>10 DEF KeptLoop, next

\* The entries of the empty list.
LEMMA NoEntries ==
  Entries(<<>>) = <<>>
<1>1. <<>> \in Seq(Images \cup {Skipped}) /\ Len(<<>>) = 0
  OBVIOUS
<1>2. PICK f : KeptLoop(Images, <<>>, f) /\ Entries(<<>>) = f[Len(<<>>)]
  BY <1>1, EntriesLoop
<1> QED
  BY <1>1, <1>2 DEF KeptLoop

\* One entry more is kept unless it is empty.
LEMMA EntriesOneMore ==
  ASSUME NEW S, NEW list \in Seq(S \cup {Skipped}), NEW e \in S \cup {Skipped}
  PROVE  /\ Entries(list) \in Seq(S)
         /\ Entries(Append(list, e)) = IF e = Skipped THEN Entries(list) ELSE Append(Entries(list), e)
<1>1. PICK f : KeptLoop(S, list, f) /\ Entries(list) = f[Len(list)]
  BY EntriesLoop
<1>2. PICK longer \in Seq(S \cup {Skipped}) : longer = Append(list, e)
  BY AppendProperties
<1>3. PICK g : KeptLoop(S, longer, g) /\ Entries(longer) = g[Len(longer)]
  BY EntriesLoop
<1>4. PICK N \in Nat : N = Len(list)
  OBVIOUS
<1>5. /\ Len(longer) = N + 1 /\ longer[N + 1] = e
      /\ \A n \in 1 .. N : longer[n] = list[n]
  BY <1>2, <1>4
<1>6. /\ f \in [0 .. N -> Seq(S)] /\ f[0] = <<>>
      /\ \A n \in 1 .. N : f[n] = IF list[n] = Skipped THEN f[n - 1] ELSE Append(f[n - 1], list[n])
  BY <1>1, <1>4 DEF KeptLoop
<1>7. /\ g[0] = <<>>
      /\ \A n \in 1 .. N + 1 : g[n] = IF longer[n] = Skipped THEN g[n - 1] ELSE Append(g[n - 1], longer[n])
  BY <1>3, <1>5 DEF KeptLoop
<1> DEFINE T == { n \in Nat : n <= N => g[n] = f[n] }
<1>8. 0 \in T
  BY <1>6, <1>7
<1>9. ASSUME NEW n \in Nat, n \in T PROVE n + 1 \in T
  <2> SUFFICES ASSUME n + 1 <= N PROVE g[n + 1] = f[n + 1]
    OBVIOUS
  <2>1. n + 1 \in 1 .. N /\ n + 1 \in 1 .. N + 1 /\ (n + 1) - 1 = n /\ n <= N
    OBVIOUS
  <2>2. g[n] = f[n] /\ longer[n + 1] = list[n + 1]
    BY <1>5, <1>9, <2>1
  <2> QED
    BY <1>6, <1>7, <2>1, <2>2
<1> HIDE DEF T
<1>10. N \in T
  BY <1>8, <1>9, InductiveSets
<1>11. g[N] = f[N]
  BY <1>10 DEF T
<1>12. N + 1 \in 1 .. N + 1 /\ (N + 1) - 1 = N /\ N \in 0 .. N
  OBVIOUS
<1>13. g[N + 1] = IF e = Skipped THEN f[N] ELSE Append(f[N], e)
  BY <1>5, <1>7, <1>11, <1>12
<1> QED
  BY <1>1, <1>2, <1>3, <1>4, <1>5, <1>6, <1>12, <1>13

\* Adding entry n appends the n-th of these textures.
Adds(S, N, entries, outcome, texture) ==
  /\ Len(entries) = N
  /\ \A n \in 1 .. N :
       /\ texture[n] \in S
       /\ \A s \in Seq(S) : addTextureOrDefault(s, entries[n], outcome[n]) = Append(s, texture[n])

\* A list of these textures, in order.
Lists(S, N, loaded, texture) ==
  /\ loaded \in Seq(S) /\ DOMAIN loaded = 1 .. N /\ Len(loaded) = N
  /\ \A n \in 1 .. N : loaded[n] = texture[n]

\* Every entry becomes one texture, in order.
LEMMA LoadedTextures ==
  ASSUME NEW S, NEW N \in Nat, NEW entries, NEW outcome, NEW texture,
         Adds(S, N, entries, outcome, texture)
  PROVE  Lists(S, N, Loaded(entries, outcome), texture)
<1> DEFINE next(loaded, n) == addTextureOrDefault(loaded, entries[n], outcome[n])
           step == [x \in (1 .. N) \X Seq(S) |-> next(x[2], x[1])]
           body(f) == [n \in 0 .. N |-> IF n = 0 THEN <<>> ELSE next(f[n - 1], n)]
<1>1. ASSUME NEW n \in 1 .. N
      PROVE  texture[n] \in S
             /\ \A s \in Seq(S) : next(s, n) \in Seq(S) /\ next(s, n) = Append(s, texture[n])
  <2>1. texture[n] \in S /\ \A s \in Seq(S) : next(s, n) = Append(s, texture[n])
    BY DEF Adds
  <2> HIDE DEF next
  <2>2. ASSUME NEW s \in Seq(S) PROVE next(s, n) \in Seq(S)
    <3>1. Append(s, texture[n]) \in Seq(S)
      BY <2>1, AppendProperties
    <3> QED
      BY <2>1, <3>1
  <2> QED
    BY <2>1, <2>2
<1>2. Loaded(entries, outcome) = (CHOOSE g : g = body(g))[N]
  BY DEF Loaded, Adds
<1> HIDE DEF next
<1>3. step \in [(1 .. N) \X Seq(S) -> Seq(S)] /\ <<>> \in Seq(S)
  BY <1>1
<1>4. PICK f : Loop(N, Seq(S), <<>>, step, f)
  <2> HIDE DEF step
  <2> QED
    BY <1>3, LoopRuns
<1>5. f = body(f)
  <2>1. ASSUME NEW n \in 0 .. N PROVE f[n] = IF n = 0 THEN <<>> ELSE next(f[n - 1], n)
    <3>1. CASE n = 0
      BY <1>4, <3>1 DEF Loop
    <3>2. CASE n # 0
      <4>1. n \in 1 .. N /\ n - 1 \in 0 .. N
        BY <3>2
      <4>2. f[n - 1] \in Seq(S) /\ f[n] = step[<< n, f[n - 1] >>]
        BY <1>4, <4>1 DEF Loop
      <4>3. << n, f[n - 1] >> \in (1 .. N) \X Seq(S)
        BY <4>1, <4>2
      <4>4. step[<< n, f[n - 1] >>] = next(f[n - 1], n)
        BY <4>3
      <4> QED
        BY <3>2, <4>2, <4>4
    <3> QED
      BY <3>1, <3>2
  <2> QED
    BY <1>4, <2>1 DEF Loop
<1>6. PICK loaded : loaded = body(loaded) /\ Loaded(entries, outcome) = loaded[N]
  BY <1>2, <1>5
<1>7. loaded[0] = <<>> /\ \A n \in 1 .. N : loaded[n] = next(loaded[n - 1], n)
  <2>1. \A n \in 0 .. N : loaded[n] = IF n = 0 THEN <<>> ELSE next(loaded[n - 1], n)
    BY <1>6
  <2>2. 0 \in 0 .. N /\ \A n \in 1 .. N : n \in 0 .. N /\ n # 0
    OBVIOUS
  <2> QED
    BY <2>1, <2>2
<1> DEFINE T == { n \in Nat : n <= N => /\ loaded[n] \in Seq(S) /\ Len(loaded[n]) = n
                                       /\ \A i \in 1 .. n : loaded[n][i] = texture[i] }
<1>8. 0 \in T
  <2>1. loaded[0] \in Seq(S) /\ Len(loaded[0]) = 0 /\ 1 .. 0 = {}
    BY <1>7
  <2> QED
    BY <2>1
<1>9. ASSUME NEW n \in Nat, n \in T PROVE n + 1 \in T
  <2> SUFFICES ASSUME n + 1 <= N
               PROVE  /\ loaded[n + 1] \in Seq(S) /\ Len(loaded[n + 1]) = n + 1
                      /\ \A i \in 1 .. n + 1 : loaded[n + 1][i] = texture[i]
    OBVIOUS
  <2>1. n + 1 \in 1 .. N /\ (n + 1) - 1 = n /\ n <= N
    OBVIOUS
  <2>2. PICK s \in Seq(S) : s = loaded[n] /\ Len(s) = n /\ \A i \in 1 .. n : s[i] = texture[i]
    BY <1>9, <2>1
  <2>3. loaded[n + 1] = Append(s, texture[n + 1]) /\ loaded[n + 1] \in Seq(S) /\ texture[n + 1] \in S
    BY <1>1, <1>7, <2>1, <2>2
  <2>4. /\ Len(Append(s, texture[n + 1])) = n + 1
        /\ \A i \in 1 .. n + 1 : Append(s, texture[n + 1])[i] = IF i <= n THEN s[i] ELSE texture[n + 1]
    <3>1. PICK t \in S : t = texture[n + 1]
      BY <2>3
    <3>2. /\ Len(Append(s, t)) = Len(s) + 1
          /\ \A i \in 1 .. Len(s) : Append(s, t)[i] = s[i]
          /\ Append(s, t)[Len(s) + 1] = t
      BY AppendProperties
    <3>3. \A i \in 1 .. n + 1 : (i <= n /\ i \in 1 .. n) \/ (~(i <= n) /\ i = n + 1)
      OBVIOUS
    <3> QED
      BY <2>2, <3>1, <3>2, <3>3
  <2>5. \A i \in 1 .. n + 1 : (i <= n /\ i \in 1 .. n) \/ (~(i <= n) /\ i = n + 1)
    OBVIOUS
  <2> QED
    BY <2>2, <2>3, <2>4, <2>5
<1> HIDE DEF T
<1>10. N \in T
  BY <1>8, <1>9, InductiveSets
<1>11. PICK all : all = loaded[N]
  OBVIOUS
<1>12. all \in Seq(S) /\ Len(all) = N /\ \A i \in 1 .. N : all[i] = texture[i]
  BY <1>10, <1>11 DEF T
<1>13. Lists(S, N, all, texture)
  BY <1>12 DEF Lists
<1> QED
  BY <1>6, <1>11, <1>13

(***************************************************************************)
(* The samplers of a model (addSampler()).                                 *)
(***************************************************************************)
\* A sampler that is found has the key.
LEMMA SamplerFound ==
  ASSUME NEW K, NEW owned \in Seq(K), NEW key
  PROVE  findSampler(owned, key) = 0 \/ (findSampler(owned, key) \in 1 .. Len(owned)
                                         /\ owned[findSampler(owned, key)] = key)
<1> DEFINE found == { h \in DOMAIN owned : owned[h] = key }
<1>1. DOMAIN owned = 1 .. Len(owned) /\ found \subseteq Nat
  OBVIOUS
<1>2. CASE found = {}
  BY <1>2 DEF findSampler
<1>3. CASE found # {}
  <2>1. \E h \in found : \A other \in found : h <= other
    <3> HIDE DEF found
    <3> QED
      BY <1>1, <1>3, LeastOf
  <2>2. findSampler(owned, key) = CHOOSE h \in found : \A other \in found : h <= other
    BY <1>3 DEF findSampler
  <2>3. findSampler(owned, key) \in found
    <3> HIDE DEF found
    <3> QED
      BY <2>1, <2>2
  <2> QED
    BY <1>1, <2>3
<1> QED
  BY <1>2, <1>3

\* The first n textures have a sampler each, with their key.
Shares(K, acc, uploaded, n) ==
  /\ acc \in [owned : Seq(K), handles : Seq(Nat)]
  /\ Len(acc.handles) = n
  /\ \A i \in 1 .. n : /\ acc.handles[i] \in 1 .. Len(acc.owned)
                       /\ acc.owned[acc.handles[i]] = uploaded[i].sampler

\* One texture more has a sampler.
LEMMA OneSamplerMore ==
  ASSUME NEW K, NEW uploaded, NEW acc, NEW n \in Nat, Shares(K, acc, uploaded, n),
         uploaded[n + 1].sampler \in K
  PROVE  Shares(K, addSampler(acc, uploaded[n + 1]), uploaded, n + 1)
<1>1. PICK owned \in Seq(K), handles \in Seq(Nat) :
        /\ owned = acc.owned /\ handles = acc.handles
        /\ acc = [owned |-> owned, handles |-> handles]
  BY DEF Shares
<1>2. PICK key \in K : key = uploaded[n + 1].sampler
  OBVIOUS
<1>3. /\ Len(handles) = n
      /\ \A i \in 1 .. n : handles[i] \in 1 .. Len(owned) /\ owned[handles[i]] = uploaded[i].sampler
  BY <1>1 DEF Shares
<1>4. ASSUME NEW more \in Seq(K), NEW h \in 1 .. Len(more), more[h] = key,
             Len(owned) <= Len(more), \A i \in 1 .. Len(owned) : more[i] = owned[i]
      PROVE  Shares(K, [owned |-> more, handles |-> Append(handles, h)], uploaded, n + 1)
  <2>1. h \in Nat /\ Len(owned) \in Nat /\ Len(more) \in Nat
    OBVIOUS
  <2>2. PICK longer \in Seq(Nat) : longer = Append(handles, h)
    BY <2>1, AppendProperties
  <2>3. /\ Len(longer) = n + 1 /\ longer[n + 1] = h
        /\ \A i \in 1 .. n : longer[i] = handles[i]
    BY <1>3, <2>1, <2>2, AppendProperties
  <2>4. ASSUME NEW i \in 1 .. n + 1
        PROVE  longer[i] \in 1 .. Len(more) /\ more[longer[i]] = uploaded[i].sampler
    <3>1. CASE i = n + 1
      BY <1>2, <1>4, <2>3, <3>1
    <3>2. CASE i # n + 1
      <4>1. i \in 1 .. n
        BY <3>2
      <4>2. longer[i] \in 1 .. Len(owned) /\ owned[longer[i]] = uploaded[i].sampler
        BY <1>3, <2>3, <4>1
      <4>3. \A x \in 1 .. Len(owned) : x \in 1 .. Len(more)
        BY <1>4, <2>1
      <4> QED
        BY <1>4, <4>2, <4>3
    <3> QED
      BY <3>1, <3>2
  <2>5. Shares(K, [owned |-> more, handles |-> longer], uploaded, n + 1)
    BY <2>3, <2>4 DEF Shares
  <2> QED
    BY <2>2, <2>5
<1>5. PICK existing : existing = findSampler(owned, key)
  OBVIOUS
<1>6. existing = 0 \/ (existing \in 1 .. Len(owned) /\ owned[existing] = key)
  BY <1>5, SamplerFound
<1>7. CASE existing # 0
  <2>1. addSampler(acc, uploaded[n + 1]) = [owned |-> owned, handles |-> Append(handles, existing)]
    BY <1>1, <1>2, <1>5, <1>7 DEF addSampler
  <2>2. Len(owned) <= Len(owned) /\ \A i \in 1 .. Len(owned) : owned[i] = owned[i]
    OBVIOUS
  <2>3. existing \in 1 .. Len(owned) /\ owned[existing] = key
    BY <1>6, <1>7
  <2> QED
    BY <1>4, <2>1, <2>2, <2>3
<1>8. CASE existing = 0
  <2>1. addSampler(acc, uploaded[n + 1])
          = [owned |-> Append(owned, key), handles |-> Append(handles, Len(owned) + 1)]
    BY <1>1, <1>2, <1>5, <1>8 DEF addSampler
  <2>2. PICK more \in Seq(K) : more = Append(owned, key)
    BY AppendProperties
  <2>3. /\ Len(more) = Len(owned) + 1 /\ more[Len(owned) + 1] = key
        /\ \A i \in 1 .. Len(owned) : more[i] = owned[i]
    BY <2>2, AppendProperties
  <2>4. Len(owned) \in Nat
    OBVIOUS
  <2>5. Len(owned) + 1 \in 1 .. Len(more) /\ Len(owned) <= Len(more)
    BY <2>3, <2>4
  <2>6. Shares(K, [owned |-> more, handles |-> Append(handles, Len(owned) + 1)], uploaded, n + 1)
    BY <1>4, <2>3, <2>5
  <2> QED
    BY <2>1, <2>2, <2>6
<1> QED
  BY <1>7, <1>8

\* Every texture of a model has a sampler with its key.
LEMMA SamplersShared ==
  ASSUME NEW K, NEW N \in Nat, NEW uploaded, Len(uploaded) = N,
         \A n \in 1 .. N : uploaded[n].sampler \in K
  PROVE  Shares(K, WithSamplers(uploaded), uploaded, N)
<1> DEFINE A == [owned : Seq(K), handles : Seq(Nat)]
           start == [owned |-> <<>>, handles |-> <<>>]
           next(acc, n) == addSampler(acc, uploaded[n])
           body(f) == [n \in 0 .. N |-> IF n = 0 THEN start ELSE next(f[n - 1], n)]
           Good(n) == { acc \in A : Shares(K, acc, uploaded, n) }
           Run(f, m) == /\ f \in [0 .. m -> A] /\ f[0] = start
                        /\ \A n \in 1 .. m : f[n] = next(f[n - 1], n)
                        /\ \A n \in 0 .. m : f[n] \in Good(n)
           P == { m \in Nat : m <= N => \E f : Run(f, m) }
<1>1. start \in Good(0)
  <2>1. start \in A /\ start.handles = <<>> /\ Len(<<>>) = 0 /\ 1 .. 0 = {}
    OBVIOUS
  <2>2. Shares(K, start, uploaded, 0)
    BY <2>1 DEF Shares
  <2> QED
    BY <2>1, <2>2
<1>2. ASSUME NEW n \in Nat, n + 1 <= N, NEW acc \in Good(n) PROVE next(acc, n + 1) \in Good(n + 1)
  <2>1. n + 1 \in 1 .. N
    BY <1>2
  <2>2. Shares(K, next(acc, n + 1), uploaded, n + 1)
    BY <1>2, <2>1, OneSamplerMore
  <2> QED
    BY <2>2 DEF Shares
<1>3. WithSamplers(uploaded) = (CHOOSE g : g = body(g))[N]
  BY DEF WithSamplers
<1> HIDE DEF next, start
<1>4. \A n : Good(n) \subseteq A
  OBVIOUS
<1>5. \A n : \A acc \in Good(n) : Shares(K, acc, uploaded, n)
  OBVIOUS
<1> HIDE DEF Good, A
<1>6. 0 \in P
  <2>1. Run([n \in 0 .. 0 |-> start], 0)
    BY <1>1, <1>4
  <2> QED
    BY <2>1
<1>7. ASSUME NEW m \in Nat, m \in P PROVE m + 1 \in P
  <2> SUFFICES ASSUME m + 1 <= N PROVE \E g : Run(g, m + 1)
    OBVIOUS
  <2>1. PICK f : Run(f, m)
    BY <1>7
  <2>2. PICK last \in Good(m + 1) : last = next(f[m], m + 1)
    BY <1>2, <2>1
  <2> DEFINE g == [n \in 0 .. m + 1 |-> IF n = m + 1 THEN last ELSE f[n]]
  <2>3. g \in [0 .. m + 1 -> A] /\ g[0] = start
    BY <1>4, <2>1, <2>2
  <2>4. ASSUME NEW n \in 1 .. m + 1 PROVE g[n] = next(g[n - 1], n)
    <3>1. n \in 0 .. m + 1 /\ n - 1 \in 0 .. m + 1 /\ n - 1 # m + 1
      OBVIOUS
    <3>2. g[n - 1] = f[n - 1] /\ g[n] = IF n = m + 1 THEN last ELSE f[n]
      BY <3>1
    <3>3. n = m + 1 => n - 1 = m
      OBVIOUS
    <3>4. n # m + 1 => n \in 1 .. m
      OBVIOUS
    <3> HIDE DEF g
    <3> QED
      BY <2>1, <2>2, <3>2, <3>3, <3>4
  <2>5. ASSUME NEW n \in 0 .. m + 1 PROVE g[n] \in Good(n)
    <3>1. n # m + 1 => n \in 0 .. m
      OBVIOUS
    <3>2. g[n] = IF n = m + 1 THEN last ELSE f[n]
      OBVIOUS
    <3> HIDE DEF g
    <3> QED
      BY <2>1, <2>2, <3>1, <3>2
  <2> QED
    BY <2>3, <2>4, <2>5
<1> HIDE DEF P
<1>8. N \in P
  BY <1>6, <1>7, InductiveSets
<1>9. PICK f : /\ f \in [0 .. N -> A] /\ f[0] = start
               /\ \A n \in 1 .. N : f[n] = next(f[n - 1], n)
  BY <1>8 DEF P
<1>10. f = body(f)
  <2>1. ASSUME NEW n \in 0 .. N PROVE f[n] = IF n = 0 THEN start ELSE next(f[n - 1], n)
    <3>1. n # 0 => n \in 1 .. N
      OBVIOUS
    <3> QED
      BY <1>9, <3>1
  <2> QED
    BY <1>9, <2>1
<1>11. PICK after : after = body(after) /\ WithSamplers(uploaded) = after[N]
  BY <1>3, <1>10
<1>12. after[0] = start /\ \A n \in 1 .. N : after[n] = next(after[n - 1], n)
  <2>1. \A n \in 0 .. N : after[n] = IF n = 0 THEN start ELSE next(after[n - 1], n)
    BY <1>11
  <2>2. 0 \in 0 .. N /\ \A n \in 1 .. N : n \in 0 .. N /\ n # 0
    OBVIOUS
  <2> QED
    BY <2>1, <2>2
<1> DEFINE T == { n \in Nat : n <= N => after[n] \in Good(n) }
<1>13. 0 \in T
  BY <1>1, <1>12
<1>14. ASSUME NEW n \in Nat, n \in T PROVE n + 1 \in T
  <2> SUFFICES ASSUME n + 1 <= N PROVE after[n + 1] \in Good(n + 1)
    OBVIOUS
  <2>1. n + 1 \in 1 .. N /\ (n + 1) - 1 = n /\ n <= N
    OBVIOUS
  <2>2. after[n] \in Good(n) /\ after[n + 1] = next(after[n], n + 1)
    BY <1>12, <1>14, <2>1
  <2> QED
    BY <1>2, <2>2
<1> HIDE DEF T
<1>15. N \in T
  BY <1>13, <1>14, InductiveSets
<1>16. after[N] \in Good(N)
  BY <1>15 DEF T
<1> QED
  BY <1>5, <1>11, <1>16

(***************************************************************************)
(* A loader.  The entries of its list that name a texture are its model-   *)
(* local textures; a slot is the position of its key among them.           *)
(***************************************************************************)
TextureKeys == [image : Images, sampler : Samplers, srgb : BOOLEAN]

\* Every key has one entry, and its slot is the place of that entry.
Numbered(entries, slots) ==
  /\ slots \in [DOMAIN slots -> Nat]
  /\ DOMAIN slots = { entries[i] : i \in 1 .. Len(entries) }
  /\ \A i \in 1 .. Len(entries) : slots[entries[i]] = i - 1
  /\ IsFiniteSet(DOMAIN slots) /\ Cardinality(DOMAIN slots) = Len(entries)

\* In glTF, an entry is a slot and its image can be read.
LoaderInv(f, list, slots) ==
  /\ list \in Seq(TextureKeys \cup {Skipped})
  /\ Numbered(Entries(list), slots)
  /\ f = "gltf" => /\ Entries(list) = list
                   /\ \A i \in 1 .. Len(list) : list[i].image \notin Unreadable

\* A document can provide a texture of this kind.
Provided(f, views, kind) ==
  kind \in DOMAIN views /\ (f = "gltf" => views[kind].image \notin Unreadable)

\* The id of a kind is the place of its key, or none.
Resolves(entries, f, views, material, kind) ==
  IF Provided(f, views, kind)
  THEN \E i \in 1 .. Len(entries) : material[kind] = i - 1 /\ entries[i] = Key(views[kind], kind)
  ELSE material[kind] = -1

\* A material is resolved in every kind.
Resolved(entries, f, views, material) ==
  \A kind \in Kinds : Resolves(entries, f, views, material, kind)

\* A loader that has resolved some kinds of a material.
Resolving(f, loader, views, done) ==
  /\ loader = [textures |-> loader.textures, slotOf |-> loader.slotOf, material |-> loader.material]
  /\ LoaderInv(f, loader.textures, loader.slotOf)
  /\ loader.material \in [Kinds -> Int]
  /\ \A kind \in Kinds : IF kind \in done
                         THEN Resolves(Entries(loader.textures), f, views, loader.material, kind)
                         ELSE loader.material[kind] = -1

\* The entries stay where they are.
Prolongs(longer, entries) ==
  Len(entries) <= Len(longer) /\ \A i \in 1 .. Len(entries) : longer[i] = entries[i]

\* A material stays resolved when entries are appended.
LEMMA ResolvesStays ==
  ASSUME NEW entries \in Seq(TextureKeys), NEW longer \in Seq(TextureKeys), Prolongs(longer, entries),
         NEW f, NEW views, NEW material, NEW kind, Resolves(entries, f, views, material, kind)
  PROVE  Resolves(longer, f, views, material, kind)
<1>1. \A i \in 1 .. Len(entries) : i \in 1 .. Len(longer)
  <2>1. Len(entries) \in Nat /\ Len(longer) \in Nat /\ Len(entries) <= Len(longer)
    BY DEF Prolongs
  <2> QED
    BY <2>1
<1> QED
  BY <1>1 DEF Resolves, Prolongs

\* A key that has a slot is at its place.
LEMMA KnownKeys ==
  ASSUME NEW entries \in Seq(TextureKeys), NEW slots, Numbered(entries, slots), NEW key \in DOMAIN slots
  PROVE  /\ \A id : Known(slots, key, id) = slots
         /\ \E i \in 1 .. Len(entries) : entries[i] = key /\ slots[key] = i - 1
<1>1. \E i \in 1 .. Len(entries) : entries[i] = key /\ slots[key] = i - 1
  <2>1. key \in { entries[i] : i \in 1 .. Len(entries) }
    BY DEF Numbered
  <2>2. PICK i \in 1 .. Len(entries) : key = entries[i]
    BY <2>1
  <2>3. slots[entries[i]] = i - 1
    BY DEF Numbered
  <2> QED
    BY <2>2, <2>3
<1>2. DOMAIN slots \cup {key} = DOMAIN slots /\ slots = [k \in DOMAIN slots |-> slots[k]]
  BY DEF Numbered
<1>3. ASSUME NEW id PROVE Known(slots, key, id) = slots
  BY <1>2 DEF Known
<1> QED
  BY <1>1, <1>3

\* A new key takes the next slot.
LEMMA NewKeys ==
  ASSUME NEW entries \in Seq(TextureKeys), NEW slots, Numbered(entries, slots),
         NEW key \in TextureKeys, key \notin DOMAIN slots
  PROVE  /\ Numbered(Append(entries, key), Known(slots, key, Len(entries)))
         /\ Append(entries, key) \in Seq(TextureKeys)
         /\ Prolongs(Append(entries, key), entries)
         /\ Len(Append(entries, key)) = Len(entries) + 1
         /\ Append(entries, key)[Len(entries) + 1] = key
<1>1. PICK N \in Nat : N = Len(entries)
  OBVIOUS
<1>2. PICK longer \in Seq(TextureKeys) : longer = Append(entries, key)
  BY AppendProperties
<1>3. /\ Len(longer) = N + 1 /\ longer[N + 1] = key
      /\ \A i \in 1 .. N : longer[i] = entries[i]
  BY <1>1, <1>2, AppendProperties
<1>4. PICK more : more = Known(slots, key, N)
  OBVIOUS
<1>5. /\ DOMAIN more = DOMAIN slots \cup {key} /\ more[key] = N
      /\ \A k \in DOMAIN slots : more[k] = slots[k]
      /\ more = [k \in DOMAIN more |-> more[k]]
  BY <1>4 DEF Known
<1>6. /\ DOMAIN slots = { entries[i] : i \in 1 .. N }
      /\ \A i \in 1 .. N : slots[entries[i]] = i - 1
      /\ IsFiniteSet(DOMAIN slots) /\ Cardinality(DOMAIN slots) = N
      /\ slots \in [DOMAIN slots -> Nat]
  BY <1>1 DEF Numbered
<1>7. /\ \A i \in 1 .. N + 1 : i = N + 1 \/ i \in 1 .. N
      /\ N + 1 \in 1 .. N + 1 /\ \A i \in 1 .. N : i \in 1 .. N + 1
      /\ (N + 1) - 1 = N
  OBVIOUS
<1>8. DOMAIN more = { longer[i] : i \in 1 .. N + 1 }
  <2>1. ASSUME NEW k \in DOMAIN slots PROVE \E i \in 1 .. N + 1 : longer[i] = k
    BY <1>3, <1>6, <1>7
  <2>2. ASSUME NEW i \in 1 .. N + 1 PROVE longer[i] \in DOMAIN slots \cup {key}
    BY <1>3, <1>6, <1>7
  <2>3. \E i \in 1 .. N + 1 : longer[i] = key
    BY <1>3, <1>7
  <2> QED
    BY <1>5, <2>1, <2>2, <2>3
<1>9. \A i \in 1 .. N + 1 : more[longer[i]] = i - 1
  <2>1. ASSUME NEW i \in 1 .. N PROVE more[longer[i]] = i - 1
    <3>1. entries[i] \in DOMAIN slots /\ longer[i] = entries[i]
      BY <1>3, <1>6
    <3> QED
      BY <1>5, <1>6, <3>1
  <2> QED
    BY <1>3, <1>5, <1>7, <2>1
<1>10. IsFiniteSet(DOMAIN more) /\ Cardinality(DOMAIN more) = N + 1
  <2>1. PICK before : before = DOMAIN slots /\ IsFiniteSet(before) /\ Cardinality(before) = N /\ key \notin before
    BY <1>6
  <2>2. IsFiniteSet(before \cup {key}) /\ Cardinality(before \cup {key}) = Cardinality(before) + 1
    BY <2>1, FS_AddElement
  <2> QED
    BY <1>5, <2>1, <2>2
<1>11. more \in [DOMAIN more -> Nat]
  <2>1. \A k \in DOMAIN more : more[k] \in Nat
    BY <1>5, <1>6
  <2> QED
    BY <1>5, <2>1
<1>12. Numbered(longer, more)
  BY <1>3, <1>8, <1>9, <1>10, <1>11 DEF Numbered
<1>13. Prolongs(longer, entries)
  <2>1. N <= N + 1
    OBVIOUS
  <2> QED
    BY <1>1, <1>3, <2>1 DEF Prolongs
<1> QED
  BY <1>1, <1>2, <1>3, <1>4, <1>12, <1>13

(***************************************************************************)
(* The inductive invariant.                                                *)
(***************************************************************************)
\* What a slot of the array can hold, and the keys of its sampler.
Held        == [image : Images, srgb : BOOLEAN] \cup {White, Nothing}

\* What a sampler is created from, and a texture before the model owns it.
SamplerKeys == [mipLevel : 0 .. 2, desc : Samplers]
TextureData == [holds : Held, sampler : SamplerKeys]

\* The views of a material of a document.
MaterialViews == UNION { [kinds -> [image : Images, sampler : Samplers]] : kinds \in SUBSET Kinds }

\* The models that uploadParsed() appends, as far as their types go.
LoadedModels ==
  [modelTextures : Seq(Held), ownedSamplers : Seq(SamplerKeys), modelTextureSamplers : Seq(Nat),
   meshes : 1 .. MaxMeshes, materials : Seq([Kinds -> Int]), authored : Seq(MaterialViews),
   format : {"obj", "gltf"}, created : SUBSET TextureKeys]

\* The types of the loader's state and of the loaded models.
TypeOK ==
  /\ phase \in {"idle", "parsing", "parsed"} /\ format \in {"obj", "gltf"}
  /\ textures \in Seq(TextureKeys \cup {Skipped})
  /\ DOMAIN slotOf \subseteq TextureKeys /\ slotOf \in [DOMAIN slotOf -> Nat]
  /\ materials \in Seq([Kinds -> Int]) /\ authored \in Seq(MaterialViews)
  /\ models \in Seq(LoadedModels)

\* Every material of the document so far is resolved against the entries.
DocumentInv ==
  /\ LoaderInv(format, textures, slotOf)
  /\ Len(materials) = Len(authored)
  /\ \A k \in 1 .. Len(authored) :
       Resolved(Entries(textures), format, authored[k], materials[k])

\* A model holds a texture for every entry of its loader, in order: the one
\* that was created or a stand-in, each with a sampler of its own key.
Uploaded(model, entries) ==
  /\ Len(model.modelTextures) # 0 /\ Len(entries) <= Len(model.modelTextures)
  /\ Len(model.modelTextureSamplers) = Len(model.modelTextures)
  /\ \A i \in 1 .. Len(model.modelTextures) :
       model.modelTextureSamplers[i] \in 1 .. Len(model.ownedSamplers)
  /\ \A i \in 1 .. Len(entries) :
       IF entries[i] \in model.created
       THEN /\ model.modelTextures[i] = Created(entries[i]).holds
            /\ model.ownedSamplers[model.modelTextureSamplers[i]] = Created(entries[i]).sampler
       ELSE model.modelTextures[i] \in {White, Nothing}
  /\ Len(model.materials) = Len(model.authored)
  /\ \A k \in 1 .. Len(model.authored) :
       Resolved(entries, model.format, model.authored[k], model.materials[k])

\* Every model was uploaded from the entries of some loader.
ModelsInv ==
  \A m \in 1 .. Len(models) : \E entries \in Seq(TextureKeys) : Uploaded(models[m], entries)

\* The inductive invariant.
IInv == TypeOK /\ DocumentInv /\ ModelsInv

(***************************************************************************)
(* The slots of one material (resolveSlot(), assignTextureSlot()).         *)
(***************************************************************************)
\* What a step of a loader keeps and adds.
Assigns(f, loader, views, done, kind, after) ==
  /\ Resolving(f, after, views, done \cup {kind})
  /\ Prolongs(Entries(after.textures), Entries(loader.textures))

\* A step that leaves the entries as they are and resolves one kind.
LEMMA KeepsEntries ==
  ASSUME NEW f, NEW loader, NEW views, NEW done, NEW kind \in Kinds, kind \notin done,
         Resolving(f, loader, views, done),
         NEW list, Entries(list) = Entries(loader.textures), LoaderInv(f, list, loader.slotOf),
         NEW id \in Int,
         Resolves(Entries(list), f, views, [loader.material EXCEPT ![kind] = id], kind)
  PROVE  Assigns(f, loader, views, done, kind,
                 [textures |-> list, slotOf |-> loader.slotOf, material |-> [loader.material EXCEPT ![kind] = id]])
<1>1. PICK material \in [Kinds -> Int] : material = loader.material
  BY DEF Resolving
<1>2. PICK after \in [Kinds -> Int] : after = [loader.material EXCEPT ![kind] = id]
  BY <1>1
<1>3. \A other \in Kinds : other # kind => after[other] = material[other]
  BY <1>1, <1>2
<1>4. ASSUME NEW other \in Kinds
      PROVE  IF other \in done \cup {kind}
             THEN Resolves(Entries(list), f, views, after, other)
             ELSE after[other] = -1
  <2>1. CASE other = kind
    BY <1>2, <2>1
  <2>2. CASE other # kind
    <3>1. IF other \in done THEN Resolves(Entries(list), f, views, material, other) ELSE material[other] = -1
      BY <1>1 DEF Resolving
    <3> QED
      BY <1>3, <2>2, <3>1 DEF Resolves
  <2> QED
    BY <2>1, <2>2
<1>5. PICK new : new = [textures |-> list, slotOf |-> loader.slotOf, material |-> after]
  OBVIOUS
<1>6. Resolving(f, new, views, done \cup {kind})
  BY <1>4, <1>5 DEF Resolving
<1>7. Prolongs(Entries(list), Entries(loader.textures))
  <2>1. Entries(list) \in Seq(TextureKeys)
    BY EntriesOneMore DEF LoaderInv
  <2> QED
    BY <2>1 DEF Prolongs
<1> QED
  BY <1>2, <1>5, <1>6, <1>7 DEF Assigns

\* A step that appends the key of a kind and takes its slot.
LEMMA AddsEntry ==
  ASSUME NEW f, NEW loader, NEW views, NEW done, NEW kind \in Kinds, kind \notin done,
         Resolving(f, loader, views, done), Provided(f, views, kind),
         NEW key \in TextureKeys, key = Key(views[kind], kind), key \notin DOMAIN loader.slotOf,
         NEW id \in Int, id = Len(Entries(loader.textures))
  PROVE  Assigns(f, loader, views, done, kind,
                 [textures |-> Append(loader.textures, key), slotOf |-> Known(loader.slotOf, key, id),
                  material |-> [loader.material EXCEPT ![kind] = id]])
<1>1. PICK material \in [Kinds -> Int] : material = loader.material
  BY DEF Resolving
<1>2. PICK after \in [Kinds -> Int] : after = [loader.material EXCEPT ![kind] = id]
  BY <1>1
<1>3. after[kind] = id /\ \A other \in Kinds : other # kind => after[other] = material[other]
  BY <1>1, <1>2
<1>4. PICK list \in Seq(TextureKeys \cup {Skipped}) :
        list = loader.textures /\ LoaderInv(f, list, loader.slotOf)
  BY DEF Resolving, LoaderInv
<1>5. PICK entries \in Seq(TextureKeys) :
        entries = Entries(list) /\ Numbered(entries, loader.slotOf)
  BY <1>4, EntriesOneMore DEF LoaderInv
<1>6. key # Skipped /\ key \in TextureKeys \cup {Skipped}
  BY TextureSlotsAssumption DEF TextureKeys
<1>7. Entries(Append(list, key)) = Append(entries, key)
  BY <1>5, <1>6, EntriesOneMore
<1>8. PICK longer \in Seq(TextureKeys) : longer = Append(entries, key)
  BY AppendProperties
<1>9. PICK slots : slots = Known(loader.slotOf, key, id)
  OBVIOUS
<1>10. /\ Numbered(longer, slots) /\ Prolongs(longer, entries)
       /\ Len(longer) = Len(entries) + 1 /\ longer[Len(entries) + 1] = key
  BY <1>4, <1>5, <1>8, <1>9, NewKeys
<1>11. PICK more \in Seq(TextureKeys \cup {Skipped}) : more = Append(list, key)
  BY <1>6, AppendProperties
<1>12. LoaderInv(f, more, slots)
  <2>1. ASSUME f = "gltf"
        PROVE  /\ Entries(more) = more
               /\ \A i \in 1 .. Len(more) : more[i].image \notin Unreadable
    <3>1. entries = list /\ \A i \in 1 .. Len(list) : list[i].image \notin Unreadable
      BY <1>4, <1>5, <2>1 DEF LoaderInv
    <3>2. Entries(more) = more
      BY <1>7, <1>11, <3>1
    <3>3. key.image \notin Unreadable
      BY <2>1 DEF Provided, Key
    <3>4. /\ Len(more) = Len(list) + 1 /\ more[Len(list) + 1] = key
          /\ \A i \in 1 .. Len(list) : more[i] = list[i]
      BY <1>6, <1>11, AppendProperties
    <3>5. \A i \in 1 .. Len(list) + 1 : i = Len(list) + 1 \/ i \in 1 .. Len(list)
      <4>1. \A n \in Nat : \A i \in 1 .. n + 1 : i = n + 1 \/ i \in 1 .. n
        OBVIOUS
      <4>2. Len(list) \in Nat
        OBVIOUS
      <4> QED
        BY <4>1, <4>2
    <3> QED
      BY <3>1, <3>2, <3>3, <3>4, <3>5
  <2> QED
    BY <1>7, <1>8, <1>10, <1>11, <2>1 DEF LoaderInv
<1>13. ASSUME NEW other \in Kinds
       PROVE  IF other \in done \cup {kind} THEN Resolves(longer, f, views, after, other) ELSE after[other] = -1
  <2>1. CASE other = kind
    <3>1. PICK N \in Nat : N = Len(entries)
      OBVIOUS
    <3>2. N + 1 \in 1 .. N + 1 /\ (N + 1) - 1 = N
      OBVIOUS
    <3> QED
      BY <1>3, <1>4, <1>5, <1>10, <2>1, <3>1, <3>2 DEF Resolves
  <2>2. CASE other # kind
    <3>1. IF other \in done THEN Resolves(entries, f, views, material, other) ELSE material[other] = -1
      BY <1>1, <1>4, <1>5 DEF Resolving
    <3>2. CASE other \in done
      <4>1. Resolves(longer, f, views, material, other)
        BY <1>10, <3>1, <3>2, ResolvesStays
      <4> QED
        BY <1>3, <2>2, <3>2, <4>1 DEF Resolves
    <3>3. CASE other \notin done
      BY <1>3, <2>2, <3>1, <3>3
    <3> QED
      BY <3>2, <3>3
  <2> QED
    BY <2>1, <2>2
<1>14. PICK new : new = [textures |-> more, slotOf |-> slots, material |-> after]
  OBVIOUS
<1>15. Entries(more) = longer
  BY <1>7, <1>8, <1>11
<1>16. Resolving(f, new, views, done \cup {kind})
  BY <1>12, <1>13, <1>14, <1>15 DEF Resolving
<1>17. Prolongs(Entries(new.textures), Entries(loader.textures))
  BY <1>4, <1>5, <1>10, <1>14, <1>15
<1> QED
  BY <1>2, <1>4, <1>9, <1>11, <1>14, <1>16, <1>17 DEF Assigns

\* What a material names, for each kind the loader of its format knows.
Names(f, views) ==
  \A kind \in DOMAIN views :
    kind \in Kinds /\ views[kind] \in View(f) /\ \E n \in 1 .. 4 : kind = KindsOf(f)[n]

\* One kind more is resolved, whatever the material has.
LEMMA AssignedResolves ==
  ASSUME format \in {"obj", "gltf"}, NEW loader, NEW views, NEW done, NEW kind \in Kinds, kind \notin done,
         Resolving(format, loader, views, done), Names(format, views)
  PROVE  Assigns(format, loader, views, done, kind, Assigned(loader, views, kind))
<1>1. PICK f \in {"obj", "gltf"} : f = format
  OBVIOUS
<1>2. PICK material \in [Kinds -> Int] : material = loader.material
  BY DEF Resolving
<1>3. PICK list \in Seq(TextureKeys \cup {Skipped}) : list = loader.textures
  BY DEF Resolving, LoaderInv
<1>4. PICK slots : slots = loader.slotOf
  OBVIOUS
<1>5. /\ loader = [textures |-> list, slotOf |-> slots, material |-> material]
      /\ list = loader.textures /\ slots = loader.slotOf /\ material = loader.material
      /\ Resolving(f, loader, views, done) /\ Names(f, views)
      /\ LoaderInv(f, list, slots) /\ material[kind] = -1
  BY <1>1, <1>2, <1>3, <1>4 DEF Resolving
<1>6. PICK entries \in Seq(TextureKeys) : entries = Entries(list) /\ Numbered(entries, slots)
  BY <1>5, EntriesOneMore DEF LoaderInv
<1>7. PICK longer \in Seq(TextureKeys \cup {Skipped}) : longer = Append(list, Skipped) /\ Entries(longer) = entries
  <2>1. Skipped \in TextureKeys \cup {Skipped}
    OBVIOUS
  <2> QED
    BY <1>6, <2>1, EntriesOneMore, AppendProperties
<1>8. f = "obj" => LoaderInv(f, longer, slots)
  BY <1>6, <1>7 DEF LoaderInv
<1>9. [material EXCEPT ![kind] = -1] = material
  BY <1>5
<1>10. ASSUME NEW unchanged, Entries(unchanged) = entries, LoaderInv(f, unchanged, slots), NEW id \in Int,
             Resolves(entries, f, views, [material EXCEPT ![kind] = id], kind)
      PROVE  Assigns(f, loader, views, done, kind,
                     [textures |-> unchanged, slotOf |-> slots, material |-> [material EXCEPT ![kind] = id]])
  BY <1>5, <1>6, <1>10, KeepsEntries
<1> SUFFICES Assigns(f, loader, views, done, kind, Assigned(loader, views, kind))
  BY <1>1
<1>11. CASE kind \notin DOMAIN views
  <2>1. Resolves(entries, f, views, material, kind)
    BY <1>5, <1>11 DEF Resolves, Provided
  <2>2. -1 \in Int
    OBVIOUS
  <2>3. CASE f = "obj" /\ kind = "base"
    <3>1. Assigned(loader, views, kind) = [textures |-> longer, slotOf |-> slots, material |-> material]
      BY <1>1, <1>5, <1>7, <1>11, <2>3 DEF Assigned, NoTexture
    <3>2. Entries(longer) = entries /\ LoaderInv(f, longer, slots)
      BY <1>7, <1>8, <2>3
    <3>3. Assigns(f, loader, views, done, kind, [textures |-> longer, slotOf |-> slots, material |-> material])
      BY <1>9, <1>10, <2>1, <2>2, <3>2
    <3> QED
      BY <3>1, <3>3
  <2>4. CASE ~(f = "obj" /\ kind = "base")
    <3>1. Assigned(loader, views, kind) = [textures |-> list, slotOf |-> slots, material |-> material]
      BY <1>1, <1>5, <1>11, <2>4 DEF Assigned, NoTexture
    <3> QED
      BY <1>5, <1>6, <1>9, <1>10, <2>1, <2>2, <3>1
  <2> QED
    BY <2>3, <2>4
<1>12. CASE kind \in DOMAIN views
  <2>1. PICK key \in TextureKeys : key = Key(views[kind], kind)
    <3>1. views[kind] \in View(f)
      BY <1>5, <1>12 DEF Names
    <3>2. views[kind].image \in Images /\ views[kind].sampler \in Samplers
      BY <3>1, TextureSlotsAssumption DEF View
    <3>3. Srgb(kind) \in BOOLEAN
      BY DEF Srgb
    <3> QED
      BY <3>2, <3>3 DEF Key, TextureKeys
  <2>2. CASE key \in DOMAIN slots
    <3>1. PICK i \in 1 .. Len(entries) : entries[i] = key /\ slots[key] = i - 1
      <4>1. PICK known \in DOMAIN slots : known = key
        BY <2>2
      <4>2. \E i \in 1 .. Len(entries) : entries[i] = known /\ slots[known] = i - 1
        BY <1>6, KnownKeys
      <4> QED
        BY <4>1, <4>2
    <3>2. slots[key] \in Int
      BY <3>1
    <3>3. Provided(f, views, kind)
      <4>1. ASSUME f = "gltf" PROVE key.image \notin Unreadable
        BY <1>5, <1>6, <3>1, <4>1 DEF LoaderInv
      <4> QED
        BY <1>12, <2>1, <4>1 DEF Provided, Key
    <3>4. [material EXCEPT ![kind] = slots[key]][kind] = slots[key]
      OBVIOUS
    <3>5. Resolves(entries, f, views, [material EXCEPT ![kind] = slots[key]], kind)
      BY <2>1, <3>1, <3>3, <3>4 DEF Resolves
    <3>6. CASE f = "obj"
      <4>1. \A id : Known(slots, key, id) = slots
        BY <1>6, <2>2, KnownKeys
      <4>2. Assigned(loader, views, kind)
              = [textures |-> longer, slotOf |-> slots, material |-> [material EXCEPT ![kind] = slots[key]]]
        BY <1>1, <1>5, <1>7, <1>12, <2>1, <2>2, <3>6, <4>1 DEF Assigned, resolveSlot
      <4> QED
        BY <1>7, <1>8, <1>10, <3>2, <3>5, <3>6, <4>2
    <3>7. CASE f # "obj"
      <4>1. Assigned(loader, views, kind)
              = [textures |-> list, slotOf |-> slots, material |-> [material EXCEPT ![kind] = slots[key]]]
        BY <1>1, <1>5, <1>12, <2>1, <2>2, <3>7 DEF Assigned, assignTextureSlot
      <4> QED
        BY <1>5, <1>6, <1>10, <3>2, <3>5, <4>1
    <3> QED
      BY <3>6, <3>7
  <2>3. CASE key \notin DOMAIN slots /\ Provided(f, views, kind)
    <3>1. PICK id \in Int : id = Len(entries)
      OBVIOUS
    <3>2. Assigned(loader, views, kind)
            = [textures |-> Append(list, key), slotOf |-> Known(slots, key, id),
               material |-> [material EXCEPT ![kind] = id]]
      <4>1. CASE f = "obj"
        <5>1. Cardinality(DOMAIN slots) = id
          BY <1>6, <3>1 DEF Numbered
        <5> QED
          BY <1>1, <1>5, <1>12, <2>1, <2>3, <4>1, <5>1 DEF Assigned, resolveSlot
      <4>2. CASE f # "obj"
        <5>1. Len(list) = id /\ key.image \notin Unreadable
          BY <1>5, <1>6, <2>1, <2>3, <3>1, <4>2 DEF LoaderInv, Provided, Key
        <5> QED
          BY <1>1, <1>5, <1>12, <2>1, <2>3, <4>2, <5>1 DEF Assigned, assignTextureSlot
      <4> QED
        BY <4>1, <4>2
    <3>3. /\ key \notin DOMAIN loader.slotOf /\ Provided(f, views, kind)
          /\ Resolving(f, loader, views, done) /\ id = Len(Entries(loader.textures))
      BY <1>5, <1>6, <2>3, <3>1
    <3>4. Assigns(f, loader, views, done, kind,
                  [textures |-> Append(loader.textures, key), slotOf |-> Known(loader.slotOf, key, id),
                   material |-> [loader.material EXCEPT ![kind] = id]])
      BY <2>1, <3>3, AddsEntry
    <3> QED
      BY <1>5, <3>2, <3>4
  <2>4. CASE key \notin DOMAIN slots /\ ~Provided(f, views, kind)
    <3>1. f = "gltf" /\ key.image \in Unreadable
      BY <1>12, <2>1, <2>4 DEF Provided, Key
    <3>2. Assigned(loader, views, kind) = [textures |-> list, slotOf |-> slots, material |-> material]
      BY <1>1, <1>5, <1>12, <2>1, <2>4, <3>1 DEF Assigned, assignTextureSlot
    <3>3. Resolves(entries, f, views, material, kind)
      BY <1>5, <2>4 DEF Resolves
    <3>4. -1 \in Int
      OBVIOUS
    <3> QED
      BY <1>5, <1>6, <1>9, <1>10, <3>2, <3>3, <3>4
  <2> QED
    BY <2>2, <2>3, <2>4
<1> QED
  BY <1>11, <1>12

\* Entries that stay where they are for two steps stay for both.
LEMMA ProlongsTwice ==
  ASSUME NEW first \in Seq(TextureKeys), NEW second \in Seq(TextureKeys), NEW third \in Seq(TextureKeys),
         Prolongs(second, first), Prolongs(third, second)
  PROVE  Prolongs(third, first)
<1>1. /\ Len(first) \in Nat /\ Len(second) \in Nat /\ Len(third) \in Nat
      /\ Len(first) <= Len(second) /\ Len(second) <= Len(third)
  BY DEF Prolongs
<1>2. Len(first) <= Len(third) /\ \A i \in 1 .. Len(first) : i \in 1 .. Len(second)
  BY <1>1
<1> QED
  BY <1>2 DEF Prolongs

\* The entries of a loader are keys.
LEMMA EntriesOfLoader ==
  ASSUME NEW f, NEW loader, NEW views, NEW done, Resolving(f, loader, views, done)
  PROVE  Entries(loader.textures) \in Seq(TextureKeys)
<1>1. loader.textures \in Seq(TextureKeys \cup {Skipped}) /\ Skipped \in TextureKeys \cup {Skipped}
  BY DEF Resolving, LoaderInv
<1> QED
  BY <1>1, EntriesOneMore

\* After its four kinds a material is resolved in every kind.
LEMMA MaterialResolves ==
  ASSUME format \in {"obj", "gltf"}, LoaderInv(format, textures, slotOf), NEW views, Names(format, views),
         NEW loader, loader = WithMaterial(views)
  PROVE  /\ LoaderInv(format, loader.textures, loader.slotOf)
         /\ loader.material \in [Kinds -> Int]
         /\ Resolved(Entries(loader.textures), format, views, loader.material)
         /\ Prolongs(Entries(loader.textures), Entries(textures))
<1>1. PICK f \in {"obj", "gltf"} : f = format
  OBVIOUS
<1>2. PICK k1, k2, k3, k4 : KindsOf(f) = << k1, k2, k3, k4 >>
  BY DEF KindsOf
<1>3. /\ {k1, k2, k3, k4} \subseteq Kinds
      /\ k1 # k2 /\ k1 # k3 /\ k1 # k4 /\ k2 # k3 /\ k2 # k4 /\ k3 # k4
  BY <1>2 DEF KindsOf, Kinds
<1>4. PICK start : start = [textures |-> textures, slotOf |-> slotOf, material |-> Untextured]
  OBVIOUS
<1>5. Resolving(format, start, views, {})
  <2>1. Untextured \in [Kinds -> Int] /\ \A kind \in Kinds : Untextured[kind] = -1
    BY DEF Untextured
  <2> QED
    BY <1>4, <2>1 DEF Resolving
<1>6. PICK first : first = Assigned(start, views, k1)
  OBVIOUS
<1>7. PICK second : second = Assigned(first, views, k2)
  OBVIOUS
<1>8. PICK third : third = Assigned(second, views, k3)
  OBVIOUS
<1>9. loader = Assigned(third, views, k4)
  BY <1>1, <1>2, <1>4, <1>6, <1>7, <1>8 DEF WithMaterial
<1>10. Resolving(format, first, views, {} \cup {k1}) /\ Prolongs(Entries(first.textures), Entries(start.textures))
  BY <1>3, <1>5, <1>6, AssignedResolves DEF Assigns
<1>11. Resolving(format, second, views, {} \cup {k1} \cup {k2})
       /\ Prolongs(Entries(second.textures), Entries(first.textures))
  <2>1. k2 \notin {} \cup {k1}
    BY <1>3
  <2> QED
    BY <1>3, <1>7, <1>10, <2>1, AssignedResolves DEF Assigns
<1>12. Resolving(format, third, views, {} \cup {k1} \cup {k2} \cup {k3})
       /\ Prolongs(Entries(third.textures), Entries(second.textures))
  <2>1. k3 \notin {} \cup {k1} \cup {k2}
    BY <1>3
  <2> QED
    BY <1>3, <1>8, <1>11, <2>1, AssignedResolves DEF Assigns
<1>13. Resolving(format, loader, views, {} \cup {k1} \cup {k2} \cup {k3} \cup {k4})
       /\ Prolongs(Entries(loader.textures), Entries(third.textures))
  <2>1. k4 \notin {} \cup {k1} \cup {k2} \cup {k3}
    BY <1>3
  <2> QED
    BY <1>3, <1>9, <1>12, <2>1, AssignedResolves DEF Assigns
<1>14. PICK e0 \in Seq(TextureKeys), e1 \in Seq(TextureKeys), e2 \in Seq(TextureKeys),
            e3 \in Seq(TextureKeys), e4 \in Seq(TextureKeys) :
         /\ e0 = Entries(start.textures) /\ e1 = Entries(first.textures) /\ e2 = Entries(second.textures)
         /\ e3 = Entries(third.textures) /\ e4 = Entries(loader.textures)
  BY <1>5, <1>10, <1>11, <1>12, <1>13, EntriesOfLoader
<1>15. Prolongs(e4, e0)
  <2>1. Prolongs(e1, e0) /\ Prolongs(e2, e1) /\ Prolongs(e3, e2) /\ Prolongs(e4, e3)
    BY <1>10, <1>11, <1>12, <1>13, <1>14
  <2>2. Prolongs(e2, e0)
    BY <2>1, ProlongsTwice
  <2>3. Prolongs(e3, e0)
    BY <2>1, <2>2, ProlongsTwice
  <2> QED
    BY <2>1, <2>3, ProlongsTwice
<1>16. ASSUME NEW kind \in Kinds
       PROVE  Resolves(e4, f, views, loader.material, kind)
  <2>1. CASE kind \in {k1, k2, k3, k4}
    BY <1>1, <1>13, <1>14, <2>1 DEF Resolving
  <2>2. CASE kind \notin {k1, k2, k3, k4}
    <3>1. loader.material[kind] = -1
      BY <1>13, <2>2 DEF Resolving
    <3>2. ASSUME NEW n \in 1 .. 4 PROVE KindsOf(f)[n] \in {k1, k2, k3, k4}
      BY <1>2
    <3>3. kind \notin DOMAIN views
      BY <1>1, <2>2, <3>2 DEF Names
    <3> QED
      BY <3>1, <3>3 DEF Resolves, Provided
  <2> QED
    BY <2>1, <2>2
<1>17. Resolved(e4, f, views, loader.material)
  BY <1>16 DEF Resolved
<1>18. LoaderInv(format, loader.textures, loader.slotOf) /\ loader.material \in [Kinds -> Int]
  BY <1>13 DEF Resolving
<1> QED
  BY <1>1, <1>4, <1>14, <1>15, <1>17, <1>18

(***************************************************************************)
(* Uploading (uploadParsed()).                                             *)
(***************************************************************************)
\* Every texture there is holds an image or a stand-in and has a sampler.
LEMMA TexturesHold ==
  /\ \A key \in TextureKeys : Created(key) \in TextureData
  /\ DefaultTexture \in TextureData /\ EmptyTexture \in TextureData
  /\ DefaultTexture.holds = White /\ EmptyTexture.holds = Nothing
<1>1. ASSUME NEW key \in TextureKeys PROVE Created(key) \in TextureData
  <2>1. MipLevel(key.image) \in 0 .. 2
    BY DEF MipLevel
  <2>2. [image |-> key.image, srgb |-> key.srgb] \in Held
    BY DEF TextureKeys, Held
  <2>3. [mipLevel |-> MipLevel(key.image), desc |-> key.sampler] \in SamplerKeys
    BY <2>1 DEF TextureKeys, SamplerKeys
  <2> QED
    BY <2>2, <2>3 DEF Created, TextureData
<1>2. White \in Held /\ Nothing \in Held
  BY DEF Held
<1>3. [mipLevel |-> 1, desc |-> DefaultSampler] \in SamplerKeys /\ [mipLevel |-> 0, desc |-> DefaultSampler] \in SamplerKeys
  BY TextureSlotsAssumption DEF SamplerKeys
<1>4. DefaultTexture \in TextureData /\ EmptyTexture \in TextureData
  BY <1>2, <1>3 DEF DefaultTexture, EmptyTexture, TextureData
<1> QED
  BY <1>1, <1>4 DEF DefaultTexture, EmptyTexture

\* The textures of a loaded document: one for every entry, and at least one.
LEMMA UploadedTextures ==
  ASSUME NEW entries \in Seq(TextureKeys),
         NEW outcome \in [DOMAIN entries -> {"created", "default", "empty"}], NEW fallback,
         NEW uploaded, uploaded = ensureAtLeastOneTexture(Loaded(entries, outcome), fallback)
  PROVE  /\ uploaded \in Seq(TextureData) /\ Len(uploaded) # 0 /\ Len(entries) <= Len(uploaded)
         /\ \A i \in 1 .. Len(entries) :
              IF outcome[i] = "created" THEN uploaded[i] = Created(entries[i])
                                        ELSE uploaded[i].holds \in {White, Nothing}
<1> DEFINE made(n) == IF outcome[n] = "created" THEN Created(entries[n])
                      ELSE IF outcome[n] = "default" THEN DefaultTexture ELSE EmptyTexture
<1>1. PICK N \in Nat : N = Len(entries) /\ DOMAIN entries = 1 .. N
  OBVIOUS
<1>2. PICK texture : texture = [n \in 1 .. N |-> made(n)]
  OBVIOUS
<1>3. ASSUME NEW n \in 1 .. N
      PROVE  /\ texture[n] = made(n) /\ texture[n] \in TextureData
             /\ \A s \in Seq(TextureData) :
                  addTextureOrDefault(s, entries[n], outcome[n]) = Append(s, texture[n])
  <2>1. texture[n] = made(n)
    BY <1>2
  <2>2. entries[n] \in TextureKeys /\ outcome[n] \in {"created", "default", "empty"}
    BY <1>1
  <2>3. made(n) \in TextureData
    BY <2>2, TexturesHold
  <2>4. ASSUME NEW s \in Seq(TextureData)
        PROVE  addTextureOrDefault(s, entries[n], outcome[n]) = Append(s, made(n))
    BY <2>2 DEF addTextureOrDefault
  <2> HIDE DEF made
  <2> QED
    BY <2>1, <2>3, <2>4
<1>4. PICK loaded : loaded = Loaded(entries, outcome)
  OBVIOUS
<1>5. /\ loaded \in Seq(TextureData) /\ Len(loaded) = N
      /\ \A n \in 1 .. N : loaded[n] = texture[n]
  <2>1. Adds(TextureData, N, entries, outcome, texture)
    BY <1>1, <1>3 DEF Adds
  <2> QED
    <3>1. Lists(TextureData, N, loaded, texture)
      BY <1>4, <2>1, LoadedTextures
    <3> QED
      BY <3>1 DEF Lists
<1>6. ASSUME NEW i \in 1 .. N
      PROVE  IF outcome[i] = "created" THEN texture[i] = Created(entries[i])
                                       ELSE texture[i].holds \in {White, Nothing}
  BY <1>3, TexturesHold
<1> HIDE DEF made
<1>7. CASE loaded # <<>>
  <2>1. uploaded = loaded
    BY <1>4, <1>7 DEF ensureAtLeastOneTexture
  <2>2. Len(loaded) # 0
    BY <1>5, <1>7, EmptySeq
  <2>3. N <= N
    OBVIOUS
  <2> QED
    BY <1>1, <1>5, <1>6, <2>1, <2>2, <2>3
<1>8. CASE loaded = <<>>
  <2>1. N = 0 /\ 1 .. N = {}
    BY <1>5, <1>8
  <2>2. PICK only \in TextureData : uploaded = << only >>
    BY <1>4, <1>8, TexturesHold DEF ensureAtLeastOneTexture
  <2>3. << only >> \in Seq(TextureData) /\ Len(<< only >>) = 1
    OBVIOUS
  <2>4. uploaded \in Seq(TextureData) /\ Len(uploaded) # 0 /\ 0 <= Len(uploaded)
    BY <2>2, <2>3
  <2> QED
    BY <1>1, <2>1, <2>4
<1> QED
  BY <1>7, <1>8

\* Every material of a document is resolved against the entries of its list.
ResolvedDocument(f, list, slots, ids, views) ==
  /\ f \in {"obj", "gltf"} /\ LoaderInv(f, list, slots)
  /\ ids \in Seq([Kinds -> Int]) /\ views \in Seq(MaterialViews) /\ Len(ids) = Len(views)
  /\ \A k \in 1 .. Len(views) : Resolved(Entries(list), f, views[k], ids[k])

\* The model a document becomes.
ModelOf(f, entries, ids, views, outcome, fallback, meshes) ==
  LET uploaded == ensureAtLeastOneTexture(Loaded(entries, outcome), fallback)
      samplers == WithSamplers(uploaded)
  IN  [modelTextures        |-> [i \in DOMAIN uploaded |-> uploaded[i].holds],
       ownedSamplers        |-> samplers.owned,
       modelTextureSamplers |-> samplers.handles,
       meshes |-> meshes, materials |-> ids, authored |-> views, format |-> f,
       created |-> { entries[i] : i \in { j \in DOMAIN entries : outcome[j] = "created" } }]

\* In the model every entry has its texture, or a stand-in, in the place its
\* slot names.
LEMMA UploadedModel ==
  ASSUME NEW f, NEW list, NEW slots, NEW ids, NEW views, ResolvedDocument(f, list, slots, ids, views),
         NEW entries, entries = Entries(list),
         NEW outcome \in [DOMAIN entries -> {"created", "default", "empty"}], NEW fallback,
         NEW meshes \in 1 .. MaxMeshes,
         NEW model, model = ModelOf(f, entries, ids, views, outcome, fallback, meshes)
  PROVE  model \in LoadedModels /\ entries \in Seq(TextureKeys) /\ Uploaded(model, entries)
<1>1. PICK uploaded : uploaded = ensureAtLeastOneTexture(Loaded(entries, outcome), fallback)
  OBVIOUS
<1>2. PICK samplers : samplers = WithSamplers(uploaded)
  OBVIOUS
<1>3. model = [modelTextures        |-> [i \in DOMAIN uploaded |-> uploaded[i].holds],
               ownedSamplers        |-> samplers.owned,
               modelTextureSamplers |-> samplers.handles,
               meshes |-> meshes, materials |-> ids, authored |-> views, format |-> f,
               created |-> { entries[i] : i \in { j \in DOMAIN entries : outcome[j] = "created" } }]
  BY <1>1, <1>2 DEF ModelOf
<1>4. /\ f \in {"obj", "gltf"} /\ LoaderInv(f, list, slots)
      /\ ids \in Seq([Kinds -> Int]) /\ views \in Seq(MaterialViews) /\ Len(ids) = Len(views)
      /\ \A k \in 1 .. Len(views) : Resolved(entries, f, views[k], ids[k])
  BY DEF ResolvedDocument
<1>5. entries \in Seq(TextureKeys) /\ Numbered(entries, slots)
  <2>1. list \in Seq(TextureKeys \cup {Skipped}) /\ Skipped \in TextureKeys \cup {Skipped}
    BY <1>4 DEF LoaderInv
  <2> QED
    BY <1>4, <2>1, EntriesOneMore DEF LoaderInv
<1>6. PICK n \in Nat : n = Len(entries) /\ DOMAIN entries = 1 .. n
  BY <1>5
<1>7. /\ uploaded \in Seq(TextureData) /\ Len(uploaded) # 0 /\ n <= Len(uploaded)
      /\ \A i \in 1 .. n : IF outcome[i] = "created" THEN uploaded[i] = Created(entries[i])
                                                     ELSE uploaded[i].holds \in {White, Nothing}
  BY <1>1, <1>5, <1>6, UploadedTextures
<1>8. PICK N \in Nat : N = Len(uploaded) /\ DOMAIN uploaded = 1 .. N /\ N # 0 /\ n <= N
  BY <1>7
<1>9. \A i \in 1 .. N : uploaded[i].holds \in Held /\ uploaded[i].sampler \in SamplerKeys
  <2>1. \A i \in 1 .. N : uploaded[i] \in TextureData
    BY <1>7, <1>8
  <2> QED
    BY <2>1 DEF TextureData
<1>10. Shares(SamplerKeys, samplers, uploaded, N)
  BY <1>2, <1>8, <1>9, SamplersShared
<1>11. PICK owned \in Seq(SamplerKeys), handles \in Seq(Nat) : owned = samplers.owned /\ handles = samplers.handles
  BY <1>10 DEF Shares
<1>12. /\ Len(handles) = N
      /\ \A i \in 1 .. N : handles[i] \in 1 .. Len(owned) /\ owned[handles[i]] = uploaded[i].sampler
  BY <1>10, <1>11 DEF Shares
<1>13. PICK held \in Seq(Held) : held = [i \in DOMAIN uploaded |-> uploaded[i].holds] /\ Len(held) = N
  <2>1. PICK h : h = [i \in 1 .. N |-> uploaded[i].holds]
    OBVIOUS
  <2>2. \A i \in 1 .. N : uploaded[i].holds \in Held
    BY <1>9
  <2>3. h \in Seq(Held) /\ Len(h) = N
    BY <2>1, <2>2
  <2> QED
    BY <1>8, <2>1, <2>3
<1>14. \A i \in 1 .. N : held[i] = uploaded[i].holds
  BY <1>8, <1>13
<1>15. PICK created \in SUBSET TextureKeys :
         created = { entries[i] : i \in { j \in DOMAIN entries : outcome[j] = "created" } }
  <2>1. \A i \in { j \in DOMAIN entries : outcome[j] = "created" } : entries[i] \in TextureKeys
    BY <1>5, <1>6
  <2>2. { entries[i] : i \in { j \in DOMAIN entries : outcome[j] = "created" } } \in SUBSET TextureKeys
    BY <2>1
  <2> QED
    BY <2>2
<1>16. ASSUME NEW i \in 1 .. n, entries[i] \in created PROVE outcome[i] = "created"
  <2>1. PICK j \in 1 .. n : outcome[j] = "created" /\ entries[j] = entries[i]
    BY <1>6, <1>15, <1>16
  <2>2. slots[entries[i]] = i - 1 /\ slots[entries[j]] = j - 1
    BY <1>5, <1>6 DEF Numbered
  <2>3. i - 1 = j - 1 /\ i \in Int /\ j \in Int
    BY <2>1, <2>2
  <2> QED
    BY <2>1, <2>3
<1>17. ASSUME NEW i \in 1 .. n, outcome[i] = "created" PROVE entries[i] \in created
  BY <1>6, <1>15, <1>17
<1>18. model = [modelTextures |-> held, ownedSamplers |-> owned, modelTextureSamplers |-> handles,
                meshes |-> meshes, materials |-> ids, authored |-> views, format |-> f, created |-> created]
  BY <1>3, <1>11, <1>13, <1>15
<1>19. model \in LoadedModels
  <2>1. f \in {"obj", "gltf"} /\ created \in SUBSET TextureKeys
    BY <1>4, <1>15
  <2>2. PICK T1, T2, T3, T4, T5, T6 :
          /\ T1 = Seq(Held) /\ T2 = Seq(SamplerKeys) /\ T3 = Seq(Nat) /\ T4 = 1 .. MaxMeshes
          /\ T5 = Seq([Kinds -> Int]) /\ T6 = Seq(MaterialViews)
    OBVIOUS
  <2>3. held \in T1 /\ owned \in T2 /\ handles \in T3 /\ meshes \in T4 /\ ids \in T5 /\ views \in T6
    BY <1>4, <2>2
  <2>4. model \in [modelTextures : T1, ownedSamplers : T2, modelTextureSamplers : T3, meshes : T4,
                   materials : T5, authored : T6, format : {"obj", "gltf"}, created : SUBSET TextureKeys]
    BY <1>18, <2>1, <2>3
  <2> QED
    BY <2>2, <2>4 DEF LoadedModels
<1>20. ASSUME NEW i \in 1 .. n
       PROVE  IF entries[i] \in created
              THEN held[i] = Created(entries[i]).holds /\ owned[handles[i]] = Created(entries[i]).sampler
              ELSE held[i] \in {White, Nothing}
  <2>1. i \in 1 .. N
    BY <1>8
  <2>2. CASE outcome[i] = "created"
    BY <1>7, <1>12, <1>14, <1>17, <2>1, <2>2
  <2>3. CASE outcome[i] # "created"
    BY <1>7, <1>14, <1>16, <2>1, <2>3
  <2> QED
    BY <2>2, <2>3
<1>21. Uploaded(model, entries)
  <2>1. /\ model.modelTextures = held /\ model.ownedSamplers = owned /\ model.modelTextureSamplers = handles
        /\ model.materials = ids /\ model.authored = views /\ model.format = f /\ model.created = created
    BY <1>18
  <2> QED
    BY <1>6, <1>8, <1>12, <1>13, <1>20, <1>4, <2>1 DEF Uploaded
<1> QED
  BY <1>5, <1>19, <1>21

(***************************************************************************)
(* The invariant holds.                                                    *)
(***************************************************************************)
\* A loader that has read nothing.
LEMMA EmptyLoader ==
  /\ \A f : LoaderInv(f, <<>>, <<>>)
  /\ <<>> \in Seq(TextureKeys \cup {Skipped})
  /\ DOMAIN <<>> = {} /\ <<>> \in [DOMAIN <<>> -> Nat]
  /\ <<>> \in Seq([Kinds -> Int]) /\ <<>> \in Seq(MaterialViews) /\ Len(<<>>) = 0 /\ 1 .. 0 = {}
<1>1. DOMAIN <<>> = {} /\ Len(<<>>) = 0 /\ 1 .. 0 = {}
  OBVIOUS
<1>2. PICK none : none = <<>> /\ DOMAIN none = {} /\ Len(none) = 0 /\ none \in [DOMAIN none -> Nat]
  <2>1. PICK none \in Seq(Nat) : none = <<>>
    BY EmptySeq
  <2>2. none \in [1 .. Len(none) -> Nat] /\ DOMAIN none = 1 .. Len(none)
    BY LenProperties
  <2> QED
    BY <1>1, <2>1, <2>2
<1>3. IsFiniteSet({}) /\ Cardinality({}) = 0
  BY FS_EmptySet
<1>4. { none[i] : i \in 1 .. 0 } = {}
  BY <1>1
<1>5. Numbered(none, none)
  BY <1>1, <1>2, <1>3, <1>4 DEF Numbered
<1>6. none \in Seq(TextureKeys \cup {Skipped}) /\ none \in Seq([Kinds -> Int]) /\ none \in Seq(MaterialViews)
  BY <1>2
<1>7. Entries(none) = none
  BY <1>2, NoEntries
<1>8. ASSUME NEW f PROVE LoaderInv(f, none, none)
  BY <1>1, <1>2, <1>5, <1>6, <1>7 DEF LoaderInv
<1> QED
  BY <1>1, <1>2, <1>6, <1>8

\* A document that has no material yet is resolved.
LEMMA EmptyDocument ==
  ASSUME phase' \in {"idle", "parsing", "parsed"}, format' \in {"obj", "gltf"},
         textures' = <<>>, slotOf' = <<>>, materials' = <<>>, authored' = <<>>
  PROVE  DocumentInv' /\ (models' \in Seq(LoadedModels) => TypeOK')
<1>1. DocumentInv'
  <2>1. LoaderInv(format', textures', slotOf')
    BY EmptyLoader
  <2>2. Len(materials') = Len(authored') /\ 1 .. Len(authored') = {}
    BY EmptyLoader
  <2> QED
    BY <2>1, <2>2 DEF DocumentInv
<1>2. textures' \in Seq(TextureKeys \cup {Skipped}) /\ slotOf' \in [DOMAIN slotOf' -> Nat]
      /\ DOMAIN slotOf' \subseteq TextureKeys /\ materials' \in Seq([Kinds -> Int]) /\ authored' \in Seq(MaterialViews)
  BY EmptyLoader
<1> QED
  BY <1>1, <1>2 DEF TypeOK

\* It holds at the start.
LEMMA InitInv == Init => IInv
<1> SUFFICES ASSUME Init PROVE IInv
  OBVIOUS
<1>1. textures = <<>> /\ slotOf = <<>> /\ materials = <<>> /\ authored = <<>> /\ models = <<>>
      /\ phase = "idle" /\ format = "obj"
  BY DEF Init
<1>2. models \in Seq(LoadedModels) /\ Len(models) = 0
  BY <1>1
<1>3. TypeOK
  BY <1>1, <1>2, EmptyLoader DEF TypeOK
<1>4. DocumentInv
  <2>1. LoaderInv(format, textures, slotOf)
    BY <1>1, EmptyLoader
  <2>2. Len(materials) = Len(authored) /\ 1 .. Len(authored) = {}
    BY <1>1, EmptyLoader
  <2> QED
    BY <2>1, <2>2 DEF DocumentInv
<1>5. ModelsInv
  BY <1>2 DEF ModelsInv
<1> QED
  BY <1>3, <1>4, <1>5 DEF IInv

\* A step that leaves the models alone keeps what holds of them.
LEMMA SameModels ==
  ASSUME ModelsInv, models' = models
  PROVE  ModelsInv'
BY DEF ModelsInv

\* A new loader knows no texture.
LEMMA ParseCpuKeepsInv ==
  ASSUME IInv, NEW f \in {"obj", "gltf"}, parseCpu(f)
  PROVE  IInv'
<1>1. /\ phase' \in {"idle", "parsing", "parsed"} /\ format' \in {"obj", "gltf"}
      /\ textures' = <<>> /\ slotOf' = <<>> /\ materials' = <<>> /\ authored' = <<>> /\ models' = models
  BY DEF parseCpu
<1> QED
  BY <1>1, EmptyDocument, SameModels DEF IInv, TypeOK

\* A discarded loader is as a new one.
LEMMA ParseFailsKeepsInv ==
  ASSUME IInv, ParseFails
  PROVE  IInv'
<1>1. /\ phase' \in {"idle", "parsing", "parsed"} /\ format' \in {"obj", "gltf"}
      /\ textures' = <<>> /\ slotOf' = <<>> /\ materials' = <<>> /\ authored' = <<>> /\ models' = models
  BY DEF ParseFails, DiscardLoader
<1> QED
  BY <1>1, EmptyDocument, SameModels DEF IInv, TypeOK

\* A reload leaves the loader alone.
LEMMA RemoveModelsKeepsInv ==
  ASSUME IInv, RemoveModels
  PROVE  IInv'
<1>1. models' = <<>> /\ models' \in Seq(LoadedModels) /\ Len(models') = 0
  BY DEF RemoveModels
<1>2. /\ phase' = phase /\ format' = format /\ textures' = textures /\ slotOf' = slotOf
      /\ materials' = materials /\ authored' = authored
  BY DEF RemoveModels, loaderVars
<1> QED
  BY <1>1, <1>2 DEF IInv, TypeOK, DocumentInv, ModelsInv

\* One material more in a document.
LEMMA MaterialAppended ==
  ASSUME NEW f, NEW before \in Seq(TextureKeys), NEW entries \in Seq(TextureKeys), Prolongs(entries, before),
         NEW ids \in Seq([Kinds -> Int]), NEW views \in Seq(MaterialViews), Len(ids) = Len(views),
         \A k \in 1 .. Len(views) : Resolved(before, f, views[k], ids[k]),
         NEW material \in [Kinds -> Int], NEW view \in MaterialViews, Resolved(entries, f, view, material)
  PROVE  /\ Append(ids, material) \in Seq([Kinds -> Int]) /\ Append(views, view) \in Seq(MaterialViews)
         /\ Len(Append(ids, material)) = Len(Append(views, view))
         /\ \A k \in 1 .. Len(Append(views, view)) :
              Resolved(entries, f, Append(views, view)[k], Append(ids, material)[k])
<1>1. PICK n \in Nat : n = Len(ids) /\ n = Len(views)
  OBVIOUS
<1>2. PICK allIds \in Seq([Kinds -> Int]) : allIds = Append(ids, material)
  BY AppendProperties
<1>3. PICK allViews \in Seq(MaterialViews) : allViews = Append(views, view)
  BY AppendProperties
<1>4. /\ Len(allIds) = n + 1 /\ allIds[n + 1] = material
      /\ \A k \in 1 .. n : allIds[k] = ids[k]
  BY <1>1, <1>2, AppendProperties
<1>5. /\ Len(allViews) = n + 1 /\ allViews[n + 1] = view
      /\ \A k \in 1 .. n : allViews[k] = views[k]
  BY <1>1, <1>3, AppendProperties
<1>6. ASSUME NEW k \in 1 .. n + 1 PROVE Resolved(entries, f, allViews[k], allIds[k])
  <2>1. CASE k = n + 1
    BY <1>4, <1>5, <2>1
  <2>2. CASE k # n + 1
    <3>1. k \in 1 .. n
      BY <2>2
    <3>2. PICK v, i : v = views[k] /\ i = ids[k] /\ v = allViews[k] /\ i = allIds[k]
      BY <1>4, <1>5, <3>1
    <3>3. Resolved(before, f, v, i)
      BY <1>1, <3>1, <3>2
    <3>4. Resolved(entries, f, v, i)
      BY <3>3, ResolvesStays DEF Resolved
    <3> QED
      BY <3>2, <3>4
  <2> QED
    BY <2>1, <2>2
<1> QED
  BY <1>2, <1>3, <1>4, <1>5, <1>6

\* A material is resolved against the entries there are then.
LEMMA ParseMaterialKeepsInv ==
  ASSUME IInv, ParseMaterial
  PROVE  IInv'
<1>1. PICK kinds \in SUBSET ToSet(KindsOf(format)) :
        \E views \in [kinds -> View(format)] :
            LET loader == WithMaterial(views)
            IN  /\ textures' = loader.textures
                /\ slotOf' = loader.slotOf
                /\ materials' = Append(materials, loader.material)
                /\ authored' = Append(authored, views)
  BY DEF ParseMaterial
<1>2. PICK views \in [kinds -> View(format)] :
        /\ textures' = WithMaterial(views).textures
        /\ slotOf' = WithMaterial(views).slotOf
        /\ materials' = Append(materials, WithMaterial(views).material)
        /\ authored' = Append(authored, views)
  BY <1>1
<1>3. PICK loader : loader = WithMaterial(views)
  OBVIOUS
<1>4. format \in {"obj", "gltf"} /\ LoaderInv(format, textures, slotOf) /\ phase' = phase /\ format' = format /\ models' = models
  BY DEF IInv, TypeOK, DocumentInv, ParseMaterial
<1>5. Names(format, views)
  <2>1. ASSUME NEW kind \in DOMAIN views PROVE kind \in Kinds /\ \E n \in 1 .. 4 : kind = KindsOf(format)[n]
    <3>1. kind \in { KindsOf(format)[n] : n \in DOMAIN KindsOf(format) }
      BY <2>1 DEF ToSet
    <3>2. DOMAIN KindsOf(format) = 1 .. 4
      BY <1>4 DEF KindsOf
    <3>3. \A n \in 1 .. 4 : KindsOf(format)[n] \in Kinds
      BY <1>4 DEF KindsOf, Kinds
    <3> QED
      BY <3>1, <3>2, <3>3
  <2> QED
    BY <2>1 DEF Names
<1>6. views \in MaterialViews
  <2>1. kinds \subseteq Kinds
    BY <1>5 DEF Names
  <2>2. View(format) \subseteq [image : Images, sampler : Samplers]
    BY <1>4, TextureSlotsAssumption DEF View
  <2>3. views \in [kinds -> [image : Images, sampler : Samplers]]
    BY <2>2
  <2> QED
    BY <2>1, <2>3 DEF MaterialViews
<1>7. /\ LoaderInv(format, loader.textures, loader.slotOf)
      /\ loader.material \in [Kinds -> Int]
      /\ Resolved(Entries(loader.textures), format, views, loader.material)
      /\ Prolongs(Entries(loader.textures), Entries(textures))
  BY <1>3, <1>4, <1>5, MaterialResolves
<1>8. PICK f : f = format
  OBVIOUS
<1>9. PICK before \in Seq(TextureKeys) : before = Entries(textures)
  <2>1. textures \in Seq(TextureKeys \cup {Skipped}) /\ Skipped \in TextureKeys \cup {Skipped}
    BY DEF IInv, TypeOK
  <2> QED
    BY <2>1, EntriesOneMore
<1>10. PICK entries \in Seq(TextureKeys) : entries = Entries(loader.textures)
  <2>1. loader.textures \in Seq(TextureKeys \cup {Skipped}) /\ Skipped \in TextureKeys \cup {Skipped}
    BY <1>7 DEF LoaderInv
  <2> QED
    BY <2>1, EntriesOneMore
<1>11. PICK ids \in Seq([Kinds -> Int]) : ids = materials
  BY DEF IInv, TypeOK
<1>12. PICK views0 \in Seq(MaterialViews) : views0 = authored
  BY DEF IInv, TypeOK
<1>13. Len(ids) = Len(views0) /\ \A k \in 1 .. Len(views0) : Resolved(before, f, views0[k], ids[k])
  BY <1>8, <1>9, <1>11, <1>12 DEF IInv, DocumentInv
<1>14. PICK material \in [Kinds -> Int] : material = loader.material
  BY <1>7
<1>15. Prolongs(entries, before) /\ Resolved(entries, f, views, material)
  BY <1>7, <1>8, <1>9, <1>10, <1>14
<1>16. /\ Append(ids, material) \in Seq([Kinds -> Int]) /\ Append(views0, views) \in Seq(MaterialViews)
       /\ Len(Append(ids, material)) = Len(Append(views0, views))
       /\ \A k \in 1 .. Len(Append(views0, views)) :
            Resolved(entries, f, Append(views0, views)[k], Append(ids, material)[k])
  BY <1>6, <1>13, <1>15, MaterialAppended
<1>17. PICK allIds, allViews, list, slots :
         /\ allIds = Append(ids, material) /\ allViews = Append(views0, views)
         /\ list = loader.textures /\ slots = loader.slotOf
  OBVIOUS
<1>18. textures' = list /\ slotOf' = slots /\ materials' = allIds /\ authored' = allViews /\ format' = f
  BY <1>2, <1>3, <1>4, <1>8, <1>11, <1>12, <1>14, <1>17
<1>19. LoaderInv(f, list, slots) /\ Entries(list) = entries
  BY <1>7, <1>8, <1>10, <1>17
<1>20. DocumentInv'
  BY <1>16, <1>17, <1>18, <1>19 DEF DocumentInv
<1>21. TypeOK'
  <2>1. list \in Seq(TextureKeys \cup {Skipped})
    BY <1>19 DEF LoaderInv
  <2>2. slots \in [DOMAIN slots -> Nat] /\ DOMAIN slots \subseteq TextureKeys
    <3>1. Numbered(entries, slots)
      BY <1>19 DEF LoaderInv
    <3>2. \A i \in 1 .. Len(entries) : entries[i] \in TextureKeys
      OBVIOUS
    <3> QED
      BY <3>1, <3>2 DEF Numbered
  <2>3. allIds \in Seq([Kinds -> Int]) /\ allViews \in Seq(MaterialViews)
    BY <1>16, <1>17
  <2>4. phase' \in {"idle", "parsing", "parsed"} /\ f \in {"obj", "gltf"} /\ models' \in Seq(LoadedModels)
    BY <1>4, <1>8 DEF IInv, TypeOK
  <2> QED
    BY <1>18, <2>1, <2>2, <2>3, <2>4 DEF TypeOK
<1>22. ModelsInv'
  BY <1>4, SameModels DEF IInv
<1> QED
  BY <1>20, <1>21, <1>22 DEF IInv

\* The material added to every document names no texture.
LEMMA ParsedMaterialsKeepsInv ==
  ASSUME IInv, ParsedMaterials
  PROVE  IInv'
<1>1. PICK f \in {"obj", "gltf"}, entries \in Seq(TextureKeys) :
        f = format /\ entries = Entries(textures)
  <2>1. textures \in Seq(TextureKeys \cup {Skipped}) /\ Skipped \in TextureKeys \cup {Skipped}
    BY DEF IInv, TypeOK
  <2> QED
    BY <2>1, EntriesOneMore DEF IInv, TypeOK
<1>2. PICK ids \in Seq([Kinds -> Int]), views \in Seq(MaterialViews) : ids = materials /\ views = authored
  BY DEF IInv, TypeOK
<1>3. Len(ids) = Len(views) /\ \A k \in 1 .. Len(views) : Resolved(entries, f, views[k], ids[k])
  BY <1>1, <1>2 DEF IInv, DocumentInv
<1>4. /\ phase' = "parsed" /\ format' = f /\ textures' = textures /\ slotOf' = slotOf /\ models' = models
      /\ \/ materials' = Append(ids, Untextured) /\ authored' = Append(views, <<>>)
         \/ materials' = ids /\ authored' = views
  <2>1. (f = "gltf" \/ ids = <<>>) => materials' = Append(ids, Untextured) /\ authored' = Append(views, <<>>)
    BY <1>1, <1>2 DEF ParsedMaterials
  <2>2. ~(f = "gltf" \/ ids = <<>>) => materials' = ids /\ authored' = views
    BY <1>1, <1>2 DEF ParsedMaterials
  <2> QED
    BY <1>1, <2>1, <2>2 DEF ParsedMaterials
<1>5. PICK none \in MaterialViews : none = <<>> /\ DOMAIN none = {}
  <2>1. PICK none : none = <<>> /\ none \in [DOMAIN none -> Nat] /\ DOMAIN none = {}
    BY EmptyLoader
  <2>2. none \in [{} -> [image : Images, sampler : Samplers]]
    BY <2>1
  <2>3. {} \in SUBSET Kinds
    OBVIOUS
  <2> QED
    BY <2>1, <2>2, <2>3 DEF MaterialViews
<1>6. Untextured \in [Kinds -> Int] /\ Resolved(entries, f, none, Untextured)
  BY <1>5 DEF Untextured, Resolved, Resolves, Provided
<1>7. Prolongs(entries, entries)
  <2>1. Len(entries) \in Nat
    OBVIOUS
  <2> QED
    BY <2>1 DEF Prolongs
<1>8. /\ Append(ids, Untextured) \in Seq([Kinds -> Int]) /\ Append(views, none) \in Seq(MaterialViews)
      /\ Len(Append(ids, Untextured)) = Len(Append(views, none))
      /\ \A k \in 1 .. Len(Append(views, none)) :
           Resolved(entries, f, Append(views, none)[k], Append(ids, Untextured)[k])
  BY <1>3, <1>6, <1>7, MaterialAppended
<1>9. PICK allIds, allViews :
        /\ materials' = allIds /\ authored' = allViews
        /\ allIds \in Seq([Kinds -> Int]) /\ allViews \in Seq(MaterialViews)
        /\ Len(allIds) = Len(allViews)
        /\ \A k \in 1 .. Len(allViews) : Resolved(entries, f, allViews[k], allIds[k])
  <2>1. CASE materials' = Append(ids, Untextured) /\ authored' = Append(views, <<>>)
    BY <1>5, <1>8, <2>1
  <2>2. CASE materials' = ids /\ authored' = views
    BY <1>3, <2>2
  <2> QED
    BY <1>4, <2>1, <2>2
<1>10. DocumentInv'
  <2>1. PICK list, slots : list = textures /\ slots = slotOf
    OBVIOUS
  <2>2. textures' = list /\ slotOf' = slots /\ Entries(list) = entries /\ LoaderInv(f, list, slots)
    BY <1>1, <1>4, <2>1 DEF IInv, DocumentInv
  <2> QED
    BY <1>4, <1>9, <2>2 DEF DocumentInv
<1>11. TypeOK'
  BY <1>4, <1>9 DEF IInv, TypeOK
<1>12. ModelsInv'
  BY <1>4, SameModels DEF IInv
<1> QED
  BY <1>10, <1>11, <1>12 DEF IInv

\* The models before stay, the new one has its textures in their places.
LEMMA UploadKeepsInv ==
  ASSUME IInv, uploadParsed
  PROVE  IInv'
<1>1. PICK f \in {"obj", "gltf"} : f = format
  BY DEF IInv, TypeOK
<1>2. PICK list, slots, entries : list = textures /\ slots = slotOf /\ entries = Entries(list)
  OBVIOUS
<1>3. PICK ids \in Seq([Kinds -> Int]) : ids = materials
  BY DEF IInv, TypeOK
<1>4. PICK views \in Seq(MaterialViews) : views = authored
  BY DEF IInv, TypeOK
<1>5. ResolvedDocument(f, list, slots, ids, views)
  BY <1>1, <1>2, <1>3, <1>4 DEF IInv, DocumentInv, ResolvedDocument
<1>6. \E outcome \in [DOMAIN Entries(textures) -> {"created", "default", "empty"}],
         fallback \in {"default", "empty"}, meshes \in 1 .. MaxMeshes :
        models' = Append(models, ModelOf(format, Entries(textures), materials, authored, outcome, fallback, meshes))
  BY DEF uploadParsed, ModelOf
<1>7. PICK outcome \in [DOMAIN entries -> {"created", "default", "empty"}],
           fallback \in {"default", "empty"}, meshes \in 1 .. MaxMeshes :
        models' = Append(models, ModelOf(f, entries, ids, views, outcome, fallback, meshes))
  BY <1>1, <1>2, <1>3, <1>4, <1>6
<1>8. PICK model : model = ModelOf(f, entries, ids, views, outcome, fallback, meshes)
  OBVIOUS
<1>9. models' = Append(models, model)
  BY <1>7, <1>8
<1>10. model \in LoadedModels /\ entries \in Seq(TextureKeys) /\ Uploaded(model, entries)
  BY <1>2, <1>5, <1>8, UploadedModel
<1>11. PICK old \in Seq(LoadedModels) : old = models
  BY DEF IInv, TypeOK
<1>12. PICK all \in Seq(LoadedModels) : all = Append(old, model)
  BY <1>10, AppendProperties
<1>13. PICK n \in Nat : n = Len(old)
  OBVIOUS
<1>14. /\ Len(all) = n + 1 /\ all[n + 1] = model
       /\ \A m \in 1 .. n : all[m] = old[m]
  BY <1>10, <1>12, <1>13, AppendProperties
<1>15. ASSUME NEW m \in 1 .. n + 1 PROVE \E e \in Seq(TextureKeys) : Uploaded(all[m], e)
  <2>1. CASE m = n + 1
    BY <1>10, <1>14, <2>1
  <2>2. CASE m # n + 1
    <3>1. m \in 1 .. n
      BY <2>2
    <3> QED
      BY <1>11, <1>13, <1>14, <3>1 DEF IInv, ModelsInv
  <2> QED
    BY <2>1, <2>2
<1>16. models' = all
  BY <1>9, <1>11, <1>12
<1>17. ModelsInv'
  BY <1>14, <1>15, <1>16 DEF ModelsInv
<1>18. /\ phase' \in {"idle", "parsing", "parsed"} /\ format' \in {"obj", "gltf"}
       /\ textures' = <<>> /\ slotOf' = <<>> /\ materials' = <<>> /\ authored' = <<>>
  BY DEF uploadParsed, DiscardLoader
<1> QED
  BY <1>16, <1>17, <1>18, EmptyDocument DEF IInv

\* Every step keeps the invariant.
LEMMA NextKeepsInv == IInv /\ [Next]_vars => IInv'
<1> SUFFICES ASSUME IInv, [Next]_vars PROVE IInv'
  OBVIOUS
<1>1. CASE Next
  BY <1>1, ParseCpuKeepsInv, ParseMaterialKeepsInv, ParsedMaterialsKeepsInv, UploadKeepsInv,
     ParseFailsKeepsInv, RemoveModelsKeepsInv DEF Next
<1>2. CASE UNCHANGED vars
  BY <1>2 DEF IInv, TypeOK, DocumentInv, ModelsInv, vars, loaderVars
<1> QED
  BY <1>1, <1>2

\* The invariant holds in every reachable state.
LEMMA SpecInv == Spec => []IInv
BY InitInv, NextKeepsInv, PTL DEF Spec

\* The slots of a loader, the ids of its materials and the textures, samplers
\* and ids of every model have the types the code gives them.
THEOREM TypesAlwaysHold == Spec => []TypeOK
<1>1. IInv => TypeOK
  BY DEF IInv
<1> QED
  BY <1>1, SpecInv, PTL

(***************************************************************************)
(* What a shader samples.                                                  *)
(***************************************************************************)
\* Every model has a texture, and its meshes and textures are counted.
LEMMA CountsOfModels ==
  ASSUME TypeOK, ModelsInv
  PROVE  /\ Len(models) \in Nat /\ DOMAIN models = 1 .. Len(models)
         /\ textureCountPerModel \in [1 .. Len(models) -> Nat \ {0}]
         /\ meshCountPerModel \in [1 .. Len(models) -> Nat]
         /\ \A m \in 1 .. Len(models) :
              /\ models[m] \in LoadedModels
              /\ textureCountPerModel[m] = Len(models[m].modelTextures)
              /\ DOMAIN models[m].modelTextures = 1 .. textureCountPerModel[m]
              /\ meshCountPerModel[m] = models[m].meshes
<1>1. PICK loaded \in Seq(LoadedModels) : loaded = models
  BY DEF TypeOK
<1>2. PICK N \in Nat : N = Len(loaded) /\ DOMAIN loaded = 1 .. N
  OBVIOUS
<1>3. ASSUME NEW m \in 1 .. N
      PROVE  /\ loaded[m] \in LoadedModels /\ loaded[m].meshes \in Nat
             /\ Len(loaded[m].modelTextures) \in Nat \ {0}
             /\ DOMAIN loaded[m].modelTextures = 1 .. Len(loaded[m].modelTextures)
  <2>1. loaded[m] \in LoadedModels
    BY <1>2
  <2>2. PICK held \in Seq(Held) : held = loaded[m].modelTextures
    BY <2>1 DEF LoadedModels
  <2>3. loaded[m].meshes \in Nat
    <3>1. loaded[m].meshes \in 1 .. MaxMeshes
      BY <2>1 DEF LoadedModels
    <3> QED
      BY <3>1, TextureSlotsAssumption
  <2>4. Len(held) # 0
    BY <1>1, <1>2, <2>2 DEF ModelsInv, Uploaded
  <2> QED
    BY <2>1, <2>2, <2>3, <2>4
<1>4. /\ textureCountPerModel = [m \in 1 .. N |-> Len(loaded[m].modelTextures)]
      /\ meshCountPerModel = [m \in 1 .. N |-> loaded[m].meshes]
  BY <1>1, <1>2 DEF textureCountPerModel, meshCountPerModel
<1> QED
  BY <1>1, <1>2, <1>3, <1>4

\* As soon as a model is loaded, every slot of the array the shaders index is
\* written with a texture of a loaded model (planFlattenedTextureSlots()).
THEOREM SlotsAlwaysBound == Spec => []EverySlotIsBound
<1>1. ASSUME IInv PROVE EverySlotIsBound
  <2> SUFFICES ASSUME models # <<>>
               PROVE  /\ Len(DescriptorArray) = MAX_TEXTURE_COUNT
                      /\ \A s \in DOMAIN DescriptorArray :
                           /\ DescriptorArray[s].model \in DOMAIN models
                           /\ DescriptorArray[s].indexInModel \in DOMAIN models[DescriptorArray[s].model].modelTextures
    BY DEF EverySlotIsBound
  <2>1. TypeOK /\ ModelsInv
    BY <1>1 DEF IInv
  <2>2. PICK N \in Nat \ {0} : N = Len(models) /\ DOMAIN models = 1 .. N
    <3>1. PICK loaded \in Seq(LoadedModels) : loaded = models
      BY <2>1 DEF TypeOK
    <3> QED
      BY <3>1, EmptySeq
  <2>3. PICK counts \in [1 .. N -> Nat \ {0}] : counts = textureCountPerModel
    BY <2>1, <2>2, CountsOfModels
  <2>4. PICK slots \in [1 .. MAX_TEXTURE_COUNT -> TexturesOf(N, counts)] : slots = DescriptorArray
    BY <2>3, PlannedSlots DEF DescriptorArray
  <2>5. DOMAIN slots = 1 .. MAX_TEXTURE_COUNT /\ Len(slots) = MAX_TEXTURE_COUNT
    BY TextureSlotsAssumption
  <2>6. ASSUME NEW s \in 1 .. MAX_TEXTURE_COUNT
        PROVE  slots[s].model \in DOMAIN models /\ slots[s].indexInModel \in DOMAIN models[slots[s].model].modelTextures
    <3>1. PICK m \in 1 .. N, t \in Nat : m = slots[s].model /\ t = slots[s].indexInModel /\ t \in 1 .. counts[m]
      BY DEF TexturesOf
    <3>2. DOMAIN models[m].modelTextures = 1 .. counts[m]
      BY <2>1, <2>2, <2>3, CountsOfModels
    <3> QED
      BY <2>2, <3>1, <3>2
  <2> QED
    BY <2>4, <2>5, <2>6
<1> QED
  BY <1>1, SpecInv, PTL

\* The offset of the description of a mesh is the sum of the textures of the
\* models before.
LEMMA OffsetOfMesh ==
  ASSUME NEW N \in Nat, NEW meshCounts \in [1 .. N -> Nat], NEW textureCounts \in [1 .. N -> Nat],
         NEW m \in 1 .. N, NEW mesh \in 1 .. meshCounts[m]
  PROVE  assignTextureOffsets(meshCounts, textureCounts)[meshBaseOffsets(meshCounts)[m] + mesh]
           = Sums(textureCounts)[m - 1]
<1> DEFINE list(n) == [k \in 1 .. meshCounts[n] |-> Sums(textureCounts)[n - 1]]
<1>1. PICK lists : lists = [n \in 1 .. N |-> list(n)]
  OBVIOUS
<1>2. assignTextureOffsets(meshCounts, textureCounts) = Joined(lists)
  <2>1. DOMAIN meshCounts = 1 .. N
    OBVIOUS
  <2> QED
    BY <1>1, <2>1 DEF assignTextureOffsets
<1>3. PICK sums \in [0 .. N -> Nat] : sums = Sums(textureCounts)
  BY SumsLoop
<1>4. ASSUME NEW n \in 1 .. N
      PROVE  list(n) \in Seq(Nat) /\ Len(list(n)) = meshCounts[n]
  <2>1. meshCounts[n] \in Nat /\ n - 1 \in 0 .. N
    OBVIOUS
  <2>2. PICK sum \in Nat : sum = Sums(textureCounts)[n - 1]
    BY <1>3, <2>1
  <2> QED
    BY <2>1, <2>2
<1>5. lists \in [1 .. N -> Seq(Nat)] /\ \A n \in 1 .. N : lists[n] = list(n)
  BY <1>1, <1>4
<1>6. \A n \in 1 .. N : Len(lists[n]) = meshCounts[n]
  BY <1>4, <1>5
<1>7. JoinedUpTo(Joined(lists), lists, meshCounts, N)
  BY <1>5, <1>6, JoinedLoop
<1>8. lists[m][mesh] = Sums(textureCounts)[m - 1]
  BY <1>5
<1> HIDE DEF list
<1>9. Joined(lists)[Sums(meshCounts)[m - 1] + mesh] = lists[m][mesh]
  BY <1>7 DEF JoinedUpTo
<1>10. meshBaseOffsets(meshCounts)[m] = Sums(meshCounts)[m - 1]
  BY DEF meshBaseOffsets
<1> QED
  BY <1>2, <1>8, <1>9, <1>10

\* A model that fits samples its own textures: offset and id lead to the slot
\* of that texture.
LEMMA SampledTexture ==
  ASSUME TypeOK, ModelsInv, NEW m \in 1 .. Len(models), Fits(m), NEW mesh \in 1 .. models[m].meshes,
         NEW i \in 1 .. Len(models[m].modelTextures)
  PROVE  Sampled(m, mesh, i - 1)
           = [holds   |-> models[m].modelTextures[i],
              sampler |-> models[m].ownedSamplers[models[m].modelTextureSamplers[i]]]
<1>1. PICK N \in Nat : N = Len(models)
  BY CountsOfModels
<1>2. PICK counts \in [1 .. N -> Nat \ {0}] : counts = textureCountPerModel /\ counts[m] = Len(models[m].modelTextures)
  BY <1>1, CountsOfModels
<1>3. PICK meshCounts \in [1 .. N -> Nat] : meshCounts = meshCountPerModel /\ meshCounts[m] = models[m].meshes
  BY <1>1, CountsOfModels
<1>4. counts \in [1 .. N -> Nat] /\ N \in Nat \ {0} /\ m \in 1 .. N /\ i \in 1 .. counts[m] /\ mesh \in 1 .. meshCounts[m]
  BY <1>1, <1>2, <1>3
<1>5. PICK sums \in [0 .. N -> Nat] : sums = Sums(counts) /\ \A n \in 1 .. N : sums[n] = sums[n - 1] + counts[n]
  BY <1>4, SumsLoop
<1>6. PICK a \in Nat, b \in Nat, c \in Nat \ {0} : a = sums[m - 1] /\ b = sums[m] /\ c = counts[m] /\ b = a + c
  <2>1. m - 1 \in 0 .. N /\ m \in 0 .. N
    BY <1>4
  <2> QED
    BY <1>4, <1>5, <2>1
<1>7. b <= MAX_TEXTURE_COUNT /\ MAX_TEXTURE_COUNT \in Nat \ {0}
  BY <1>2, <1>5, <1>6, TextureSlotsAssumption DEF Fits
<1>8. i \in 1 .. c
  BY <1>4, <1>6
<1>9. /\ a + i \in 1 .. MAX_TEXTURE_COUNT /\ a + (i - 1) >= 0 /\ ~(a + (i - 1) < 0)
      /\ ~(a + (i - 1) >= MAX_TEXTURE_COUNT) /\ (a + (i - 1)) + 1 = a + i
  <2>1. \A p \in Nat, q \in Nat \ {0}, x \in Nat : p + q <= x =>
          \A j \in 1 .. q : /\ p + j \in 1 .. x /\ p + (j - 1) >= 0 /\ ~(p + (j - 1) < 0)
                            /\ ~(p + (j - 1) >= x) /\ (p + (j - 1)) + 1 = p + j
    OBVIOUS
  <2>2. a + c <= MAX_TEXTURE_COUNT
    BY <1>6, <1>7
  <2> QED
    BY <1>7, <1>8, <2>1, <2>2
<1>10. assignTextureOffsets(meshCounts, counts)[meshBaseOffsets(meshCounts)[m] + mesh] = a
  <2>1. \A n \in 1 .. N : \A k \in 1 .. meshCounts[n] :
          assignTextureOffsets(meshCounts, counts)[meshBaseOffsets(meshCounts)[n] + k] = Sums(counts)[n - 1]
    <3>1. PICK textureCounts \in [1 .. N -> Nat] : textureCounts = counts
      BY <1>4
    <3> QED
      BY <3>1, OffsetOfMesh
  <2> QED
    BY <1>4, <1>5, <1>6, <2>1
<1>11. resolve_texture_slot(a, i - 1) = a + (i - 1)
  BY <1>9 DEF resolve_texture_slot
<1>12. Sampled(m, mesh, i - 1) = Slot(a + (i - 1))
  BY <1>2, <1>3, <1>10, <1>11 DEF Sampled
<1>13. /\ a + i \in 1 .. Len(Requested(counts))
       /\ Requested(counts)[a + i] = [model |-> m, indexInModel |-> i]
  <2>1. /\ Sums(counts)[m - 1] + i \in 1 .. Len(Requested(counts))
        /\ Requested(counts)[Sums(counts)[m - 1] + i] = [model |-> m, indexInModel |-> i]
    <3>1. PICK textureCounts \in [1 .. N -> Nat] : textureCounts = counts
      BY <1>4
    <3>2. \A n \in 1 .. N : \A t \in 1 .. textureCounts[n] :
            /\ Sums(textureCounts)[n - 1] + t \in 1 .. Len(Requested(textureCounts))
            /\ Requested(textureCounts)[Sums(textureCounts)[n - 1] + t] = [model |-> n, indexInModel |-> t]
      BY RequestedTextures
    <3> QED
      BY <1>4, <3>1, <3>2
  <2> QED
    BY <1>4, <1>5, <1>6, <2>1
<1>14. planFlattenedTextureSlots(counts)[a + i] = [model |-> m, indexInModel |-> i]
  <2>1. a + i <= Len(Requested(counts))
    BY <1>13
  <2> QED
    BY <1>4, <1>9, <1>13, <2>1, PlannedSlots
<1>15. DescriptorArray[(a + (i - 1)) + 1] = [model |-> m, indexInModel |-> i]
  BY <1>2, <1>9, <1>14 DEF DescriptorArray
<1> QED
  BY <1>12, <1>15 DEF Slot

\* Every material of every mesh of a model that fits samples the image it was
\* authored with, in its colour space and with its sampler, or the stand-in
\* of a texture that failed to load; a kind without a texture has no id.
THEOREM MaterialsAlwaysSampleTheirTextures == Spec => []MaterialsSampleTheirTextures
<1>1. ASSUME IInv PROVE MaterialsSampleTheirTextures
  <2>1. TypeOK /\ ModelsInv
    BY <1>1 DEF IInv
  <2>2. DOMAIN models = 1 .. Len(models) /\ \A m \in 1 .. Len(models) : models[m] \in LoadedModels
    BY <2>1, CountsOfModels
  <2> SUFFICES ASSUME NEW m \in 1 .. Len(models), Fits(m), NEW mesh \in 1 .. models[m].meshes,
                      NEW k \in DOMAIN models[m].authored, NEW kind \in Kinds
               PROVE  LET id  == models[m].materials[k][kind]
                          key == Key(models[m].authored[k][kind], kind)
                      IN  IF ~Asks(m, k, kind) THEN id = -1
                          ELSE /\ id >= 0
                               /\ IF key \in models[m].created
                                  THEN Sampled(m, mesh, id) = Created(key)
                                  ELSE Sampled(m, mesh, id).holds \in {White, Nothing}
    BY <2>2 DEF MaterialsSampleTheirTextures
  <2>3. PICK model \in LoadedModels : model = models[m]
    BY <2>2
  <2>4. PICK entries \in Seq(TextureKeys) : Uploaded(model, entries)
    BY <2>1, <2>3 DEF ModelsInv
  <2>5. PICK id, key : id = model.materials[k][kind] /\ key = Key(model.authored[k][kind], kind)
    OBVIOUS
  <2>6. k \in 1 .. Len(model.authored)
    <3>1. PICK views \in Seq(MaterialViews) : views = model.authored
      BY DEF LoadedModels
    <3> QED
      BY <2>3, <3>1
  <2>7. Resolves(entries, model.format, model.authored[k], model.materials[k], kind)
    BY <2>4, <2>6 DEF Uploaded, Resolved
  <2>8. Asks(m, k, kind) <=> Provided(model.format, model.authored[k], kind)
    BY <2>3 DEF Asks, Provided
  <2>9. CASE ~Asks(m, k, kind)
    <3>1. id = -1
      BY <2>5, <2>7, <2>8, <2>9 DEF Resolves
    <3> QED
      BY <2>3, <2>5, <2>9, <3>1
  <2>10. CASE Asks(m, k, kind)
    <3>1. PICK i \in 1 .. Len(entries) : id = i - 1 /\ entries[i] = key
      BY <2>5, <2>7, <2>8, <2>10 DEF Resolves
    <3>2. id >= 0
      BY <3>1
    <3>3. i \in 1 .. Len(model.modelTextures)
      <4>1. PICK held \in Seq(Held) : held = model.modelTextures
        BY DEF LoadedModels
      <4>2. Len(entries) <= Len(held) /\ Len(entries) \in Nat /\ Len(held) \in Nat
        BY <2>4, <4>1 DEF Uploaded
      <4> QED
        BY <4>1, <4>2
    <3>4. Sampled(m, mesh, id)
            = [holds |-> model.modelTextures[i], sampler |-> model.ownedSamplers[model.modelTextureSamplers[i]]]
      BY <2>1, <2>3, <3>1, <3>3, SampledTexture
    <3>5. IF key \in model.created
          THEN /\ model.modelTextures[i] = Created(key).holds
               /\ model.ownedSamplers[model.modelTextureSamplers[i]] = Created(key).sampler
          ELSE model.modelTextures[i] \in {White, Nothing}
      BY <2>4, <3>1 DEF Uploaded
    <3>6. Created(key) = [holds |-> Created(key).holds, sampler |-> Created(key).sampler]
      BY DEF Created
    <3>7. CASE key \in model.created
      <4>1. Sampled(m, mesh, id) = Created(key)
        BY <3>4, <3>5, <3>6, <3>7
      <4> QED
        BY <2>3, <2>5, <2>10, <3>2, <3>7, <4>1
    <3>8. CASE key \notin model.created
      <4>1. Sampled(m, mesh, id).holds \in {White, Nothing}
        BY <3>4, <3>5, <3>8
      <4> QED
        BY <2>3, <2>5, <2>10, <3>2, <3>8, <4>1
    <3> QED
      BY <3>7, <3>8
  <2> QED
    BY <2>9, <2>10
<1> QED
  BY <1>1, SpecInv, PTL
=============================================================================

-------------------------- MODULE SceneLoop_proofs --------------------------
(***************************************************************************)
(* Safety of what the frame loop does about the scene, for any files,      *)
(* matrices, views and number of loads.                                    *)
(***************************************************************************)
EXTENDS SceneLoop, SequenceTheorems, WellFoundedInduction, TLAPS

-----------------------------------------------------------------------------
(***************************************************************************)
(* The asynchronous parse (AsyncModelParse), for any files of either       *)
(* format.  The frame loop runs it by these same actions.                  *)
(***************************************************************************)

LEMMA ParseInitIInv == ParseInit => ParseIInv
BY ParseAssumption
   DEF ParseInit, ParseIInv, ParseTypeOK, Loader, LoaderInv, OutcomeInv, Unannounced

\* start() joins an earlier parse and leaves exactly one loader, incomplete.
LEMMA StartIInv ==
  ASSUME ParseIInv, NEW file \in Files, Start(file)
  PROVE  ParseIInv'
BY ParseAssumption
   DEF Start, Joined, ParseIInv, ParseTypeOK, Loader, LoaderInv, OwnLoader, OutcomeInv, Unannounced

\* What a take finds: only the loader of the format that was parsed can be left.
LEMMA ParsedFormat ==
  ASSUME ParseIInv, worker # "none"
  PROVE  ParsedGltf <=> path \in GltfFiles
BY ParseAssumption DEF ParseIInv, LoaderInv, OwnLoader, ParsedGltf

\* A take returns the file of the latest start() when its parse succeeded and
\* nothing otherwise, and leaves no loader.
LEMMA TakeReturnsNewest ==
  ASSUME ParseIInv, TakeParsed
  PROVE  /\ taken' = IF worker = "ended" /\ ok THEN path ELSE Nothing
         /\ worker' = "none" /\ loader' = Nothing /\ gltfLoader' = Nothing
         /\ UNCHANGED << ok, finished, succeeded, path >>
<1>1. worker \in {"none", "ended"}
  BY DEF TakeParsed, TakeResult, TakeGltfResult, Joined
<1>2. CASE worker = "none"
  BY <1>2 DEF ParseIInv, LoaderInv, TakeParsed, TakeResult, TakeGltfResult, ParsedGltf
<1>3. CASE worker = "ended" /\ path \in GltfFiles
  BY <1>3, ParsedFormat
     DEF ParseIInv, ParseTypeOK, LoaderInv, OwnLoader, OutcomeInv, TakeParsed, TakeGltfResult
<1>4. CASE worker = "ended" /\ path \notin GltfFiles
  BY <1>4, ParsedFormat
     DEF ParseIInv, ParseTypeOK, LoaderInv, OwnLoader, OutcomeInv, TakeParsed, TakeResult
<1>. QED
  BY <1>1, <1>2, <1>3, <1>4

LEMMA TakeIInv ==
  ASSUME ParseIInv, TakeParsed
  PROVE  ParseIInv'
<1>1. worker \in {"none", "ended"}
  BY DEF TakeParsed, TakeResult, TakeGltfResult, Joined
<1>2. /\ taken' = IF worker = "ended" /\ ok THEN path ELSE Nothing
      /\ worker' = "none" /\ loader' = Nothing /\ gltfLoader' = Nothing
      /\ UNCHANGED << ok, finished, succeeded, path >>
  BY TakeReturnsNewest
<1>3. ParseTypeOK'
  BY <1>2 DEF ParseIInv, ParseTypeOK, Loader, LoaderInv
<1>4. LoaderInv'
  BY <1>2 DEF LoaderInv
<1>5. OutcomeInv'
  BY <1>1, <1>2 DEF ParseIInv, OutcomeInv, Unannounced
<1>. QED
  BY <1>3, <1>4, <1>5 DEF ParseIInv

\* The worker's three steps: the parse, and the two stores.
LEMMA WorkerIInv ==
  ASSUME ParseIInv, Worker
  PROVE  ParseIInv'
<1>. USE ParseAssumption
     DEF ParseIInv, ParseTypeOK, Loader, LoaderInv, OwnLoader, OutcomeInv, Unannounced, loaderVars
<1>1. CASE Parse
  BY <1>1 DEF Parse
<1>2. CASE StoreSucceeded
  BY <1>2 DEF StoreSucceeded
<1>3. CASE StoreFinished
  BY <1>3 DEF StoreFinished
<1>. QED
  BY <1>1, <1>2, <1>3 DEF Worker

LEMMA ParseUnchangedIInv ==
  ASSUME ParseIInv, UNCHANGED parseVars
  PROVE  ParseIInv'
BY DEF parseVars, ParseIInv, ParseTypeOK, Loader, LoaderInv, OwnLoader, OutcomeInv, Unannounced

\* The invariant holds whatever the owner starts and takes in between.
THEOREM ParseInductive == ParseSpec => []ParseIInv
<1>1. ParseIInv /\ [ParseNext]_parseVars => ParseIInv'
  BY StartIInv, TakeIInv, WorkerIInv, ParseUnchangedIInv DEF ParseNext, Owner
<1>. QED
  BY <1>1, ParseInitIInv, PTL DEF ParseSpec

-----------------------------------------------------------------------------

\* A poll that finds the parse finished joins without waiting, and finds the
\* outcome and the complete loader of the latest start(): the order of the
\* worker's stores is enough.
THEOREM FinishedParseIsComplete == ParseSpec => []FinishedIsComplete
<1>1. ParseIInv => FinishedIsComplete
  BY DEF ParseIInv, ParseTypeOK, OutcomeInv, Unannounced, OwnLoader, FinishedIsComplete, Joined
<1>. QED
  BY <1>1, ParseInductive, PTL

\* A take hands out the file of the latest start(), completely parsed, or
\* nothing, never an earlier or a partial one.
THEOREM NewestParseWins == ParseSpec => TakenIsNewest
<1>. DEFINE Newest ==
       worker' = "none" => /\ taken' \in {path, Nothing}
                           /\ worker = "ended" /\ ok => taken' = path
<1>1. ParseIInv /\ [ParseNext]_parseVars => [Newest]_parseVars
  <2>. SUFFICES ASSUME ParseIInv, ParseNext PROVE Newest
    OBVIOUS
  <2>1. ASSUME NEW file \in Files, Start(file) PROVE worker' # "none"
    BY <2>1 DEF Start
  <2>2. CASE TakeParsed
    BY <2>2, TakeReturnsNewest
  <2>3. CASE Worker
    BY <2>3 DEF Worker, Parse, StoreSucceeded, StoreFinished
  <2>. QED
    BY <2>1, <2>2, <2>3 DEF ParseNext, Owner
<1>. QED
  BY <1>1, ParseInductive, PTL DEF ParseSpec, TakenIsNewest

-----------------------------------------------------------------------------
(***************************************************************************)
(* The mesh offsets: meshBaseOffsets() counts the meshes model by model.   *)
(***************************************************************************)

\* A set of naturals that has zero and every successor has all of them.
LEMMA InductiveSets ==
  ASSUME NEW S, 0 \in S, \A n \in Nat : n \in S => n + 1 \in S
  PROVE  \A n \in Nat : n \in S
<1>. SUFFICES ASSUME NEW m \in Nat, m \notin S PROVE FALSE
  OBVIOUS
<1>. DEFINE T == { n \in Nat : n \notin S }
<1>1. T \subseteq Nat /\ T # {}
  OBVIOUS
<1>. HIDE DEF T
<1>. DEFINE R == { ss \in Nat \X Nat : ss[1] < ss[2] }
<1>2. IsWellFoundedOn(R, Nat)
  BY NatLessThanWellFounded DEF OpToRel
<1>. HIDE DEF R
<1>3. PICK n \in T : \A k \in T : << k, n >> \notin R
  BY <1>1, <1>2, WFMin
<1>4. n \in Nat /\ n # 0 /\ n \notin S
  BY <1>1, <1>3 DEF T
<1>5. n - 1 \in Nat /\ (n - 1) + 1 = n /\ n - 1 < n
  BY <1>4
<1>6. n - 1 \in S
  BY <1>1, <1>3, <1>4, <1>5 DEF T, R
<1>. QED
  BY <1>4, <1>5, <1>6

LEMMA MeshCountType == \A file : MeshCount(file) \in Nat \ {0}
BY DEF MeshCount

\* The recursion of meshBaseOffsets() defines a function.
LEMMA OffsetsExist ==
  ASSUME NEW models, NEW n \in Nat
  PROVE  \E g : g = [k \in 0 .. n |-> IF k = 0 THEN 0
                                     ELSE g[k - 1] + MeshCount(models[k].file)]
<1>. DEFINE Adds(g, m) ==
              /\ g \in [0 .. m -> Nat]
              /\ g[0] = 0
              /\ \A k \in 1 .. m : g[k] = g[k - 1] + MeshCount(models[k].file)
            S == { m \in Nat : \E g \in [0 .. m -> Nat] : Adds(g, m) }
<1>1. 0 \in S
  <2>1. Adds([k \in 0 .. 0 |-> 0], 0)
    OBVIOUS
  <2>. QED
    BY <2>1
<1>2. ASSUME NEW m \in Nat, m \in S PROVE m + 1 \in S
  <2>1. PICK g \in [0 .. m -> Nat] : Adds(g, m)
    BY <1>2
  <2>. DEFINE h == [k \in 0 .. m + 1 |-> IF k = m + 1 THEN g[m] + MeshCount(models[m + 1].file)
                                        ELSE g[k]]
  <2>2. h \in [0 .. m + 1 -> Nat]
    BY MeshCountType
  <2>3. \A k \in 1 .. m + 1 : h[k] = h[k - 1] + MeshCount(models[k].file)
    <3>1. SUFFICES ASSUME NEW k \in 1 .. m + 1
                   PROVE  h[k] = h[k - 1] + MeshCount(models[k].file)
      OBVIOUS
    <3>2. CASE k = m + 1
      BY <3>2
    <3>3. CASE k \in 1 .. m
      BY <2>1, <3>3
    <3>. QED
      BY <3>2, <3>3
  <2>4. h[0] = 0
    BY <2>1
  <2>5. Adds(h, m + 1)
    BY <2>2, <2>3, <2>4
  <2>. HIDE DEF h, Adds
  <2>. QED
    BY <2>2, <2>5
<1>3. n \in S
  <2>. HIDE DEF S
  <2>. QED
    BY <1>1, <1>2, InductiveSets
<1>4. PICK g \in [0 .. n -> Nat] : Adds(g, n)
  BY <1>3
<1>5. g = [k \in 0 .. n |-> IF k = 0 THEN 0 ELSE g[k - 1] + MeshCount(models[k].file)]
  BY <1>4
<1>. QED
  BY <1>5

\* The first model's meshes come first, and every further model's behind those
\* of the model before it.
LEMMA MeshBaseOffsets ==
  ASSUME NEW models, Len(models) \in Nat
  PROVE  /\ MeshBaseOffset(models, 1) = 0
         /\ \A i \in 1 .. Len(models) :
              /\ MeshBaseOffset(models, i) \in Nat
              /\ MeshBaseOffset(models, i + 1)
                   = MeshBaseOffset(models, i) + MeshCount(models[i].file)
<1>. DEFINE n == Len(models)
            before == CHOOSE g : g = [k \in 0 .. n |-> IF k = 0 THEN 0
                                        ELSE g[k - 1] + MeshCount(models[k].file)]
            S == { k \in Nat : k <= n => before[k] \in Nat }
<1>1. before = [k \in 0 .. n |-> IF k = 0 THEN 0 ELSE before[k - 1] + MeshCount(models[k].file)]
  BY OffsetsExist
<1>2. \A i : MeshBaseOffset(models, i) = before[i - 1]
  BY DEF MeshBaseOffset
<1>. HIDE DEF before
<1>3. before[0] = 0 /\ \A k \in 1 .. n : before[k] = before[k - 1] + MeshCount(models[k].file)
  BY <1>1
<1>4. 0 \in S
  BY <1>3
<1>5. ASSUME NEW k \in Nat, k \in S PROVE k + 1 \in S
  BY <1>3, <1>5, MeshCountType
<1>6. \A k \in Nat : k \in S
  <2>. HIDE DEF S
  <2>. QED
    BY <1>4, <1>5, InductiveSets
<1>. QED
  BY <1>2, <1>3, <1>6

\* Where a model's meshes begin depends on the files of the models before it only.
LEMMA OffsetsOfFiles ==
  ASSUME NEW models, NEW others, NEW n \in Nat, Len(models) \in Nat, Len(others) \in Nat,
         n <= Len(models), n <= Len(others),
         \A i \in 1 .. n : models[i].file = others[i].file
  PROVE  \A i \in 1 .. n + 1 : MeshBaseOffset(models, i) = MeshBaseOffset(others, i)
<1>. DEFINE S == { k \in Nat : k <= n => MeshBaseOffset(models, k + 1) = MeshBaseOffset(others, k + 1) }
<1>1. 0 \in S
  BY MeshBaseOffsets
<1>2. ASSUME NEW k \in Nat, k \in S PROVE k + 1 \in S
  BY <1>2, MeshBaseOffsets
<1>3. \A k \in Nat : k \in S
  <2>. HIDE DEF S
  <2>. QED
    BY <1>1, <1>2, InductiveSets
<1>4. \A i \in 1 .. n + 1 : i - 1 \in Nat /\ (i - 1) + 1 = i /\ i - 1 <= n
  OBVIOUS
<1>. QED
  BY <1>3, <1>4

\* The meshes of a model end before those of the models behind it end.
LEMMA OffsetsGrow ==
  ASSUME NEW models, Len(models) \in Nat
  PROVE  \A i \in 1 .. Len(models) :
           MeshBaseOffset(models, i) + MeshCount(models[i].file)
             <= MeshBaseOffset(models, Len(models) + 1)
<1>. SUFFICES ASSUME NEW i \in 1 .. Len(models)
              PROVE  MeshBaseOffset(models, i) + MeshCount(models[i].file)
                       <= MeshBaseOffset(models, Len(models) + 1)
  OBVIOUS
<1>. DEFINE S == { k \in Nat : i <= k /\ k <= Len(models) =>
                                 MeshBaseOffset(models, i + 1) <= MeshBaseOffset(models, k + 1) }
<1>1. i \in Nat /\ Len(models) \in 1 .. Len(models)
  OBVIOUS
<1>2. /\ MeshBaseOffset(models, i + 1) = MeshBaseOffset(models, i) + MeshCount(models[i].file)
      /\ MeshBaseOffset(models, i + 1) \in Nat
  BY MeshBaseOffsets, MeshCountType
<1>3. 0 \in S
  OBVIOUS
<1>4. ASSUME NEW k \in Nat, k \in S PROVE k + 1 \in S
  <2>1. CASE k + 1 <= Len(models) /\ i <= k
    <3>1. k + 1 \in 1 .. Len(models)
      BY <2>1
    <3>2. /\ MeshBaseOffset(models, k + 1) \in Nat
          /\ MeshBaseOffset(models, k + 2) = MeshBaseOffset(models, k + 1) + MeshCount(models[k + 1].file)
      BY <3>1, MeshBaseOffsets
    <3>. QED
      BY <1>2, <1>4, <2>1, <3>2, MeshCountType
  <2>2. CASE k + 1 = i
    BY <1>2, <2>2
  <2>3. CASE k + 1 < i \/ Len(models) < k + 1
    BY <2>3
  <2>. QED
    BY <1>1, <2>1, <2>2, <2>3
<1>5. Len(models) \in S
  <2>. HIDE DEF S
  <2>. QED
    BY <1>3, <1>4, InductiveSets
<1>. QED
  BY <1>1, <1>2, <1>5

-----------------------------------------------------------------------------
(***************************************************************************)
(* Models, their descriptions and their instances.                         *)
(***************************************************************************)

LEMMA IdsType ==
  ASSUME NEW models \in Seq(Model)
  PROVE  Ids(models) \in Seq(1 .. MaxLoads) /\ Len(Ids(models)) = Len(models)
<1>1. DOMAIN models = 1 .. Len(models) /\ Len(models) \in Nat
  OBVIOUS
<1>2. \A i \in 1 .. Len(models) : models[i].id \in 1 .. MaxLoads
  <2>. SUFFICES ASSUME NEW i \in 1 .. Len(models) PROVE models[i].id \in 1 .. MaxLoads
    OBVIOUS
  <2>1. models[i] \in Model
    OBVIOUS
  <2>. QED
    BY <2>1 DEF Model
<1>. QED
  BY <1>1, <1>2 DEF Ids

LEMMA InstancesType ==
  ASSUME NEW models \in Seq(Model), NEW bottom \in Seq(1 .. MaxLoads),
         Len(models) <= Len(bottom)
  PROVE  Instances(models, bottom) \in Seq(Instance)
<1>1. ASSUME NEW i \in DOMAIN models
      PROVE  [model |-> bottom[i], matrix |-> models[i].matrix, first |-> MeshBaseOffset(models, i)]
               \in Instance
  <2>1. i \in 1 .. Len(models) /\ models[i] \in Model
    OBVIOUS
  <2>2. models[i].matrix \in Matrices
    BY <2>1 DEF Model
  <2>3. bottom[i] \in 1 .. MaxLoads
    <3>1. Len(models) \in Nat /\ Len(bottom) \in Nat
      OBVIOUS
    <3>2. i \in 1 .. Len(bottom)
      BY <2>1, <3>1
    <3>. QED
      BY <3>2, ElementOfSeq
  <2>4. MeshBaseOffset(models, i) \in Nat
    BY <2>1, MeshBaseOffsets
  <2>. QED
    BY <2>2, <2>3, <2>4 DEF Instance
<1>. QED
  BY <1>1 DEF Instances

LEMMA EmptySceneDescribed == Describe(<< >>, << >>)
BY MeshBaseOffsets DEF Describe

\* A scene with a model has an object description.
LEMMA ModelsAreDescribed ==
  ASSUME NEW models \in Seq(Model), models # << >>,
         NEW objects \in Seq(1 .. MaxLoads), Describe(objects, models)
  PROVE  objects # << >>
<1>1. Len(models) \in 1 .. Len(models)
  OBVIOUS
<1>2. /\ MeshBaseOffset(models, Len(models)) \in Nat
      /\ MeshBaseOffset(models, Len(models) + 1)
           = MeshBaseOffset(models, Len(models)) + MeshCount(models[Len(models)].file)
  BY <1>1, MeshBaseOffsets
<1>3. Len(objects) # 0
  BY <1>2, MeshCountType DEF Describe
<1>. QED
  BY <1>3

\* A model added behind the others is described behind them, and the offsets of
\* the others stay what they were.
LEMMA AddedModelDescribed ==
  ASSUME NEW models \in Seq(Model), NEW objects \in Seq(1 .. MaxLoads), Describe(objects, models),
         NEW m \in Model, NEW added \in Seq(1 .. MaxLoads),
         Len(added) = MeshCount(m.file), \A k \in 1 .. Len(added) : added[k] = m.id
  PROVE  Describe(objects \o added, Append(models, m))
<1>. DEFINE n == Len(models)
            more == Append(models, m)
            all == objects \o added
<1>1. /\ n \in Nat /\ n + 1 \in 1 .. n + 1
      /\ Len(more) = n + 1 /\ DOMAIN more = 1 .. n + 1 /\ DOMAIN models = 1 .. n
      /\ more[n + 1] = m /\ \A i \in 1 .. n : more[i] = models[i]
  OBVIOUS
<1>2. /\ Len(all) = Len(objects) + Len(added) /\ Len(objects) \in Nat /\ Len(added) \in Nat
      /\ \A k \in 1 .. Len(objects) : all[k] = objects[k]
      /\ \A k \in 1 .. Len(added) : all[Len(objects) + k] = m.id
  <2>1. /\ Len(all) = Len(objects) + Len(added)
        /\ \A k \in 1 .. Len(objects) + Len(added) :
             all[k] = IF k <= Len(objects) THEN objects[k] ELSE added[k - Len(objects)]
    BY ConcatProperties
  <2>2. Len(objects) \in Nat /\ Len(added) \in Nat
    OBVIOUS
  <2>. HIDE DEF all
  <2>3. \A k \in 1 .. Len(added) : all[Len(objects) + k] = added[k]
    BY <2>1, <2>2
  <2>. QED
    BY <2>1, <2>2, <2>3
<1>. HIDE DEF n, more, all
<1>3. \A i \in 1 .. n + 1 : MeshBaseOffset(more, i) = MeshBaseOffset(models, i)
  <2>1. \A i \in 1 .. n : more[i].file = models[i].file
    BY <1>1
  <2>2. n <= Len(more) /\ n <= Len(models) /\ Len(more) \in Nat /\ Len(models) \in Nat
    BY <1>1 DEF n
  <2>. QED
    BY <1>1, <2>1, <2>2, OffsetsOfFiles
<1>4. \A i \in 1 .. n + 1 :
        /\ MeshBaseOffset(more, i) \in Nat
        /\ MeshBaseOffset(more, i + 1) = MeshBaseOffset(more, i) + MeshCount(more[i].file)
  <2>1. Len(more) \in Nat /\ 1 .. n + 1 = 1 .. Len(more)
    BY <1>1
  <2>. QED
    BY <2>1, MeshBaseOffsets
<1>5. Len(objects) = MeshBaseOffset(more, n + 1)
  BY <1>1, <1>3 DEF Describe, n
<1>6. Len(all) = MeshBaseOffset(more, Len(more) + 1)
  BY <1>1, <1>2, <1>4, <1>5
<1>7. ASSUME NEW i \in 1 .. n + 1, NEW k \in 1 .. MeshCount(more[i].file)
      PROVE  all[MeshBaseOffset(more, i) + k] = more[i].id
  <2>1. CASE i = n + 1
    BY <1>1, <1>2, <1>5, <1>7, <2>1
  <2>2. CASE i \in 1 .. n
    <3>1. MeshBaseOffset(more, i) + k \in 1 .. Len(objects)
      <4>1. more[i] = models[i] /\ MeshBaseOffset(more, i) = MeshBaseOffset(models, i)
        BY <1>1, <1>3, <2>2
      <4>2. MeshBaseOffset(models, i) + MeshCount(models[i].file) <= Len(objects)
        BY <1>1, <2>2, OffsetsGrow DEF n, Describe
      <4>. QED
        BY <1>2, <1>4, <1>7, <4>1, <4>2, MeshCountType
    <3>. QED
      BY <1>1, <1>2, <1>3, <1>7, <2>2, <3>1 DEF Describe, n
  <2>. QED
    BY <2>1, <2>2, <1>1
<1>. QED
  BY <1>1, <1>6, <1>7 DEF Describe, more, all

\* add_model() keeps the scene well-formed and described.
LEMMA AddKeepsScene ==
  ASSUME nextModel \in 1 .. MaxLoads + 1,
         NEW models \in Seq(Model), NEW objects \in Seq(1 .. MaxLoads), Describe(objects, models),
         NEW file \in Files, NEW matrix \in Matrices, AddModelTo(models, objects, file, matrix)
  PROVE  /\ modelList' \in Seq(Model) /\ modelList' # << >>
         /\ objectDescriptions' \in Seq(1 .. MaxLoads)
         /\ nextModel' \in 1 .. MaxLoads + 1
         /\ Describe(objectDescriptions', modelList')
<1>. PICK id : id = nextModel
  OBVIOUS
<1>. DEFINE m == [id |-> id, file |-> file, matrix |-> matrix]
            added == [k \in 1 .. MeshCount(file) |-> id]
<1>1. id \in 1 .. MaxLoads /\ nextModel' \in 1 .. MaxLoads + 1
  BY SceneAssumption DEF AddModelTo
<1>2. m \in Model /\ m.file = file /\ m.id = id
  BY <1>1 DEF Model
<1>3. added \in Seq(1 .. MaxLoads) /\ Len(added) = MeshCount(file) /\ \A k \in 1 .. Len(added) : added[k] = id
  <2>. DEFINE c == MeshCount(file)
  <2>1. c \in Nat
    BY MeshCountType
  <2>. HIDE DEF c
  <2>2. [k \in 1 .. c |-> id] \in Seq(1 .. MaxLoads)
    BY <1>1, <2>1
  <2>3. Len([k \in 1 .. c |-> id]) = c
    BY <2>1
  <2>. QED
    BY <2>1, <2>2, <2>3 DEF c
<1>4. modelList' = Append(models, m) /\ objectDescriptions' = objects \o added
  BY DEF AddModelTo
<1>. HIDE DEF m, added
<1>5. Append(models, m) \in Seq(Model) /\ Append(models, m) # << >>
  BY <1>2
<1>6. objects \o added \in Seq(1 .. MaxLoads)
  BY <1>3, ConcatProperties
<1>7. Describe(objects \o added, Append(models, m))
  BY <1>2, <1>3, AddedModelDescribed
<1>. QED
  BY <1>1, <1>4, <1>5, <1>6, <1>7

\* update_model_matrix() keeps the models' files and identities.
LEMMA MatrixKeepsScene ==
  ASSUME modelList \in Seq(Model), Describe(objectDescriptions, modelList),
         NEW matrix \in Matrices, NEW i, UpdateModelMatrix(matrix, i)
  PROVE  /\ modelList' \in Seq(Model) /\ Len(modelList') = Len(modelList)
         /\ Ids(modelList') = Ids(modelList)
         /\ Describe(objectDescriptions, modelList')
<1>. PICK models, moved, objects :
       models = modelList /\ moved = modelList' /\ objects = objectDescriptions
  OBVIOUS
<1>1. models \in Seq(Model) /\ Describe(objects, models)
  OBVIOUS
<1>2. moved = [k \in DOMAIN models |-> IF k = i THEN [models[k] EXCEPT !.matrix = matrix]
                                       ELSE models[k]]
  BY DEF UpdateModelMatrix
<1>3. Len(models) \in Nat /\ DOMAIN models = 1 .. Len(models)
  BY <1>1
<1>4. ASSUME NEW k \in 1 .. Len(models)
      PROVE  moved[k] \in Model /\ moved[k].id = models[k].id /\ moved[k].file = models[k].file
  <2>1. models[k] \in Model
    BY <1>1
  <2>2. moved[k] = IF k = i THEN [models[k] EXCEPT !.matrix = matrix] ELSE models[k]
    BY <1>2, <1>3
  <2>. QED
    BY <2>1, <2>2 DEF Model
<1>5. moved \in Seq(Model) /\ Len(moved) = Len(models) /\ DOMAIN moved = DOMAIN models
  BY <1>2, <1>3, <1>4
<1>6. Ids(moved) = Ids(models)
  BY <1>3, <1>4, <1>5 DEF Ids
<1>7. Describe(objects, moved)
  <2>1. \A k \in 1 .. Len(models) + 1 : MeshBaseOffset(moved, k) = MeshBaseOffset(models, k)
    BY <1>3, <1>4, <1>5, OffsetsOfFiles
  <2>2. Len(models) + 1 \in 1 .. Len(models) + 1 /\ \A k \in 1 .. Len(models) : k \in 1 .. Len(models) + 1
    BY <1>3
  <2>. QED
    BY <1>1, <1>3, <1>4, <1>5, <2>1, <2>2 DEF Describe
<1>. QED
  BY <1>5, <1>6, <1>7

-----------------------------------------------------------------------------
(***************************************************************************)
(* Acceleration structures and descriptor sets after a change of the scene *)
(***************************************************************************)

\* What the bottom levels and the top level are after createASForScene() or
\* createTLAS() without a failure.
Traced(models, bottom) ==
  [instances |-> Instances(models, bottom), blasExist |-> TRUE, built |-> TRUE]

LEMMA TopLevelType ==
  ASSUME NEW models \in Seq(Model), NEW bottom \in Seq(1 .. MaxLoads),
         Len(models) <= Len(bottom), NEW built \in BOOLEAN
  PROVE  [instances |-> Instances(models, bottom), blasExist |-> TRUE, built |-> built] \in TopLevel
BY InstancesType DEF TopLevel

LEMMA CreatedTLAS ==
  ASSUME NEW models \in Seq(Model), blas' \in Seq(1 .. MaxLoads), ASTypeOK,
         NEW failure, CreateTLAS(models, failure)
  PROVE  /\ tlas' \in TopLevel \cup {Nothing}
         /\ Len(blas') = Len(models) /\ failure \notin {"tlasBegin", "tlasSubmit"} =>
              tlas' = Traced(models, blas')
<1>. PICK bottom : bottom = blas'
  OBVIOUS
<1>1. Len(bottom) \in Nat /\ Len(models) \in Nat /\ bottom \in Seq(1 .. MaxLoads)
  OBVIOUS
<1>2. CASE Len(bottom) < Len(models)
  BY <1>1, <1>2 DEF CreateTLAS, ASTypeOK
<1>3. CASE ~(Len(bottom) < Len(models))
  <2>1. Len(models) <= Len(bottom)
    BY <1>1, <1>3
  <2>2. tlas' = IF failure = "tlasBegin" THEN Nothing
                ELSE [instances |-> Instances(models, bottom), blasExist |-> TRUE,
                      built |-> failure # "tlasSubmit"]
    BY <1>3 DEF CreateTLAS
  <2>3. [instances |-> Instances(models, bottom), blasExist |-> TRUE,
         built |-> failure # "tlasSubmit"] \in TopLevel
    BY <1>1, <2>1, TopLevelType
  <2>. QED
    BY <2>2, <2>3 DEF Traced
<1>. QED
  BY <1>2, <1>3

LEMMA RebuiltAS ==
  ASSUME ASTypeOK, modelList' \in Seq(Model), NEW rebuild \in BOOLEAN, NEW failure,
         RebuildAS(rebuild, failure)
  PROVE  /\ ASTypeOK'
         /\ /\ rrt /\ modelList' # << >> /\ failure \notin {"blas", "tlasBegin", "tlasSubmit"}
            /\ rebuild \/ blas = Ids(modelList')
            => blas' = Ids(modelList') /\ tlas' = Traced(modelList', Ids(modelList'))
<1>. PICK models : models = modelList'
  OBVIOUS
<1>0. models \in Seq(Model)
  OBVIOUS
<1>i. Ids(models) \in Seq(1 .. MaxLoads) /\ Len(Ids(models)) = Len(models)
  BY <1>0, IdsType
<1>1. CASE ~rrt
  BY <1>1 DEF RebuildAS, asVars, ASTypeOK
<1>2. CASE rrt /\ ~rebuild
  <2>1. UNCHANGED << blas, asDevice >> /\ CreateTLAS(models, failure)
    BY <1>2 DEF RebuildAS
  <2>2. blas' \in Seq(1 .. MaxLoads)
    BY <2>1 DEF ASTypeOK
  <2>3. /\ tlas' \in TopLevel \cup {Nothing}
        /\ Len(blas') = Len(models) /\ failure \notin {"tlasBegin", "tlasSubmit"} =>
             tlas' = Traced(models, blas')
    BY <1>0, <2>1, <2>2, CreatedTLAS
  <2>. QED
    BY <1>2, <1>i, <2>1, <2>2, <2>3 DEF ASTypeOK
<1>3. CASE rrt /\ rebuild
  <2>1. CreateASForScene(models, failure)
    BY <1>3 DEF RebuildAS
  <2>2. CASE models = << >>
    BY <2>1, <2>2 DEF CreateASForScene, ASTypeOK
  <2>3. CASE models # << >> /\ failure = "blas"
    <3>1. blas' = << >> /\ asDevice' = TRUE
      BY <2>1, <2>3 DEF CreateASForScene, BlasFails
    <3>2. tlas' \in TopLevel \cup {Nothing}
      BY <2>1, <2>3 DEF CreateASForScene, BlasFails, ASTypeOK, TopLevel
    <3>. QED
      BY <2>3, <3>1, <3>2 DEF ASTypeOK
  <2>4. CASE models # << >> /\ failure # "blas"
    <3>1. blas' = Ids(models) /\ CreateTLAS(models, failure) /\ asDevice' = TRUE
      BY <2>1, <2>4 DEF CreateASForScene
    <3>2. /\ tlas' \in TopLevel \cup {Nothing}
          /\ Len(blas') = Len(models) /\ failure \notin {"tlasBegin", "tlasSubmit"} =>
               tlas' = Traced(models, blas')
      BY <1>0, <1>i, <3>1, CreatedTLAS
    <3>. QED
      BY <1>i, <3>1, <3>2 DEF ASTypeOK
  <2>. QED
    BY <2>2, <2>3, <2>4
<1>. QED
  BY <1>1, <1>2, <1>3

\* refreshAfterSceneChange() binds the scene it finds to the raster passes, and,
\* where ray tracing is supported, the top level that exists to the tracers.
LEMMA RefreshBinds ==
  ASSUME SceneLoopTypeOK, SamplesInv, TracedInv, pc # "closed",
         modelList' \in Seq(Model), objectDescriptions' \in Seq(1 .. MaxLoads),
         Describe(objectDescriptions', modelList'),
         NEW rebuild \in BOOLEAN, RefreshAfterSceneChange(rebuild),
         ~rebuild => Ids(modelList') = Ids(modelList) /\ Len(modelList') = Len(modelList),
         UNCHANGED << rrt, mode >>
  PROVE  /\ ASTypeOK'
         /\ GpuTypeOK'
         /\ bound'.mode = mode
         /\ RasterInv' /\ TracedInv' /\ SamplesInv'
         /\ UNCHANGED << accumulation, lastView, lastMode >>
<1>1. PICK failure \in {"none", "upload", "blas", "tlasBegin", "tlasSubmit"} :
        /\ RebuildObjectDescriptions(failure)
        /\ RebuildAS(rebuild, failure)
        /\ UpdateAllDescriptorSets([bound EXCEPT !.objects = "current"])
        /\ degraded' = (failure # "none" \/ (degraded /\ ~rebuild))
        /\ UNCHANGED << accumulation, lastView, lastMode >>
  BY DEF RefreshAfterSceneChange
<1>. PICK models, objects : models = modelList' /\ objects = objectDescriptions'
  OBVIOUS
<1>2. models \in Seq(Model) /\ objects \in Seq(1 .. MaxLoads) /\ Describe(objects, models)
  OBVIOUS
<1>3. Ids(models) \in Seq(1 .. MaxLoads)
  BY <1>2, IdsType
<1>4. models # << >> => objects # << >>
  BY <1>2, ModelsAreDescribed
<1>5. ASTypeOK'
  BY <1>1, RebuiltAS DEF SceneLoopTypeOK
<1>6. descriptions' \in Seq(0 .. MaxLoads)
  <2>1. objects \in Seq(0 .. MaxLoads)
    BY <1>2, SceneAssumption
  <2>2. << 0 >> \in Seq(0 .. MaxLoads)
    BY SceneAssumption
  <2>. QED
    BY <1>1, <2>1, <2>2 DEF RebuildObjectDescriptions
<1>7. /\ bound' \in [objects : {"unwritten", "current"}, textures : Seq(1 .. MaxLoads),
                      tlas : {"unwritten", "current", "destroyed"}, mode : Modes]
      /\ bound'.objects = "current" /\ bound'.mode = mode
      /\ models # << >> => bound'.textures = Ids(models)
      /\ rrt /\ tlas' # Nothing => bound'.tlas = "current"
  BY <1>1, <1>3 DEF UpdateAllDescriptorSets, TexturesWritten, TlasBinding, SceneLoopTypeOK, GuiTypeOK, GpuTypeOK
<1>8. samples' = IF rrt /\ tlas' # Nothing THEN {} ELSE samples
  BY <1>1 DEF UpdateAllDescriptorSets, UpdateRaytracing, ResetSamples
<1>9. RasterInv'
  BY <1>1, <1>4, <1>7 DEF RasterInv, RebuildObjectDescriptions
<1>10. TracedInv'
  <2>1. ASSUME rrt, models # << >>, ~degraded'
        PROVE  blas' = Ids(models) /\ tlas' = Traced(models, blas')
    <3>1. failure = "none" /\ (rebuild \/ ~degraded)
      BY <1>1, <2>1
    <3>2. rebuild \/ blas = Ids(models)
      <4>1. Len(modelList) \in Nat /\ Len(models) \in Nat /\ Len(models) # 0
        BY <1>2, <2>1 DEF SceneLoopTypeOK, SceneTypeOK
      <4>2. CASE ~rebuild
        <5>1. modelList # << >> /\ ~degraded
          BY <3>1, <4>1, <4>2
        <5>. QED
          BY <2>1, <4>2, <5>1 DEF TracedInv
      <4>. QED
        BY <4>2
    <3>. QED
      BY <1>1, <2>1, <3>1, <3>2, RebuiltAS DEF SceneLoopTypeOK
  <2>. QED
    BY <1>7, <2>1 DEF TracedInv, Traced
<1>11. SamplesInv'
  BY <1>1, <1>8 DEF SamplesInv
<1>12. GpuTypeOK'
  BY <1>1, <1>6, <1>7, <1>8 DEF SceneLoopTypeOK, GpuTypeOK
<1>. QED
  BY <1>1, <1>5, <1>6, <1>7, <1>9, <1>10, <1>11, <1>12

-----------------------------------------------------------------------------
(***************************************************************************)
(* The loop's parse is the parse of AsyncModelParse.                       *)
(***************************************************************************)

LEMMA SceneLoopParseStep == SceneLoopNext => ParseNext \/ UNCHANGED parseVars
<1>1. CancelPendingModelLoad => TakeParsed \/ UNCHANGED parseVars
  BY DEF CancelPendingModelLoad
<1>2. ConstructRenderer => ParseNext
  BY LoopAssumption DEF ConstructRenderer, BeginModelLoadAsync, ParseNext, Owner
<1>3. ParseInBackground => ParseNext
  BY DEF ParseInBackground, ParseNext
<1>4. FinishModelLoad \/ ModelLoadFails => ParseNext
  BY DEF FinishModelLoad, ModelLoadFails, PollInstalls, PollFails, ParseNext, Owner
<1>5. HandleModelReloadRequest => ParseNext \/ UNCHANGED parseVars
  BY <1>1 DEF HandleModelReloadRequest, ReloadModel, ReloadFails, ParseNext, Owner
<1>6. AddModel => UNCHANGED parseVars
  BY DEF AddModel, LoadAdditionalModel
<1>7. /\ UserInput \/ PollNothing => UNCHANGED parseVars
      /\ HandleRasterizationModeChange => UNCHANGED parseVars
      /\ HandleShadowResolutionChange => UNCHANGED parseVars
      /\ HandleModelTransformChange => UNCHANGED parseVars
  BY Zenon DEF UserInput, PollNothing, HandleRasterizationModeChange, HandleShadowResolutionChange,
         HandleModelTransformChange
<1>8. DrawFrame \/ CloseWindow \/ GpuCompletes => UNCHANGED parseVars
  BY DEF DrawFrame, CloseWindow, GpuCompletes
<1>9. RecreateSwapChain => UNCHANGED parseVars
  BY Zenon DEF RecreateSwapChain
<1>. QED
  BY <1>2, <1>3, <1>4, <1>5, <1>6, <1>7, <1>8, <1>9 DEF SceneLoopNext

\* Whatever the frame loop does, its scene uses the asynchronous parse only in
\* the ways AsyncModelParse allows: the loop's runs are runs of the parse.
THEOREM SceneLoopParses == SceneLoopSpec => ParseSpec
<1>1. SceneLoopInit => ParseInit
  BY DEF SceneLoopInit, SceneInit
<1>2. [SceneLoopNext]_allVars => [ParseNext]_parseVars
  BY SceneLoopParseStep DEF allVars
<1>. QED
  BY <1>1, <1>2, PTL DEF SceneLoopSpec, ParseSpec

-----------------------------------------------------------------------------
(***************************************************************************)
(* The invariant, action by action.                                        *)
(***************************************************************************)

LEMMA SceneTypeKept ==
  ASSUME SceneTypeOK, ParseIInv', UNCHANGED sceneVars
  PROVE  SceneTypeOK'
BY DEF SceneTypeOK, ParseIInv, sceneVars

LEMMA ASTypeKept ==
  ASSUME ASTypeOK, UNCHANGED asVars
  PROVE  ASTypeOK'
BY DEF ASTypeOK, asVars

LEMMA GuiTypeKept ==
  ASSUME GuiTypeOK, UNCHANGED guiVars
  PROVE  GuiTypeOK'
BY DEF GuiTypeOK, guiVars

LEMMA GpuTypeKept ==
  ASSUME GpuTypeOK, UNCHANGED gpuVars
  PROVE  GpuTypeOK'
BY DEF GpuTypeOK, gpuVars

LEMMA SceneInitIInv == SceneLoopInit => SceneIInv
<1>. SUFFICES ASSUME SceneLoopInit PROVE SceneIInv
  OBVIOUS
<1>1. SceneLoopTypeOK
  <2>1. SceneTypeOK
    <3>1. << >> \in Seq(Model) /\ << >> \in Seq(1 .. MaxLoads) /\ 1 \in 1 .. MaxLoads + 1
      BY SceneAssumption
    <3>. QED
      BY <3>1, ParseInitIInv DEF SceneLoopInit, SceneInit, SceneTypeOK, ParseIInv
  <2>2. ASTypeOK
    <3>1. << >> \in Seq(1 .. MaxLoads)
      OBVIOUS
    <3>. QED
      BY <3>1 DEF SceneLoopInit, ASInit, ASTypeOK
  <2>3. GuiTypeOK
    BY DEF SceneLoopInit, GuiTypeOK, Modes
  <2>4. GpuTypeOK
    <3>1. << 0 >> \in Seq(0 .. MaxLoads) /\ << >> \in Seq(1 .. MaxLoads)
      BY SceneAssumption
    <3>. QED
      BY <3>1 DEF SceneLoopInit, GpuTypeOK, Modes
  <2>. QED
    BY <2>1, <2>2, <2>3, <2>4 DEF SceneLoopInit, SceneLoopTypeOK
<1>2. Describe(objectDescriptions, modelList)
  BY EmptySceneDescribed DEF SceneLoopInit, SceneInit
<1>3. ModeInv /\ RasterInv /\ TracedInv /\ SamplesInv /\ ReplacedInv
  BY DEF SceneLoopInit, SceneInit, ASInit, ModeInv, RasterInv, TracedInv, SamplesInv, ReplacedInv
<1>. QED
  BY <1>1, <1>2, <1>3 DEF SceneIInv

LEMMA ConstructRendererIInv ==
  ASSUME SceneIInv, ParseIInv', ConstructRenderer
  PROVE  SceneIInv'
<1>. USE DEF SceneIInv
<1>1. ASTypeOK' /\ GuiTypeOK' /\ GpuTypeOK'
  BY ASTypeKept, GuiTypeKept, GpuTypeKept
     DEF ConstructRenderer, SceneLoopTypeOK, BeginModelLoadAsync
<1>2. SceneTypeOK'
  BY DEF ConstructRenderer, BeginModelLoadAsync, SceneLoopTypeOK, SceneTypeOK, ParseIInv
<1>3. SceneLoopTypeOK'
  BY <1>1, <1>2 DEF ConstructRenderer, SceneLoopTypeOK, Goto, BeginModelLoadAsync
<1>4. Describe(objectDescriptions, modelList)' /\ RasterInv'
  BY DEF RasterInv, ConstructRenderer, BeginModelLoadAsync, Goto, sceneVars, asVars, guiVars, gpuVars
<1>5. ModeInv'
  BY DEF ModeInv, ConstructRenderer, BeginModelLoadAsync, Goto, sceneVars, asVars, guiVars, gpuVars
<1>6. TracedInv' /\ SamplesInv'
  BY DEF TracedInv, SamplesInv, ConstructRenderer, BeginModelLoadAsync, Goto, sceneVars, asVars, guiVars, gpuVars
<1>7. ReplacedInv'
  BY DEF ReplacedInv, ConstructRenderer, BeginModelLoadAsync, Goto, sceneVars, asVars, guiVars, gpuVars
<1>. QED
  BY <1>3, <1>4, <1>5, <1>6, <1>7

LEMMA UserInputIInv ==
  ASSUME SceneIInv, ParseIInv', UserInput
  PROVE  SceneIInv'
<1>. USE DEF SceneIInv
<1>1. SceneTypeOK' /\ ASTypeOK' /\ GpuTypeOK'
  BY SceneTypeKept, ASTypeKept, GpuTypeKept
     DEF UserInput, SceneLoopTypeOK
<1>2. GuiTypeOK'
  BY DEF UserInput, guiVars, SceneLoopTypeOK, GuiTypeOK
<1>3. SceneLoopTypeOK'
  BY <1>1, <1>2 DEF UserInput, SceneLoopTypeOK, Goto
<1>4. Describe(objectDescriptions, modelList)' /\ RasterInv'
  BY DEF RasterInv, UserInput, Goto, sceneVars, asVars, guiVars, gpuVars
<1>5. ModeInv'
  BY DEF ModeInv, UserInput, Goto, sceneVars, asVars, guiVars, gpuVars
<1>6. TracedInv' /\ SamplesInv'
  BY DEF TracedInv, SamplesInv, UserInput, Goto, sceneVars, asVars, guiVars, gpuVars
<1>7. ReplacedInv'
  BY DEF ReplacedInv, UserInput, Goto, sceneVars, asVars, guiVars, gpuVars
<1>. QED
  BY <1>3, <1>4, <1>5, <1>6, <1>7

LEMMA ParseInBackgroundIInv ==
  ASSUME SceneIInv, ParseIInv', ParseInBackground
  PROVE  SceneIInv'
<1>. USE DEF SceneIInv
<1>1. SceneTypeOK' /\ ASTypeOK' /\ GuiTypeOK' /\ GpuTypeOK'
  BY SceneTypeKept, ASTypeKept, GuiTypeKept, GpuTypeKept
     DEF ParseInBackground, SceneLoopTypeOK
<1>2. SceneLoopTypeOK'
  BY <1>1 DEF ParseInBackground, SceneLoopTypeOK, Goto
<1>3. Describe(objectDescriptions, modelList)' /\ RasterInv'
  BY DEF RasterInv, ParseInBackground, Goto, sceneVars, asVars, guiVars, gpuVars
<1>4. ModeInv'
  BY DEF ModeInv, ParseInBackground, Goto, sceneVars, asVars, guiVars, gpuVars
<1>5. TracedInv' /\ SamplesInv'
  BY DEF TracedInv, SamplesInv, ParseInBackground, Goto, sceneVars, asVars, guiVars, gpuVars
<1>6. ReplacedInv'
  BY DEF ReplacedInv, ParseInBackground, Goto, sceneVars, asVars, guiVars, gpuVars
<1>. QED
  BY <1>2, <1>3, <1>4, <1>5, <1>6

LEMMA PollNothingIInv ==
  ASSUME SceneIInv, ParseIInv', PollNothing
  PROVE  SceneIInv'
<1>. USE DEF SceneIInv
<1>1. SceneTypeOK' /\ ASTypeOK' /\ GuiTypeOK' /\ GpuTypeOK'
  BY SceneTypeKept, ASTypeKept, GuiTypeKept, GpuTypeKept
     DEF PollNothing, SceneLoopTypeOK
<1>2. SceneLoopTypeOK'
  BY <1>1 DEF PollNothing, SceneLoopTypeOK, Goto
<1>3. Describe(objectDescriptions, modelList)' /\ RasterInv'
  BY DEF RasterInv, PollNothing, Goto, sceneVars, asVars, guiVars, gpuVars
<1>4. ModeInv'
  BY DEF ModeInv, PollNothing, Goto, sceneVars, asVars, guiVars, gpuVars
<1>5. TracedInv' /\ SamplesInv'
  BY DEF TracedInv, SamplesInv, PollNothing, Goto, sceneVars, asVars, guiVars, gpuVars
<1>6. ReplacedInv'
  BY DEF ReplacedInv, PollNothing, Goto, sceneVars, asVars, guiVars, gpuVars
<1>. QED
  BY <1>2, <1>3, <1>4, <1>5, <1>6

LEMMA ModelLoadFailsIInv ==
  ASSUME SceneIInv, ParseIInv', ModelLoadFails
  PROVE  SceneIInv'
<1>. USE DEF SceneIInv
<1>1. ASTypeOK' /\ GuiTypeOK' /\ GpuTypeOK'
  BY ASTypeKept, GuiTypeKept, GpuTypeKept
     DEF ModelLoadFails, SceneLoopTypeOK, PollFails
<1>2. SceneTypeOK'
  BY DEF ModelLoadFails, PollFails, SceneLoopTypeOK, SceneTypeOK, ParseIInv
<1>3. SceneLoopTypeOK'
  BY <1>1, <1>2 DEF ModelLoadFails, SceneLoopTypeOK, Goto, PollFails
<1>4. Describe(objectDescriptions, modelList)' /\ RasterInv'
  BY DEF RasterInv, ModelLoadFails, PollFails, Goto, sceneVars, asVars, guiVars, gpuVars
<1>5. ModeInv'
  BY DEF ModeInv, ModelLoadFails, PollFails, Goto, sceneVars, asVars, guiVars, gpuVars
<1>6. TracedInv' /\ SamplesInv'
  BY DEF TracedInv, SamplesInv, ModelLoadFails, PollFails, Goto, sceneVars, asVars, guiVars, gpuVars
<1>7. ReplacedInv'
  BY DEF ReplacedInv, ModelLoadFails, PollFails, Goto, sceneVars, asVars, guiVars, gpuVars
<1>. QED
  BY <1>3, <1>4, <1>5, <1>6, <1>7

LEMMA GpuCompletesIInv ==
  ASSUME SceneIInv, ParseIInv', GpuCompletes
  PROVE  SceneIInv'
<1>. USE DEF SceneIInv
<1>1. SceneTypeOK' /\ ASTypeOK' /\ GuiTypeOK' /\ GpuTypeOK'
  BY SceneTypeKept, ASTypeKept, GuiTypeKept, GpuTypeKept
     DEF GpuCompletes, SceneLoopTypeOK
<1>2. SceneLoopTypeOK'
  BY <1>1 DEF GpuCompletes, SceneLoopTypeOK, Goto
<1>3. Describe(objectDescriptions, modelList)' /\ RasterInv'
  BY DEF RasterInv, GpuCompletes, Goto, sceneVars, asVars, guiVars, gpuVars
<1>4. ModeInv'
  BY DEF ModeInv, GpuCompletes, Goto, sceneVars, asVars, guiVars, gpuVars
<1>5. TracedInv' /\ SamplesInv'
  BY DEF TracedInv, SamplesInv, GpuCompletes, Goto, sceneVars, asVars, guiVars, gpuVars
<1>6. ReplacedInv'
  BY DEF ReplacedInv, GpuCompletes, Goto, sceneVars, asVars, guiVars, gpuVars
<1>. QED
  BY <1>2, <1>3, <1>4, <1>5, <1>6

LEMMA CloseWindowIInv ==
  ASSUME SceneIInv, ParseIInv', CloseWindow
  PROVE  SceneIInv'
<1>. USE DEF SceneIInv
<1>1. SceneTypeOK' /\ GuiTypeOK' /\ GpuTypeOK'
  BY SceneTypeKept, GuiTypeKept, GpuTypeKept
     DEF CloseWindow, SceneLoopTypeOK, CleanUpAS
<1>2. ASTypeOK'
  <2>1. << >> \in Seq(1 .. MaxLoads)
    OBVIOUS
  <2>. QED
    BY <2>1 DEF CloseWindow, CleanUpAS, asVars, SceneLoopTypeOK, ASTypeOK
<1>3. SceneLoopTypeOK'
  BY <1>1, <1>2 DEF CloseWindow, SceneLoopTypeOK, Goto, CleanUpAS
<1>4. Describe(objectDescriptions, modelList)' /\ RasterInv'
  BY DEF RasterInv, CloseWindow, CleanUpAS, Goto, sceneVars, asVars, guiVars, gpuVars
<1>5. ModeInv'
  BY DEF ModeInv, CloseWindow, CleanUpAS, Goto, sceneVars, asVars, guiVars, gpuVars
<1>6. TracedInv' /\ SamplesInv'
  BY DEF TracedInv, SamplesInv, CloseWindow, CleanUpAS, Goto, sceneVars, asVars, guiVars, gpuVars
<1>7. ReplacedInv'
  BY DEF ReplacedInv, CloseWindow, CleanUpAS, Goto, sceneVars, asVars, guiVars, gpuVars
<1>. QED
  BY <1>3, <1>4, <1>5, <1>6, <1>7

LEMMA DrawFrameIInv ==
  ASSUME SceneIInv, ParseIInv', DrawFrame
  PROVE  SceneIInv'
<1>. USE DEF SceneIInv
<1>1. SceneTypeOK' /\ ASTypeOK' /\ GuiTypeOK'
  BY SceneTypeKept, ASTypeKept, GuiTypeKept
     DEF DrawFrame, SceneLoopTypeOK
<1>2. GpuTypeOK'
  BY DEF DrawFrame, PathTrace, RaytracingOwnsFrame, SceneLoopTypeOK, GpuTypeOK, GuiTypeOK,
         ASTypeOK, TopLevel
<1>3. SceneLoopTypeOK'
  BY <1>1, <1>2 DEF DrawFrame, SceneLoopTypeOK, Goto
<1>4. Describe(objectDescriptions, modelList)' /\ RasterInv'
  BY DEF RasterInv, DrawFrame, Goto, sceneVars, asVars, guiVars, gpuVars
<1>5. ModeInv'
  BY DEF ModeInv, DrawFrame, Goto, sceneVars, asVars, guiVars, gpuVars
<1>6. TracedInv' /\ SamplesInv'
  <2>1. TracedInv'
    BY DEF TracedInv, DrawFrame, sceneVars, asVars
  <2>2. CASE RaytracingOwnsFrame
    <3>1. samples' = (IF view # lastView THEN {} ELSE samples) \cup {<< view, tlas.instances >>}
          /\ lastView' = view /\ tlas' = tlas /\ rrt' = rrt /\ rrt /\ tlas # Nothing
      BY <2>2 DEF DrawFrame, PathTrace, RaytracingOwnsFrame, asVars
    <3>2. \A s \in samples' : s = << view, tlas.instances >>
      <4>1. ASSUME NEW s \in samples, view = lastView PROVE s = << view, tlas.instances >>
        <5>1. s \in Views \X Seq(Instance)
          BY DEF SceneLoopTypeOK, GpuTypeOK
        <5>2. s = << s[1], s[2] >>
          BY <5>1
        <5>. QED
          BY <3>1, <4>1, <5>2 DEF SamplesInv
      <4>. QED
        BY <3>1, <4>1
    <3>. QED
      BY <2>1, <3>1, <3>2 DEF SamplesInv
  <2>3. CASE ~RaytracingOwnsFrame
    BY <2>1, <2>3 DEF SamplesInv, DrawFrame, asVars
  <2>. QED
    BY <2>2, <2>3
<1>7. ReplacedInv'
  BY DEF ReplacedInv, DrawFrame, Goto, sceneVars, asVars, guiVars, gpuVars
<1>. QED
  BY <1>3, <1>4, <1>5, <1>6, <1>7

\* A handler that ends in refreshAfterSceneChange() keeps the invariant when what
\* it did to the scene before is well-formed and described.
LEMMA RefreshIInv ==
  ASSUME SceneIInv, pc # "closed",
         SceneTypeOK', Describe(objectDescriptions, modelList)', GuiTypeOK', ReplacedInv',
         NEW rebuild \in BOOLEAN, RefreshAfterSceneChange(rebuild),
         ~rebuild => Ids(modelList') = Ids(modelList) /\ Len(modelList') = Len(modelList),
         UNCHANGED << rrt, mode, inFlight >>, replaced' \in BOOLEAN,
         \/ UNCHANGED pc
         \/ pc = "poll" /\ pc' = "mode"
         \/ pc = "transform" /\ pc' = "reload"
         \/ pc = "reload" /\ pc' = "draw"
  PROVE  SceneIInv'
<1>1. modelList' \in Seq(Model) /\ objectDescriptions' \in Seq(1 .. MaxLoads)
      /\ Describe(objectDescriptions', modelList')
  BY DEF SceneTypeOK
<1>2. /\ ASTypeOK' /\ GpuTypeOK'
      /\ bound'.mode = mode
      /\ RasterInv' /\ TracedInv' /\ SamplesInv'
      /\ UNCHANGED << accumulation, lastView, lastMode >>
  BY <1>1, RefreshBinds DEF SceneIInv
<1>3. SceneLoopTypeOK'
  BY <1>2 DEF SceneIInv, SceneLoopTypeOK
<1>4. ModeInv'
  BY <1>2 DEF SceneIInv, ModeInv
<1>. QED
  BY <1>2, <1>3, <1>4 DEF SceneIInv

LEMMA AddModelIInv ==
  ASSUME SceneIInv, ParseIInv', AddModel
  PROVE  SceneIInv'
<1>1. PICK file \in Files, matrix \in Matrices : LoadAdditionalModel(file, matrix)
  BY DEF AddModel
<1>2. AddModelTo(modelList, objectDescriptions, file, matrix)
      /\ UNCHANGED modelLoadPending
  BY <1>1 DEF LoadAdditionalModel
<1>3. /\ modelList' \in Seq(Model)
      /\ objectDescriptions' \in Seq(1 .. MaxLoads)
      /\ nextModel' \in 1 .. MaxLoads + 1
      /\ Describe(objectDescriptions', modelList')
  BY <1>2, AddKeepsScene DEF SceneIInv, SceneLoopTypeOK, SceneTypeOK
<1>4. SceneTypeOK'
  BY <1>2, <1>3 DEF SceneIInv, SceneLoopTypeOK, SceneTypeOK, ParseIInv
<1>5. GuiTypeOK'
  BY GuiTypeKept DEF AddModel, SceneIInv, SceneLoopTypeOK
<1>6. ReplacedInv' /\ replaced' \in BOOLEAN
  BY <1>2 DEF AddModel, SceneIInv, ReplacedInv, SceneLoopTypeOK
<1>7. /\ pc = "idle" /\ UNCHANGED << pc, rrt, inFlight, mode >>
      /\ RefreshAfterSceneChange(TRUE)
  BY DEF AddModel, guiVars
<1>. QED
  BY <1>3, <1>4, <1>5, <1>6, <1>7, RefreshIInv

LEMMA FinishModelLoadIInv ==
  ASSUME SceneIInv, ParseIInv', FinishModelLoad
  PROVE  SceneIInv'
<1>1. taken' \in Files
  BY DEF FinishModelLoad, PollInstalls, TakenSomething, ParseIInv, ParseTypeOK
<1>2. AddModelTo(modelList, objectDescriptions, taken', ConfigMatrix) /\ modelLoadPending' = FALSE
  BY DEF FinishModelLoad, PollInstalls
<1>3. PICK file : file = taken'
  OBVIOUS
<1>4. file \in Files /\ AddModelTo(modelList, objectDescriptions, file, ConfigMatrix)
  BY <1>1, <1>2, <1>3 DEF AddModelTo
<1>5. /\ modelList' \in Seq(Model)
      /\ objectDescriptions' \in Seq(1 .. MaxLoads)
      /\ nextModel' \in 1 .. MaxLoads + 1
      /\ Describe(objectDescriptions', modelList')
  BY <1>4, AddKeepsScene, SceneAssumption DEF SceneIInv, SceneLoopTypeOK, SceneTypeOK
<1>6. SceneTypeOK'
  BY <1>2, <1>5 DEF SceneTypeOK, ParseIInv
<1>7. GuiTypeOK'
  BY GuiTypeKept DEF FinishModelLoad, SceneIInv, SceneLoopTypeOK
<1>8. ReplacedInv' /\ replaced' \in BOOLEAN
  BY <1>2 DEF FinishModelLoad, Goto, SceneIInv, ReplacedInv, SceneLoopTypeOK
<1>9. pc = "poll" /\ pc' = "mode" /\ UNCHANGED << rrt, inFlight, mode >>
  BY DEF FinishModelLoad, Goto, guiVars
<1>10. RefreshAfterSceneChange(TRUE)
  BY Zenon DEF FinishModelLoad
<1>. QED
  BY <1>5, <1>6, <1>7, <1>8, <1>9, <1>10, RefreshIInv

LEMMA HandleModelTransformChangeIInv ==
  ASSUME SceneIInv, ParseIInv', HandleModelTransformChange
  PROVE  SceneIInv'
<1>. USE DEF SceneIInv
<1>1. GuiTypeOK'
  BY DEF HandleModelTransformChange, SceneLoopTypeOK, GuiTypeOK
<1>2. ReplacedInv' /\ replaced' \in BOOLEAN
  BY DEF HandleModelTransformChange, Goto, ReplacedInv, SceneLoopTypeOK
<1>3. CASE transform = Nothing
  <2>1. UNCHANGED << sceneVars, asVars, gpuVars, rrt, mode, inFlight, replaced >>
        /\ pc = "transform" /\ pc' = "reload"
    BY <1>3 DEF HandleModelTransformChange, Goto, sceneVars
  <2>2. SceneTypeOK' /\ ASTypeOK' /\ GpuTypeOK'
    BY <2>1, SceneTypeKept, ASTypeKept, GpuTypeKept DEF SceneLoopTypeOK
  <2>3. SceneLoopTypeOK'
    BY <1>1, <2>1, <2>2 DEF SceneLoopTypeOK
  <2>4. Describe(objectDescriptions, modelList)' /\ RasterInv' /\ ModeInv'
    BY <2>1 DEF RasterInv, ModeInv, sceneVars, gpuVars
  <2>5. TracedInv' /\ SamplesInv'
    BY <2>1 DEF TracedInv, SamplesInv, sceneVars, gpuVars, asVars
  <2>. QED
    BY <1>2, <2>3, <2>4, <2>5
<1>4. CASE transform # Nothing
  <2>1. /\ UpdateModelMatrix(transform, 1) /\ RefreshAfterSceneChange(FALSE)
        /\ UNCHANGED << modelLoadPending, objectDescriptions, nextModel, rrt, mode, inFlight >>
        /\ pc = "transform" /\ pc' = "reload"
    BY <1>4 DEF HandleModelTransformChange, Goto
  <2>2. PICK matrix \in Matrices : matrix = transform
    BY <1>4 DEF SceneLoopTypeOK, GuiTypeOK
  <2>3. /\ modelList' \in Seq(Model) /\ Len(modelList') = Len(modelList)
        /\ Ids(modelList') = Ids(modelList)
        /\ Describe(objectDescriptions, modelList')
    BY <2>1, <2>2, MatrixKeepsScene DEF SceneLoopTypeOK, SceneTypeOK
  <2>4. SceneTypeOK'
    BY <2>1, <2>3 DEF SceneLoopTypeOK, SceneTypeOK, ParseIInv
  <2>. QED
    BY <1>1, <1>2, <2>1, <2>3, <2>4, RefreshIInv
<1>. QED
  BY <1>3, <1>4

LEMMA HandleModelReloadRequestIInv ==
  ASSUME SceneIInv, ParseIInv', HandleModelReloadRequest
  PROVE  SceneIInv'
<1>. USE DEF SceneIInv
<1>1. GuiTypeOK'
  BY DEF HandleModelReloadRequest, SceneLoopTypeOK, GuiTypeOK
<1>2. CASE reload = Nothing
  <2>1. UNCHANGED << sceneVars, asVars, gpuVars, rrt, mode, inFlight, replaced >>
        /\ pc = "reload" /\ pc' = "draw"
    BY <1>2 DEF HandleModelReloadRequest, Goto
  <2>2. SceneTypeOK' /\ ASTypeOK' /\ GpuTypeOK'
    BY <2>1, SceneTypeKept, ASTypeKept, GpuTypeKept DEF SceneLoopTypeOK
  <2>3. SceneLoopTypeOK'
    BY <1>1, <2>1, <2>2 DEF SceneLoopTypeOK
  <2>4. Describe(objectDescriptions, modelList)' /\ RasterInv' /\ ModeInv' /\ ReplacedInv'
    BY <2>1 DEF RasterInv, ModeInv, ReplacedInv, sceneVars, gpuVars
  <2>5. TracedInv' /\ SamplesInv'
    BY <2>1 DEF TracedInv, SamplesInv, sceneVars, gpuVars, asVars
  <2>. QED
    BY <2>3, <2>4, <2>5
<1>3. CASE reload # Nothing
  <2>1. RefreshAfterSceneChange(TRUE)
    BY <1>3, Zenon DEF HandleModelReloadRequest
  <2>2. /\ ReloadModel(reload) \/ ReloadFails
        /\ replaced' = TRUE /\ UNCHANGED << rrt, mode, inFlight >>
        /\ pc = "reload" /\ pc' = "draw"
    BY <1>3 DEF HandleModelReloadRequest, Goto
  <2>3. modelLoadPending' = FALSE
    BY <2>2 DEF ReloadModel, ReloadFails, CancelPendingModelLoad, SceneLoopTypeOK, SceneTypeOK
  <2>4. << >> \in Seq(Model) /\ << >> \in Seq(1 .. MaxLoads)
    OBVIOUS
  <2>5. /\ modelList' \in Seq(Model)
        /\ objectDescriptions' \in Seq(1 .. MaxLoads)
        /\ nextModel' \in 1 .. MaxLoads + 1
        /\ Describe(objectDescriptions', modelList')
    <3>1. CASE ReloadModel(reload)
      <4>1. PICK file \in Files : file = reload
        BY <1>3 DEF SceneLoopTypeOK, GuiTypeOK
      <4>2. AddModelTo(<< >>, << >>, file, ConfigMatrix)
        BY <3>1, <4>1 DEF ReloadModel
      <4>. QED
        BY <2>4, <4>2, AddKeepsScene, EmptySceneDescribed, SceneAssumption
           DEF SceneLoopTypeOK, SceneTypeOK
    <3>2. CASE ReloadFails
      <4>1. modelList' = << >> /\ objectDescriptions' = << >> /\ UNCHANGED nextModel
        BY <3>2 DEF ReloadFails
      <4>. QED
        BY <2>4, <4>1, EmptySceneDescribed DEF SceneLoopTypeOK, SceneTypeOK
    <3>. QED
      BY <2>2, <3>1, <3>2
  <2>6. SceneTypeOK'
    BY <2>3, <2>5 DEF SceneTypeOK, ParseIInv
  <2>7. ReplacedInv'
    BY <2>2, <2>3 DEF ReplacedInv
  <2>. QED
    BY <1>1, <2>1, <2>2, <2>5, <2>6, <2>7, RefreshIInv
<1>. QED
  BY <1>2, <1>3

\* A step that only writes descriptor sets: it keeps the invariant when it writes all
\* that the sets it starts from do not have.
ObjectSets == [objects : {"current"}, textures : Seq(1 .. MaxLoads),
               tlas : {"unwritten", "current", "destroyed"}, mode : Modes]

TexturesRebound(sets) ==
  /\ bound' = [sets EXCEPT !.textures = TexturesWritten(sets.textures)]
  /\ sets.mode = bound.mode /\ sets.tlas = bound.tlas /\ UNCHANGED lastMode

AllRebound(sets) ==
  bound' = [sets EXCEPT !.textures = TexturesWritten(sets.textures),
                        !.tlas = TlasBinding(sets.tlas), !.mode = mode]

Rebinding ==
  /\ UNCHANGED << parseVars, sceneVars, asVars, guiVars >>
  /\ UNCHANGED << rrt, inFlight, replaced, descriptions, lastView, degraded >>
  /\ accumulation' \in BOOLEAN /\ samples' \in {samples, {}} /\ lastMode' \in {lastMode, mode}
  /\ pc \notin {"poll", "mode"} \/ lastMode' = mode
  /\ pc' \in {"transform", "draw", "idle"} /\ pc \notin {"start", "closed"}

LEMMA RebindIInv ==
  ASSUME SceneIInv, ParseIInv', Rebinding,
         NEW sets \in ObjectSets, TexturesRebound(sets) \/ AllRebound(sets)
  PROVE  SceneIInv'
<1>. USE DEF SceneIInv, Rebinding
<1>1. modelList \in Seq(Model) /\ UNCHANGED << modelList, objectDescriptions, modelLoadPending >>
  BY DEF SceneLoopTypeOK, SceneTypeOK, sceneVars
<1>2. Ids(modelList) \in Seq(1 .. MaxLoads)
  BY <1>1, IdsType
<1>3. UNCHANGED << blas, tlas >> /\ UNCHANGED mode
  BY DEF asVars, guiVars
<1>4. /\ bound' \in [objects : {"unwritten", "current"}, textures : Seq(1 .. MaxLoads),
                      tlas : {"unwritten", "current", "destroyed"}, mode : Modes]
      /\ bound'.objects = "current" /\ bound'.mode \in {bound.mode, mode}
      /\ modelList # << >> => bound'.textures = Ids(modelList)
      /\ rrt /\ tlas # Nothing => bound'.tlas = "current"
  <2>1. mode \in Modes /\ TexturesWritten(sets.textures) \in Seq(1 .. MaxLoads)
        /\ (modelList # << >> => TexturesWritten(sets.textures) = Ids(modelList))
    BY <1>1, <1>2 DEF TexturesWritten, SceneLoopTypeOK, GuiTypeOK, ObjectSets
  <2>2. rrt /\ tlas # Nothing => bound.tlas = "current"
    BY DEF TracedInv
  <2>3. /\ TlasBinding(sets.tlas) \in {"unwritten", "current", "destroyed"}
        /\ rrt /\ tlas # Nothing => TlasBinding(sets.tlas) = "current"
    BY <1>3 DEF TlasBinding
  <2>. QED
    BY <2>1, <2>2, <2>3 DEF ObjectSets, TexturesRebound, AllRebound
<1>5. GpuTypeOK'
  BY <1>4 DEF SceneLoopTypeOK, GpuTypeOK, GuiTypeOK
<1>6. SceneTypeOK' /\ ASTypeOK' /\ GuiTypeOK'
  BY SceneTypeKept, ASTypeKept, GuiTypeKept DEF SceneLoopTypeOK
<1>7. SceneLoopTypeOK'
  BY <1>5, <1>6 DEF SceneLoopTypeOK
<1>8. Describe(objectDescriptions, modelList)'
  BY <1>1
<1>9. RasterInv' /\ ModeInv'
  <2>1. RasterInv'
    BY <1>1, <1>4 DEF RasterInv
  <2>2. mode' = lastMode'
    BY <1>3 DEF ModeInv
  <2>3. CASE TexturesRebound(sets)
    <3>1. bound'.mode = bound.mode /\ bound.mode \in {mode, lastMode} /\ lastMode' = lastMode
      BY <2>3 DEF TexturesRebound, ObjectSets, ModeInv
    <3>. QED
      BY <1>3, <2>1, <2>2, <3>1 DEF ModeInv
  <2>4. CASE AllRebound(sets)
    <3>1. bound'.mode = mode
      BY <2>4 DEF AllRebound, ObjectSets
    <3>. QED
      BY <1>3, <2>1, <2>2, <3>1 DEF ModeInv
  <2>. QED
    BY <2>3, <2>4
<1>10. TracedInv' /\ SamplesInv'
  BY <1>1, <1>3, <1>4 DEF TracedInv, SamplesInv
<1>11. ReplacedInv'
  BY <1>1 DEF ReplacedInv
<1>. QED
  BY <1>7, <1>8, <1>9, <1>10, <1>11

\* What the sets hold already is enough to start from.
LEMMA BoundSets == SceneIInv => bound \in ObjectSets
BY DEF SceneIInv, RasterInv, SceneLoopTypeOK, GpuTypeOK, ObjectSets

LEMMA HandleRasterizationModeChangeIInv ==
  ASSUME SceneIInv, ParseIInv', HandleRasterizationModeChange
  PROVE  SceneIInv'
<1>1. CASE mode = lastMode
  <2>1. UNCHANGED << parseVars, sceneVars, asVars, guiVars, gpuVars, rrt, inFlight, replaced >>
        /\ pc = "mode" /\ pc' = "transform"
    BY <1>1 DEF HandleRasterizationModeChange, Goto, gpuVars
  <2>2. SceneLoopTypeOK'
    BY <2>1, SceneTypeKept, ASTypeKept, GuiTypeKept, GpuTypeKept DEF SceneIInv, SceneLoopTypeOK
  <2>3. Describe(objectDescriptions, modelList)' /\ RasterInv' /\ ModeInv' /\ ReplacedInv'
    BY <1>1, <2>1 DEF SceneIInv, RasterInv, ModeInv, ReplacedInv, sceneVars, gpuVars, guiVars
  <2>4. TracedInv' /\ SamplesInv'
    BY <2>1 DEF SceneIInv, TracedInv, SamplesInv, sceneVars, asVars, gpuVars
  <2>. QED
    BY <2>2, <2>3, <2>4 DEF SceneIInv
<1>2. CASE mode # lastMode
  <2>1. UpdateAllDescriptorSets(bound) /\ lastMode' = mode /\ pc = "mode" /\ pc' = "transform"
        /\ UNCHANGED << parseVars, sceneVars, asVars, guiVars >>
        /\ UNCHANGED << rrt, inFlight, replaced, descriptions, accumulation, lastView, degraded >>
    BY <1>2 DEF HandleRasterizationModeChange, Goto
  <2>2. PICK sets : sets = bound
    OBVIOUS
  <2>3. AllRebound(sets) /\ samples' \in {samples, {}}
    BY <2>1, <2>2 DEF UpdateAllDescriptorSets, UpdateRaytracing, ResetSamples, AllRebound
  <2>4. Rebinding
    BY <2>1, <2>3 DEF SceneIInv, SceneLoopTypeOK, GpuTypeOK, Rebinding
  <2>. QED
    BY <2>2, <2>3, <2>4, BoundSets, RebindIInv
<1>. QED
  BY <1>1, <1>2

LEMMA HandleShadowResolutionChangeIInv ==
  ASSUME SceneIInv, ParseIInv', HandleShadowResolutionChange
  PROVE  SceneIInv'
<1>1. PICK sets : sets = bound
  OBVIOUS
<1>2. TexturesRebound(sets)
  BY <1>1 DEF HandleShadowResolutionChange, TexturesRebound
<1>3. Rebinding
  BY DEF HandleShadowResolutionChange, SceneIInv, ModeInv, SceneLoopTypeOK, GpuTypeOK, Rebinding
<1>. QED
  BY <1>1, <1>2, <1>3, BoundSets, RebindIInv

LEMMA RecreateSwapChainIInv ==
  ASSUME SceneIInv, ParseIInv', RecreateSwapChain
  PROVE  SceneIInv'
<1>1. \E countChanged \in BOOLEAN :
        AllRebound(IF countChanged THEN ReprovisionedSets ELSE bound)
  BY Zenon DEF RecreateSwapChain, AllRebound
<1>2. PICK sets : sets \in {ReprovisionedSets, bound} /\ AllRebound(sets)
  BY <1>1, Zenon
<1>3. sets \in ObjectSets
  <2>1. << >> \in Seq(1 .. MaxLoads)
    OBVIOUS
  <2>2. mode \in Modes
    BY DEF SceneIInv, SceneLoopTypeOK, GuiTypeOK
  <2>3. ReprovisionedSets \in ObjectSets
    BY <2>1, <2>2 DEF ReprovisionedSets, ObjectSets
  <2>. QED
    BY <1>2, <2>3, BoundSets
<1>4. Rebinding
  BY DEF RecreateSwapChain, Goto, UpdateRaytracing, ResetSamples, Rebinding
<1>. QED
  BY <1>2, <1>3, <1>4, RebindIInv

-----------------------------------------------------------------------------
(***************************************************************************)
(* The theorems.                                                           *)
(***************************************************************************)

LEMMA SceneUnchangedIInv ==
  ASSUME SceneIInv, ParseIInv', UNCHANGED allVars
  PROVE  SceneIInv'
<1>1. UNCHANGED << sceneVars, asVars, guiVars, gpuVars, pc, rrt, inFlight, replaced >>
  BY DEF allVars
<1>2. SceneLoopTypeOK'
  BY <1>1, SceneTypeKept, ASTypeKept, GuiTypeKept, GpuTypeKept DEF SceneIInv, SceneLoopTypeOK
<1>3. Describe(objectDescriptions, modelList)' /\ RasterInv' /\ ModeInv' /\ ReplacedInv'
  BY <1>1 DEF SceneIInv, RasterInv, ModeInv, ReplacedInv, sceneVars, gpuVars, guiVars
<1>4. TracedInv' /\ SamplesInv'
  BY <1>1 DEF SceneIInv, TracedInv, SamplesInv, sceneVars, asVars, gpuVars
<1>. QED
  BY <1>2, <1>3, <1>4 DEF SceneIInv

LEMMA NextSceneIInv ==
  ASSUME SceneIInv, ParseIInv', [SceneLoopNext]_allVars
  PROVE  SceneIInv'
BY ConstructRendererIInv, UserInputIInv, ParseInBackgroundIInv, AddModelIInv, PollNothingIInv,
   FinishModelLoadIInv, ModelLoadFailsIInv, HandleRasterizationModeChangeIInv,
   HandleShadowResolutionChangeIInv, HandleModelTransformChangeIInv,
   HandleModelReloadRequestIInv, DrawFrameIInv, RecreateSwapChainIInv, CloseWindowIInv,
   GpuCompletesIInv, SceneUnchangedIInv DEF SceneLoopNext

\* The scene, its descriptions, the descriptor sets, the acceleration structures and
\* the path tracer's samples fit together, and the parse does its part.
THEOREM SceneInductive == SceneLoopSpec => [](ParseIInv /\ SceneIInv)
<1>1. SceneLoopSpec => []ParseIInv
  BY SceneLoopParses, ParseInductive, PTL
<1>2. SceneIInv /\ ParseIInv' /\ [SceneLoopNext]_allVars => SceneIInv'
  BY NextSceneIInv
<1>. QED
  BY <1>1, <1>2, SceneInitIInv, PTL DEF SceneLoopSpec

\* Every raster frame reads what the scene holds, whatever handlers and uploads
\* came before and however they ended.
THEOREM FramesDrawTheScene == SceneLoopSpec => []DrawnSceneIsBound
<1>1. SceneIInv => DrawnSceneIsBound
  <2>. SUFFICES ASSUME SceneIInv, pc = "draw"
                PROVE  /\ bound.objects = "current"
                       /\ bound.mode = mode
                       /\ \A i \in DOMAIN modelList : modelList[i].file \in Files
                       /\ modelList # << >> =>
                            /\ bound.textures = Ids(modelList)
                            /\ ~degraded => descriptions = objectDescriptions
                            /\ Len(objectDescriptions) =
                                 MeshBaseOffset(modelList, Len(modelList))
                                   + MeshCount(modelList[Len(modelList)].file)
    BY DEF DrawnSceneIsBound
  <2>1. modelList \in Seq(Model)
    BY DEF SceneIInv, SceneLoopTypeOK, SceneTypeOK
  <2>2. ASSUME NEW i \in DOMAIN modelList PROVE modelList[i].file \in Files
    <3>1. modelList[i] \in Model
      BY <2>1
    <3>. QED
      BY <3>1 DEF Model
  <2>3. ASSUME modelList # << >>
        PROVE  Len(objectDescriptions) = MeshBaseOffset(modelList, Len(modelList))
                                           + MeshCount(modelList[Len(modelList)].file)
    <3>1. Len(modelList) \in Nat /\ Len(modelList) \in 1 .. Len(modelList)
      BY <2>1, <2>3
    <3>2. MeshBaseOffset(modelList, Len(modelList) + 1)
            = MeshBaseOffset(modelList, Len(modelList)) + MeshCount(modelList[Len(modelList)].file)
      BY <3>1, MeshBaseOffsets
    <3>. QED
      BY <3>2 DEF SceneIInv, Describe
  <2>. QED
    BY <2>2, <2>3 DEF SceneIInv, RasterInv, ModeInv
<1>. QED
  BY <1>1, SceneInductive, PTL

\* No frame is traced through a top level that was destroyed.
THEOREM NoStaleTlasIsBound == SceneLoopSpec => []TracedTlasIsBound
<1>1. SceneIInv => TracedTlasIsBound
  BY DEF SceneIInv, TracedInv, TracedTlasIsBound
<1>. QED
  BY <1>1, SceneInductive, PTL

\* The traced frames show the models of the scene, each mesh with its own object
\* description, however many meshes the files have.
THEOREM TracersShowTheScene == SceneLoopSpec => []TracedSceneIsDrawn
<1>1. SceneIInv => TracedSceneIsDrawn
  <2>. SUFFICES ASSUME SceneIInv, pc = "draw", rrt, tlas # Nothing, modelList # << >>, ~degraded
                PROVE  /\ tlas.built /\ tlas.blasExist
                       /\ Len(tlas.instances) = Len(modelList)
                       /\ \A i \in DOMAIN modelList :
                            /\ tlas.instances[i].model = modelList[i].id
                            /\ tlas.instances[i].matrix = modelList[i].matrix
                            /\ \A k \in 1 .. MeshCount(modelList[i].file) :
                                 objectDescriptions[tlas.instances[i].first + k] = modelList[i].id
    BY DEF TracedSceneIsDrawn
  <2>1. modelList \in Seq(Model) /\ DOMAIN modelList = 1 .. Len(modelList) /\ Len(modelList) \in Nat
    BY DEF SceneIInv, SceneLoopTypeOK, SceneTypeOK
  <2>2. /\ tlas.built /\ tlas.blasExist
        /\ tlas.instances = Instances(modelList, Ids(modelList))
    BY DEF SceneIInv, TracedInv
  <2>3. Len(Instances(modelList, Ids(modelList))) = Len(modelList)
    BY <2>1 DEF Instances
  <2>4. ASSUME NEW i \in DOMAIN modelList
        PROVE  /\ Instances(modelList, Ids(modelList))[i].model = modelList[i].id
               /\ Instances(modelList, Ids(modelList))[i].matrix = modelList[i].matrix
               /\ Instances(modelList, Ids(modelList))[i].first = MeshBaseOffset(modelList, i)
    BY <2>4 DEF Instances, Ids
  <2>5. \A i \in DOMAIN modelList :
          \A k \in 1 .. MeshCount(modelList[i].file) :
            objectDescriptions[MeshBaseOffset(modelList, i) + k] = modelList[i].id
    BY DEF SceneIInv, Describe
  <2>. QED
    BY <2>2, <2>3, <2>4, <2>5
<1>. QED
  BY <1>1, SceneInductive, PTL

\* The path tracer's running mean is of one view and one scene.
THEOREM MeanIsOfOneScene == SceneLoopSpec => []MeanOfOneScene
<1>1. SceneIInv => MeanOfOneScene
  BY DEF SceneIInv, SamplesInv, MeanOfOneScene
<1>. QED
  BY <1>1, SceneInductive, PTL

\* Nothing that a submitted frame may read is destroyed or rewritten before the
\* GPU is done with it.
THEOREM IdleWhenRewritten == SceneLoopSpec => RewrittenWhileIdle
<1>. DEFINE rewritten == << bound, descriptions, asVars, accumulation >>
<1>1. ASSUME SceneLoopNext, inFlight PROVE UNCHANGED rewritten
  <2>1. CASE ConstructRenderer \/ UserInput \/ ParseInBackground \/ PollNothing \/ ModelLoadFails
               \/ GpuCompletes
    BY <2>1 DEF ConstructRenderer, UserInput, ParseInBackground, PollNothing, ModelLoadFails,
                GpuCompletes, gpuVars
  <2>2. CASE AddModel \/ FinishModelLoad \/ HandleShadowResolutionChange \/ RecreateSwapChain
               \/ CloseWindow
    BY <1>1, <2>2, Zenon
       DEF AddModel, FinishModelLoad, HandleShadowResolutionChange, RecreateSwapChain, CloseWindow,
           DeviceIdle, UploadWaited
  <2>3. CASE HandleRasterizationModeChange
    BY <1>1, <2>3 DEF HandleRasterizationModeChange, DeviceIdle
  <2>4. CASE HandleModelTransformChange
    BY <1>1, <2>4 DEF HandleModelTransformChange, DeviceIdle, gpuVars
  <2>5. CASE HandleModelReloadRequest
    BY <1>1, <2>5 DEF HandleModelReloadRequest, DeviceIdle, gpuVars
  <2>6. CASE DrawFrame
    BY <2>6 DEF DrawFrame
  <2>. QED
    BY <1>1, <2>1, <2>2, <2>3, <2>4, <2>5, <2>6 DEF SceneLoopNext
<1>2. [SceneLoopNext]_allVars => [rewritten' # rewritten => ~inFlight]_allVars
  BY <1>1
<1>. QED
  BY <1>2, PTL DEF SceneLoopSpec, RewrittenWhileIdle

\* After a reload no parse that was started before it changes the scene.
THEOREM ReloadCancelsStartupLoad == SceneLoopSpec => StartupLoadIsCancelled
<1>. DEFINE Cancelled == replaced /\ pc = "poll" => modelList' = modelList
<1>1. SceneIInv /\ [SceneLoopNext]_allVars => [Cancelled]_allVars
  <2>. SUFFICES ASSUME SceneIInv, SceneLoopNext, replaced, pc = "poll"
                PROVE  modelList' = modelList
    OBVIOUS
  <2>1. ~modelLoadPending
    BY DEF SceneIInv, ReplacedInv
  <2>2. ~(ConstructRenderer \/ UserInput \/ AddModel \/ HandleRasterizationModeChange
           \/ HandleShadowResolutionChange \/ CloseWindow)
    BY Zenon
       DEF ConstructRenderer, UserInput, AddModel, HandleRasterizationModeChange,
           HandleShadowResolutionChange, CloseWindow, Goto
  <2>3. ~(HandleModelTransformChange \/ HandleModelReloadRequest \/ DrawFrame \/ RecreateSwapChain)
    BY Zenon
       DEF HandleModelTransformChange, HandleModelReloadRequest, DrawFrame, RecreateSwapChain, Goto
  <2>4. ~(FinishModelLoad \/ ModelLoadFails)
    BY <2>1, Zenon DEF FinishModelLoad, PollInstalls, ModelLoadFails, PollFails, LoadNotReady
  <2>5. PollNothing \/ ParseInBackground \/ GpuCompletes => modelList' = modelList
    BY Zenon DEF PollNothing, ParseInBackground, GpuCompletes, sceneVars
  <2>. QED
    BY <2>2, <2>3, <2>4, <2>5, Zenon DEF SceneLoopNext
<1>. QED
  BY <1>1, SceneInductive, PTL DEF SceneLoopSpec, StartupLoadIsCancelled

=============================================================================

----------------------------- MODULE ASManager -----------------------------
(***************************************************************************)
(* Acceleration structures for ray and path tracing                        *)
(* (renderer/accelerationStructures/ASManager.cpp): a bottom level per     *)
(* model and a top level of one instance per model, rebuilt when the scene *)
(* changes.  `failure` names the Vulkan call that fails, if one does.      *)
(***************************************************************************)
EXTENDS Scene

VARIABLES
  blas,     \* the model whose geometry each bottom level was built from
  tlas,     \* the top level, or Nothing while getTLAS() is null
  asDevice  \* vulkanDevice is set

asVars == << blas, tlas, asDevice >>

\* first: instanceCustomIndex, the flat index of the model's first mesh.
Instance == [model : 1 .. MaxLoads, matrix : Matrices, first : Nat]

\* blasExist: the bottom levels it refers to were not destroyed since.
TopLevel == [instances : Seq(Instance), blasExist : BOOLEAN, built : BOOLEAN]

ASTypeOK ==
  /\ blas \in Seq(1 .. MaxLoads)
  /\ tlas \in TopLevel \cup {Nothing}
  /\ asDevice \in BOOLEAN

ASInit == blas = << >> /\ tlas = Nothing /\ asDevice = FALSE

-----------------------------------------------------------------------------

\* meshBaseOffsets(): the meshes of the models before the i-th.
MeshBaseOffset(models, i) ==
  LET before[k \in 0 .. Len(models)] ==
        IF k = 0 THEN 0 ELSE before[k - 1] + MeshCount(models[k].file)
  IN  before[i - 1]

\* Faulty variant: the instance is numbered by its model, not by its meshes.
InstancesByModel(models, bottom) ==
  [i \in DOMAIN models |->
     [model |-> bottom[i], matrix |-> models[i].matrix, first |-> i - 1]]

\* The instances createTLAS() uploads: the i-th bottom level for the i-th model.
Instances(models, bottom) ==
  [i \in DOMAIN models |->
     [model |-> bottom[i], matrix |-> models[i].matrix, first |-> MeshBaseOffset(models, i)]]

\* createTLAS() keeps the old top level when bottom levels are missing, has none
\* when a call before its creation fails, and an unbuilt one when the submit does.
CreateTLAS(models, failure) ==
  IF Len(blas') < Len(models) THEN UNCHANGED tlas
  ELSE tlas' = IF failure = "tlasBegin" THEN Nothing
               ELSE [instances |-> Instances(models, blas'), blasExist |-> TRUE,
                     built |-> failure # "tlasSubmit"]

\* createBLAS() failed after it destroyed the bottom levels it was to replace.
BlasFails ==
  /\ blas' = << >>
  /\ tlas' = IF tlas = Nothing THEN Nothing ELSE [tlas EXCEPT !.blasExist = FALSE]

\* createASForScene(): an empty scene changes nothing.
CreateASForScene(models, failure) ==
  /\ asDevice' = TRUE
  /\ IF models = << >> THEN UNCHANGED << blas, tlas >>
     ELSE IF failure = "blas" THEN BlasFails
     ELSE blas' = Ids(models) /\ CreateTLAS(models, failure)

\* cleanUp() returns early when createASForScene() never ran.
CleanUpAS ==
  IF asDevice THEN blas' = << >> /\ tlas' = Nothing /\ asDevice' = FALSE
              ELSE UNCHANGED asVars

=============================================================================

----------------------------- MODULE MeshRanges -----------------------------
(***************************************************************************)
(* From the faces of a model file to the meshes that are drawn.  A loader  *)
(* parses every shape (scene/ObjLoader.cpp) or primitive                   *)
(* (scene/GltfLoader.cpp) into flat arrays of vertices, indices and        *)
(* material ids and records its MeshRange; after adoptParsed() has moved   *)
(* the arrays to the loader that owns the device, uploadParsed() slices    *)
(* each range into a mesh with indices of its own (scene/MeshRange.ixx).   *)
(*                                                                         *)
(* A vertex is the corner of the document it came from and the origin of   *)
(* its normal and tangent (scene/Vertex.cpp).  indices holds triangles,    *)
(* the three entries of the code's array that start at a multiple of 3;    *)
(* vertices count from 0 as in the code.                                   *)
(***************************************************************************)
EXTENDS Integers, FiniteSets, Sequences

CONSTANTS
  Corners,     \* the corners an OBJ document names: position, uv and colour
  MaxParts,    \* bound on the shapes or primitives of a document
  MaxFaces,    \* bound on the faces of an OBJ document
  MaxVertices, \* bound on the vertices of a glTF primitive
  MaxIndices,  \* bound on the length of its index accessor
  MaxDetail,   \* bound on the vertices, indices and, each for two, traits of a glTF document
  Bad,         \* a face with an index out of range
  None         \* no index accessor, no material

ASSUME MeshRangesAssumption ==
  /\ MaxParts \in Nat /\ MaxFaces \in Nat /\ MaxVertices \in Nat
  /\ MaxIndices \in Nat /\ MaxDetail \in Nat

VARIABLES
  phase,         \* "idle", "parsing", in an open "part", "parsed", "uploaded"
  format,        \* "obj" or "gltf"
  vertices, indices, materialIndex, meshRanges,  \* the loader's arrays
  part,          \* the open shape or primitive
  document,      \* history: the parts read, with all their faces
  meshes         \* Model::meshes

arrays == << vertices, indices, materialIndex, meshRanges >>
vars == << phase, format, arrays, part, document, meshes >>

NoPart == [vertexBase |-> 0, indexStart |-> 0, triStart |-> 0, step |-> 0]

\* The neutral material behind the one material of a glTF document.
fallbackMaterial == 1

Init ==
  /\ phase = "idle" /\ format = "obj"
  /\ vertices = <<>> /\ indices = <<>> /\ materialIndex = <<>> /\ meshRanges = <<>>
  /\ part = NoPart /\ document = <<>> /\ meshes = <<>>

parseCpu(f) ==
  /\ phase \in {"idle", "uploaded"}
  /\ phase' = "parsing" /\ format' = f
  /\ vertices' = <<>> /\ indices' = <<>> /\ materialIndex' = <<>> /\ meshRanges' = <<>>
  /\ part' = NoPart /\ document' = <<>> /\ meshes' = <<>>

\* Where a part opened now begins.
Here == [vertexBase |-> Len(vertices), indexStart |-> Len(indices),
         triStart |-> Len(materialIndex), step |-> 0]

(***************************************************************************)
(* Vertex.cpp.  A triangle whose corners are not all different has no area *)
(* and no face normal.                                                     *)
(***************************************************************************)
Positions(vs, tri) == { vs[tri[c] + 1].corner : c \in 1 .. 3 }
HasArea(vs, tri) == Cardinality(Positions(vs, tri)) = 3
CornersOf(tri) == { tri[c] : c \in 1 .. 3 }

\* The vertices of the triangles from `first` on, with area or of any shape.
Flattened(vs, tris, first) ==
  UNION { CornersOf(tris[t]) : t \in { u \in first + 1 .. Len(tris) : HasArea(vs, tris[u]) } }
Referenced(tris, first) == UNION { CornersOf(tris[t]) : t \in first + 1 .. Len(tris) }

computeFlatNormals(vs, tris, first) ==
  [v \in DOMAIN vs |-> IF v - 1 \in Flattened(vs, tris, first)
                       THEN [vs[v] EXCEPT !.normal = "flat"] ELSE vs[v]]

fillMissingFlatNormals(vs, tris) ==
  [v \in DOMAIN vs |-> IF vs[v].normal = "zero" /\ v - 1 \in Flattened(vs, tris, 0)
                       THEN [vs[v] EXCEPT !.normal = "flat"] ELSE vs[v]]

\* The fallback for a zero normal is the normalized zero vector, a NaN.
TangentOf(v) == IF v.normal = "zero" THEN "NaN" ELSE "computed"

\* Faulty variant: the triangles of earlier primitives are visited again.
computeTangentsOfAll(vs, tris, first) ==
  [v \in DOMAIN vs |-> IF v - 1 \in Referenced(tris, 0)
                       THEN [vs[v] EXCEPT !.tangent = TangentOf(vs[v])] ELSE vs[v]]

computeTangents(vs, tris, first) ==
  [v \in DOMAIN vs |-> IF v - 1 \in Referenced(tris, first)
                       THEN [vs[v] EXCEPT !.tangent = TangentOf(vs[v])] ELSE vs[v]]

(***************************************************************************)
(* OBJ: a face is three corners with or without normals and a material or  *)
(* none; a bad one has an index the file has no vertex for.                *)
(***************************************************************************)
Faces == [corners : [1 .. 3 -> Corners], normals : BOOLEAN, material : {1, None}]

\* What the parts read so far add up to.
Total(Size(_)) ==
  LET Sum[p \in 0 .. Len(document)] == IF p = 0 THEN 0 ELSE Sum[p - 1] + Size(document[p])
  IN  Sum[Len(document)]

FaceCount == Total(LAMBDA p : Len(p.faces))

BeginShape ==
  /\ phase = "parsing" /\ format = "obj" /\ Len(document) < MaxParts
  /\ phase' = "part"
  /\ part' = Here
  /\ document' = Append(document, [faces |-> <<>>])
  /\ UNCHANGED << format, arrays, meshes >>

ObjVertex(face, c) ==
  [corner |-> face.corners[c], normal |-> IF face.normals THEN "authored" ELSE "zero", tangent |-> "none"]

\* Faulty variant: the map of known vertices outlives the shape.
KnownOfAll(vs, vertex) == { v \in 0 .. Len(vs) - 1 : vs[v + 1] = vertex }

\* vertices_map: the vertices this shape already has.
Known(vs, vertex) == { v \in part.vertexBase .. Len(vs) - 1 : vs[v + 1] = vertex }

\* vertices_map.try_emplace().
Emplaced(vs, vertex) == IF Known(vs, vertex) = {} THEN Append(vs, vertex) ELSE vs
IndexOf(vs, vertex) == CHOOSE v \in Known(vs, vertex) : TRUE

\* One face: dropped as a whole, or its three corners looked up or appended.
ReadFace(face) ==
  /\ phase = "part" /\ format = "obj" /\ FaceCount < MaxFaces
  /\ document' = [document EXCEPT ![Len(document)].faces = Append(@, face)]
  /\ IF face = Bad
     THEN UNCHANGED << vertices, indices, materialIndex >>
     ELSE LET v1 == Emplaced(vertices, ObjVertex(face, 1))
              v2 == Emplaced(v1, ObjVertex(face, 2))
              v3 == Emplaced(v2, ObjVertex(face, 3))
          IN  /\ vertices' = v3
              /\ indices' = Append(indices, [c \in 1 .. 3 |-> IndexOf(v3, ObjVertex(face, c))])
              /\ materialIndex' = Append(materialIndex, IF face.material = None THEN 0 ELSE face.material)
  /\ UNCHANGED << phase, format, meshRanges, part, meshes >>

\* The slice of the arrays the open part covers once its material ids end at
\* triEnd.
PartRange(triEnd, doubleSided) ==
  [vertexBase |-> part.vertexBase, vertexCount |-> Len(vertices) - part.vertexBase,
   indexStart |-> part.indexStart, indexCount |-> Len(indices) - part.indexStart,
   triStart   |-> part.triStart,   triCount   |-> triEnd - part.triStart,
   doubleSided |-> doubleSided]

\* A shape whose every face was dropped gets no range.
EndShape ==
  /\ phase = "part" /\ format = "obj"
  /\ phase' = "parsing"
  /\ meshRanges' = IF Len(vertices) > part.vertexBase
                   THEN Append(meshRanges, PartRange(Len(materialIndex), FALSE))
                   ELSE meshRanges
  /\ part' = NoPart
  /\ UNCHANGED << format, vertices, indices, materialIndex, document, meshes >>

\* Normals are completed, then tangents computed, over the whole document.
ObjParsed ==
  /\ phase = "parsing" /\ format = "obj"
  /\ phase' = "parsed"
  /\ vertices' = computeTangents(fillMissingFlatNormals(vertices, indices), indices, 0)
  /\ UNCHANGED << format, indices, materialIndex, meshRanges, part, document, meshes >>

(***************************************************************************)
(* glTF: a primitive is a mode, its vertices, an index accessor or none,   *)
(* the attributes it brings and its material or none.                      *)
(***************************************************************************)
Modes == {"triangles", "strip", "fan", "points"}

\* What a primitive has beyond positions and indices.
Traits == {"normals", "tangents", "mirrored", "material", "doubleSided"}

Weight(vertexCount, traits) == vertexCount + 2 * Cardinality(traits)

Detail ==
  Total(LAMBDA p : Weight(p.vertexCount, p.traits) + IF p.indices = None THEN 0 ELSE Len(p.indices))

\* A primitive that is skipped may as well have no indices.
Skips(mode, vertexCount) == mode = "points" \/ vertexCount = 0

IndexAccessors(mode, vertexCount, most) ==
  {None} \cup IF Skips(mode, vertexCount) THEN {}
              ELSE UNION { [1 .. k -> 0 .. vertexCount] : k \in { n \in 0 .. MaxIndices : n <= most } }

primitive == document[Len(document)]

\* A material is double-sided only if there is one.
HasMaterial(p) == p.traits \cap {"material", "doubleSided"} # {}

\* Vertex i of the open primitive in world space.
GltfVertex(p, i) ==
  [corner  |-> << Len(document) + 1, i >>,
   normal  |-> IF "normals" \in p.traits THEN "authored" ELSE "placeholder",
   tangent |-> IF "tangents" \in p.traits THEN "authored" ELSE "none"]

\* Points and lines and a primitive without positions are skipped.
BeginPrimitive(mode, vertexCount, traits) ==
  /\ phase = "parsing" /\ format = "gltf" /\ Len(document) < MaxParts
  /\ Detail + Weight(vertexCount, traits) <= MaxDetail
  /\ \E accessor \in IndexAccessors(mode, vertexCount, MaxDetail - Detail - Weight(vertexCount, traits)) :
       LET p == [mode |-> mode, vertexCount |-> vertexCount, indices |-> accessor, traits |-> traits]
       IN  /\ document' = Append(document, p)
           /\ IF Skips(mode, vertexCount)
              THEN UNCHANGED << phase, vertices, part >>
              ELSE /\ phase' = "part"
                   /\ part' = Here
                   /\ vertices' = vertices \o [i \in 1 .. vertexCount |-> GltfVertex(p, i - 1)]
  /\ UNCHANGED << format, indices, materialIndex, meshRanges, meshes >>

localSeq(p) == IF p.indices = None THEN [i \in 1 .. p.vertexCount |-> i - 1] ELSE p.indices

StepCount(p) ==
  LET n == Len(localSeq(p))
  IN  IF p.mode = "triangles" THEN n \div 3 ELSE IF n < 2 THEN 0 ELSE n - 2

\* The winding alternates along a strip, the first vertex is shared by a fan.
StripTriangle(seq, i) ==
  IF i % 2 = 0 THEN << seq[i + 1], seq[i + 2], seq[i + 3] >>
               ELSE << seq[i + 2], seq[i + 1], seq[i + 3] >>

StepTriangle(p, i) ==
  LET seq == localSeq(p)
  IN  CASE p.mode = "strip"     -> StripTriangle(seq, i)
        [] p.mode = "fan"       -> << seq[1], seq[i + 2], seq[i + 3] >>
        [] p.mode = "triangles" -> << seq[3 * i + 1], seq[3 * i + 2], seq[3 * i + 3] >>

\* The order in which a mirrored triangle takes its corners.
Turned == << 1, 3, 2 >>

\* emitTri(): drops a triangle with an index out of range, turns a mirrored one.
EmitTriangle ==
  /\ phase = "part" /\ format = "gltf" /\ part.step < StepCount(primitive)
  /\ part' = [part EXCEPT !.step = @ + 1]
  /\ LET tri  == StepTriangle(primitive, part.step)
         base == part.vertexBase
     IN  indices' = IF \E c \in 1 .. 3 : tri[c] >= primitive.vertexCount THEN indices
                    ELSE Append(indices, [c \in 1 .. 3 |->
                           base + IF "mirrored" \in primitive.traits THEN tri[Turned[c]] ELSE tri[c]])
  /\ UNCHANGED << phase, format, vertices, materialIndex, meshRanges, document, meshes >>

\* One material id per emitted triangle.
emittedTriangles == Len(indices) - part.indexStart

\* Flat normals and tangents where the primitive brings none, then its
\* material ids and its range.
EndPrimitive ==
  /\ phase = "part" /\ format = "gltf" /\ part.step = StepCount(primitive)
  /\ phase' = "parsing"
  /\ LET flat == IF "normals" \in primitive.traits THEN vertices
                 ELSE computeFlatNormals(vertices, indices, part.indexStart)
     IN  vertices' = IF "tangents" \in primitive.traits THEN flat
                     ELSE computeTangents(flat, indices, part.indexStart)
  /\ LET id == IF HasMaterial(primitive) THEN 0 ELSE fallbackMaterial
     IN  materialIndex' = materialIndex \o [t \in 1 .. emittedTriangles |-> id]
  /\ meshRanges' = Append(meshRanges,
                          PartRange(Len(materialIndex'), "doubleSided" \in primitive.traits))
  /\ part' = NoPart
  /\ UNCHANGED << format, indices, document, meshes >>

GltfParsed ==
  /\ phase = "parsing" /\ format = "gltf"
  /\ phase' = IF vertices = <<>> THEN "idle" ELSE "parsed"
  /\ UNCHANGED << format, arrays, part, document, meshes >>

(***************************************************************************)
(* The device thread: adoptParsed(), then one mesh per range.              *)
(***************************************************************************)
Parsed == [vertices |-> vertices, indices |-> indices,
           materialIndex |-> materialIndex, meshRanges |-> meshRanges]

\* Faulty variant: one field is forgotten.
adoptWithoutRanges(parsed) == [parsed EXCEPT !.meshRanges = <<>>]

adoptParsed(parsed) == parsed

FitsIn(range, own) ==
  /\ range.vertexBase + range.vertexCount <= Len(own.vertices)
  /\ range.indexStart + range.indexCount <= Len(own.indices)
  /\ range.triStart + range.triCount <= Len(own.materialIndex)

\* A range that does not fit yields an empty mesh.
sliceMeshRange(range, own) ==
  IF ~FitsIn(range, own)
  THEN [vertices |-> <<>>, indices |-> <<>>, materialIndex |-> <<>>, doubleSided |-> range.doubleSided]
  ELSE [vertices |-> SubSeq(own.vertices, range.vertexBase + 1, range.vertexBase + range.vertexCount),
        indices  |-> [t \in 1 .. range.indexCount |->
                        [c \in 1 .. 3 |-> own.indices[range.indexStart + t][c] - range.vertexBase]],
        materialIndex |-> SubSeq(own.materialIndex, range.triStart + 1, range.triStart + range.triCount),
        doubleSided |-> range.doubleSided]

\* addMeshesForRanges(): everything is one mesh if there are no ranges.
MeshesForRanges(own) ==
  IF own.meshRanges = <<>>
  THEN << [vertices |-> own.vertices, indices |-> own.indices,
           materialIndex |-> own.materialIndex, doubleSided |-> FALSE] >>
  ELSE [r \in DOMAIN own.meshRanges |-> sliceMeshRange(own.meshRanges[r], own)]

\* Nothing is uploaded from a parse without vertices.
uploadParsed ==
  /\ phase = "parsed"
  /\ IF vertices = <<>>
     THEN phase' = "idle" /\ UNCHANGED meshes
     ELSE phase' = "uploaded" /\ meshes' = MeshesForRanges(adoptParsed(Parsed))
  /\ UNCHANGED << format, arrays, part, document >>

Next ==
  \/ \E f \in {"obj", "gltf"} : parseCpu(f)
  \/ BeginShape
  \/ \E face \in Faces \cup {Bad} : ReadFace(face)
  \/ EndShape
  \/ ObjParsed
  \/ \E mode \in Modes, vertexCount \in 0 .. MaxVertices, traits \in SUBSET Traits :
       BeginPrimitive(mode, vertexCount, traits)
  \/ EmitTriangle
  \/ EndPrimitive
  \/ GltfParsed
  \/ uploadParsed

Spec == Init /\ [][Next]_vars

(***************************************************************************)
(* Properties.                                                             *)
(***************************************************************************)
\* Where range r ends in each array; range 0 is before the first.
VertexEnd(r) == IF r = 0 THEN 0 ELSE meshRanges[r].vertexBase + meshRanges[r].vertexCount
IndexEnd(r)  == IF r = 0 THEN 0 ELSE meshRanges[r].indexStart + meshRanges[r].indexCount
TriEnd(r)    == IF r = 0 THEN 0 ELSE meshRanges[r].triStart + meshRanges[r].triCount

\* Range r starts where the one before ends, fits in the arrays, has one
\* material id per triangle, and its triangles use no vertex outside it.
RangeTiles(r) ==
  /\ FitsIn(meshRanges[r], Parsed)
  /\ meshRanges[r].vertexBase = VertexEnd(r - 1)
  /\ meshRanges[r].indexStart = IndexEnd(r - 1)
  /\ meshRanges[r].triStart = TriEnd(r - 1)
  /\ meshRanges[r].indexCount = meshRanges[r].triCount
  /\ \A t \in meshRanges[r].indexStart + 1 .. IndexEnd(r), c \in 1 .. 3 :
       indices[t][c] \in meshRanges[r].vertexBase .. VertexEnd(r) - 1

\* The ranges cover the arrays to their ends.
RangesCover ==
  /\ Len(vertices) = VertexEnd(Len(meshRanges))
  /\ Len(indices) = IndexEnd(Len(meshRanges))
  /\ Len(materialIndex) = TriEnd(Len(meshRanges))

\* The ranges tile the arrays, without gap or overlap and to their ends
\* whenever no part is open, and no range reaches into another
\* (docs/source/model-loading.md, "Invariants worth preserving"), so that
\* sliceMeshRange() never has to refuse one.
RangesTile ==
  /\ \A r \in DOMAIN meshRanges : RangeTiles(r)
  /\ phase # "part" => RangesCover

(***************************************************************************)
(* The inductive invariant behind RangesTile: the types, where the ranges  *)
(* end in the arrays, and what holds of the part that is open.             *)
(***************************************************************************)
Vertex ==
  [corner : Corners \cup (Nat \X Nat), normal : {"authored", "flat", "placeholder", "zero"},
   tangent : {"authored", "computed", "NaN", "none"}]

MeshRange ==
  [vertexBase : Nat, vertexCount : Nat, indexStart : Nat, indexCount : Nat,
   triStart : Nat, triCount : Nat, doubleSided : BOOLEAN]

Shape     == [faces : Seq(Faces \cup {Bad})]
Primitive == [mode : Modes, vertexCount : Nat, indices : {None} \cup Seq(Nat), traits : SUBSET Traits]

TypeOK ==
  /\ phase \in {"idle", "parsing", "part", "parsed", "uploaded"}
  /\ format \in {"obj", "gltf"}
  /\ vertices \in Seq(Vertex)
  /\ indices \in Seq([1 .. 3 -> Nat])
  /\ materialIndex \in Seq(Nat)
  /\ meshRanges \in Seq(MeshRange)
  /\ part \in [vertexBase : Nat, indexStart : Nat, triStart : Nat, step : Nat]
  /\ format = "obj" => document \in Seq(Shape)
  /\ format = "gltf" => document \in Seq(Primitive)

\* The open part starts where the last range ends and keeps to its vertices.
OpenPart ==
  /\ part.vertexBase = VertexEnd(Len(meshRanges)) /\ part.vertexBase <= Len(vertices)
  /\ part.indexStart = IndexEnd(Len(meshRanges)) /\ part.indexStart <= Len(indices)
  /\ part.triStart = TriEnd(Len(meshRanges)) /\ part.triStart <= Len(materialIndex)
  /\ \A t \in part.indexStart + 1 .. Len(indices), c \in 1 .. 3 :
       indices[t][c] \in part.vertexBase .. Len(vertices) - 1

\* A shape has a material id per triangle and, without vertices, no triangle.
OpenShape ==
  /\ Len(materialIndex) - part.triStart = Len(indices) - part.indexStart
  /\ Len(vertices) = part.vertexBase => Len(indices) = part.indexStart

\* A primitive that is not skipped has all its vertices and no material id yet.
OpenPrimitive ==
  /\ ~Skips(primitive.mode, primitive.vertexCount)
  /\ Len(materialIndex) = part.triStart
  /\ Len(vertices) = part.vertexBase + primitive.vertexCount

IInv ==
  /\ TypeOK
  /\ RangesTile
  /\ phase = "part" =>
       /\ document # <<>>
       /\ OpenPart
       /\ format = "obj" => OpenShape
       /\ format = "gltf" => OpenPrimitive

\* The entries of seq that are in S, in order.
Kept(seq, S) ==
  LET kept[n \in 0 .. Len(seq)] ==
        IF n = 0 THEN <<>>
        ELSE IF seq[n] \in S THEN Append(kept[n - 1], seq[n]) ELSE kept[n - 1]
  IN  kept[Len(seq)]

\* What the document says: the corners and materials of a part's triangles in
\* order.  glTF 2.0 numbers strip triangle i as (i, i+1+i%2, i+2-i%2) and fan
\* triangle i as (i+1, i+2, 0); a mirrored node turns the front face.
AuthoredTriangle(number, p, i) ==
  LET seq == localSeq(p)
      pos == CASE p.mode = "strip"     -> << i, i + 1 + (i % 2), i + 2 - (i % 2) >>
               [] p.mode = "fan"       -> << i + 1, i + 2, 0 >>
               [] p.mode = "triangles" -> << 3 * i, 3 * i + 1, 3 * i + 2 >>
  IN  [c \in 1 .. 3 |-> << number, seq[pos[IF "mirrored" \in p.traits THEN 4 - c ELSE c] + 1] >>]

\* The first `steps` triangles of a primitive whose indices are all in range.
AuthoredSteps(number, p, steps) ==
  Kept([i \in 1 .. steps |-> AuthoredTriangle(number, p, i - 1)],
       [1 .. 3 -> {number} \X (0 .. p.vertexCount - 1)])

KeptFaces(p) == Kept(p.faces, Faces \ {Bad})

AuthoredTriangles(number) ==
  LET p == document[number]
  IN  IF format = "obj" THEN [t \in DOMAIN KeptFaces(p) |-> KeptFaces(p)[t].corners]
      ELSE IF p.mode = "points" THEN <<>>
      ELSE AuthoredSteps(number, p, StepCount(p))

AuthoredMaterials(number) ==
  LET p == document[number]
  IN  IF format = "obj"
      THEN [t \in DOMAIN KeptFaces(p) |->
              IF KeptFaces(p)[t].material = None THEN 0 ELSE KeptFaces(p)[t].material]
      ELSE [t \in DOMAIN AuthoredTriangles(number) |-> IF HasMaterial(p) THEN 0 ELSE fallbackMaterial]

\* The parts a mesh is built for, in order.
IsDrawn(number) ==
  IF format = "obj" THEN AuthoredTriangles(number) # <<>>
  ELSE ~Skips(document[number].mode, document[number].vertexCount)

DrawnParts ==
  Kept([number \in DOMAIN document |-> number], { number \in DOMAIN document : IsDrawn(number) })

\* The corners of a triangle in the document.
CornersAt(vs, tri) == [c \in 1 .. 3 |-> vs[tri[c] + 1].corner]

SameFace(tri, other) ==
  \E turn \in 0 .. 2 : \A c \in 1 .. 3 : other[c] = tri[((c + turn) % 3) + 1]

\* One mesh per part that has triangles, and it draws the part's triangles in
\* the order, with the orientation and with the materials of the document.
MeshesDrawTheirParts ==
  phase = "uploaded" =>
    /\ Len(meshes) = Len(DrawnParts)
    /\ \A k \in DOMAIN meshes :
         LET mesh == meshes[k]
             authored == AuthoredTriangles(DrawnParts[k])
         IN  /\ Len(mesh.indices) = Len(authored)
             /\ \A t \in DOMAIN authored : SameFace(authored[t], CornersAt(mesh.vertices, mesh.indices[t]))
             /\ mesh.materialIndex = AuthoredMaterials(DrawnParts[k])

\* Loading never replaces a normal or a tangent the document brings, and
\* every vertex of a triangle with area gets both: only triangles that draw
\* nothing keep a zero normal and a tangent that is no number.
AuthoredAttributesAreKept ==
  phase = "uploaded" =>
    \A k \in DOMAIN meshes :
      LET vs == meshes[k].vertices
          p  == document[DrawnParts[k]]
      IN  /\ format = "gltf" =>
               \A v \in DOMAIN vs : /\ "normals" \in p.traits => vs[v].normal = "authored"
                                    /\ "tangents" \in p.traits => vs[v].tangent = "authored"
          /\ \A t \in DOMAIN meshes[k].indices, c \in 1 .. 3 :
               LET v == vs[meshes[k].indices[t][c] + 1]
               IN  HasArea(vs, meshes[k].indices[t]) =>
                     /\ v.normal \in {"authored", "flat"}
                     /\ v.tangent \in {"authored", "computed"}
=============================================================================

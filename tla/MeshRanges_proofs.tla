-------------------------- MODULE MeshRanges_proofs --------------------------
(***************************************************************************)
(* For every document: the ranges a loader records tile its arrays and no  *)
(* range's triangles leave its own vertices (RangesTile of MeshRanges);    *)
(* the meshes cut out of the arrays draw what the document says            *)
(* (MeshesDrawTheirParts) and keep the normals and tangents it brings      *)
(* (AuthoredAttributesAreKept).                                            *)
(***************************************************************************)
EXTENDS MeshRanges, SequenceTheorems, WellFoundedInduction, TLAPS

Triangle == [1 .. 3 -> Nat]

\* The part of IInv about the ranges recorded so far.
Recorded ==
  /\ vertices \in Seq(Vertex)
  /\ indices \in Seq(Triangle)
  /\ materialIndex \in Seq(Nat)
  /\ meshRanges \in Seq(MeshRange)
  /\ \A r \in DOMAIN meshRanges : RangeTiles(r)

\* A step that appends to the arrays and keeps the triangles.
Grows ==
  /\ vertices' \in Seq(Vertex) /\ Len(vertices) <= Len(vertices')
  /\ materialIndex' \in Seq(Nat) /\ Len(materialIndex) <= Len(materialIndex')
  /\ indices' \in Seq(Triangle) /\ Len(indices) <= Len(indices')
  /\ \A t \in 1 .. Len(indices) : indices'[t] = indices[t]

\* Arrays that stay as they are grow by nothing.
LEMMA StayingGrows ==
  ASSUME Recorded, UNCHANGED << vertices, indices, materialIndex >>
  PROVE  Grows
BY DEF Recorded, Grows

(***************************************************************************)
(* A range stays as it was while the arrays grow.                          *)
(***************************************************************************)
\* What a step leaves of one recorded range if it only appends to the arrays
\* (processPrimitive(), loadVertices()).
LEMMA RangeKept ==
  ASSUME Recorded, Grows,
         NEW r \in DOMAIN meshRanges, meshRanges' \in Seq(MeshRange), r \in DOMAIN meshRanges',
         meshRanges'[r] = meshRanges[r],
         VertexEnd(r - 1)' = VertexEnd(r - 1), IndexEnd(r - 1)' = IndexEnd(r - 1),
         TriEnd(r - 1)' = TriEnd(r - 1)
  PROVE  RangeTiles(r)'
<1>1. r \in 1 .. Len(meshRanges) /\ meshRanges[r] \in MeshRange
  BY DEF Recorded
<1>2. IndexEnd(r)' = IndexEnd(r) /\ VertexEnd(r)' = VertexEnd(r)
  BY <1>1 DEF IndexEnd, VertexEnd
<1>3. RangeTiles(r) /\ FitsIn(meshRanges[r], Parsed)
  BY DEF Recorded, RangeTiles
<1>4. /\ Len(vertices) \in Nat /\ Len(vertices') \in Nat /\ Len(vertices) <= Len(vertices')
      /\ Len(indices) \in Nat /\ Len(indices') \in Nat /\ Len(indices) <= Len(indices')
      /\ Len(materialIndex) \in Nat /\ Len(materialIndex') \in Nat
      /\ Len(materialIndex) <= Len(materialIndex')
  BY DEF Recorded, Grows
<1>5. FitsIn(meshRanges[r], Parsed)'
  <2>1. /\ meshRanges[r].vertexBase \in Nat /\ meshRanges[r].vertexCount \in Nat
        /\ meshRanges[r].indexStart \in Nat /\ meshRanges[r].indexCount \in Nat
        /\ meshRanges[r].triStart \in Nat /\ meshRanges[r].triCount \in Nat
    BY <1>1 DEF MeshRange
  <2>2. /\ meshRanges[r].vertexBase + meshRanges[r].vertexCount <= Len(vertices)
        /\ meshRanges[r].indexStart + meshRanges[r].indexCount <= Len(indices)
        /\ meshRanges[r].triStart + meshRanges[r].triCount <= Len(materialIndex)
    BY <1>3 DEF FitsIn, Parsed
  <2>3. /\ meshRanges[r].vertexBase + meshRanges[r].vertexCount <= Len(vertices')
        /\ meshRanges[r].indexStart + meshRanges[r].indexCount <= Len(indices')
        /\ meshRanges[r].triStart + meshRanges[r].triCount <= Len(materialIndex')
    BY ONLY <1>4, <2>1, <2>2
  <2> QED
    BY <2>3 DEF FitsIn, Parsed
<1>6. ASSUME NEW t \in meshRanges[r].indexStart + 1 .. IndexEnd(r), NEW c \in 1 .. 3
      PROVE  indices'[t][c] \in meshRanges[r].vertexBase .. VertexEnd(r) - 1
  <2>1. t \in 1 .. Len(indices)
    <3>1. meshRanges[r].indexStart \in Nat /\ meshRanges[r].indexCount \in Nat
      BY <1>1 DEF MeshRange
    <3>2. IndexEnd(r) = meshRanges[r].indexStart + meshRanges[r].indexCount
      BY <1>1 DEF IndexEnd
    <3>3. IndexEnd(r) <= Len(indices)
      BY <1>3, <3>2 DEF FitsIn, Parsed
    <3> QED
      BY <1>4, <3>1, <3>2, <3>3
  <2>2. indices[t][c] \in meshRanges[r].vertexBase .. VertexEnd(r) - 1
    BY <1>3 DEF RangeTiles
  <2>3. indices'[t] = indices[t]
    BY <2>1 DEF Grows
  <2> QED
    BY <2>2, <2>3
<1> QED
  BY <1>2, <1>3, <1>5, <1>6 DEF RangeTiles

\* ... and of all of them.
LEMMA RangesKept ==
  ASSUME Recorded, meshRanges' = meshRanges, Grows
  PROVE  /\ Recorded'
         /\ VertexEnd(Len(meshRanges))' = VertexEnd(Len(meshRanges))
         /\ IndexEnd(Len(meshRanges))' = IndexEnd(Len(meshRanges))
         /\ TriEnd(Len(meshRanges))' = TriEnd(Len(meshRanges))
<1>1. \A r \in 0 .. Len(meshRanges) :
        VertexEnd(r)' = VertexEnd(r) /\ IndexEnd(r)' = IndexEnd(r) /\ TriEnd(r)' = TriEnd(r)
  BY DEF VertexEnd, IndexEnd, TriEnd
<1>2. ASSUME NEW r \in DOMAIN meshRanges
      PROVE  RangeTiles(r)'
  <2>1. meshRanges' \in Seq(MeshRange) /\ r - 1 \in 0 .. Len(meshRanges)
    BY DEF Recorded
  <2> QED
    BY <1>1, <2>1, RangeKept
<1>3. meshRanges' \in Seq(MeshRange)
  BY DEF Recorded
<1>4. /\ VertexEnd(Len(meshRanges))' = VertexEnd(Len(meshRanges))
      /\ IndexEnd(Len(meshRanges))' = IndexEnd(Len(meshRanges))
      /\ TriEnd(Len(meshRanges))' = TriEnd(Len(meshRanges))
  BY DEF VertexEnd, IndexEnd, TriEnd
<1> QED
  BY <1>2, <1>3, <1>4 DEF Recorded, Grows

\* Recording the range of a closed part (PartRange): it has to start where the
\* last one ends and keep to its own vertices.
LEMMA RangePushed ==
  ASSUME Recorded, NEW new \in MeshRange, meshRanges' = Append(meshRanges, new),
         Grows, indices' = indices,
         new.vertexBase = VertexEnd(Len(meshRanges)),
         new.indexStart = IndexEnd(Len(meshRanges)),
         new.triStart = TriEnd(Len(meshRanges)),
         new.indexCount = new.triCount,
         new.vertexBase + new.vertexCount <= Len(vertices'),
         new.indexStart + new.indexCount = Len(indices),
         new.triStart + new.triCount <= Len(materialIndex'),
         \A t \in new.indexStart + 1 .. Len(indices), c \in 1 .. 3 :
           indices[t][c] \in new.vertexBase .. new.vertexBase + new.vertexCount - 1
  PROVE  /\ Recorded'
         /\ VertexEnd(Len(meshRanges))' = new.vertexBase + new.vertexCount
         /\ IndexEnd(Len(meshRanges))' = Len(indices)
         /\ TriEnd(Len(meshRanges))' = new.triStart + new.triCount
<1> PICK n \in Nat : n = Len(meshRanges)
  BY DEF Recorded
<1>1. /\ meshRanges' \in Seq(MeshRange) /\ Len(meshRanges') = n + 1
      /\ meshRanges'[n + 1] = new
      /\ \A r \in 1 .. n : meshRanges'[r] = meshRanges[r]
      /\ DOMAIN meshRanges = 1 .. n /\ DOMAIN meshRanges' = 1 .. n + 1
  BY DEF Recorded
<1>2. \A r \in 0 .. n :
        VertexEnd(r)' = VertexEnd(r) /\ IndexEnd(r)' = IndexEnd(r) /\ TriEnd(r)' = TriEnd(r)
  BY <1>1 DEF VertexEnd, IndexEnd, TriEnd
<1> SUFFICES
      /\ \A r \in DOMAIN meshRanges' : RangeTiles(r)'
      /\ VertexEnd(n + 1)' = new.vertexBase + new.vertexCount
      /\ IndexEnd(n + 1)' = Len(indices)
      /\ TriEnd(n + 1)' = new.triStart + new.triCount
  BY <1>1 DEF Recorded, Grows
<1>3. ASSUME NEW r \in 1 .. n
      PROVE  RangeTiles(r)'
  <2>1. r \in DOMAIN meshRanges /\ r \in DOMAIN meshRanges' /\ meshRanges'[r] = meshRanges[r]
    BY <1>1
  <2>2. r - 1 \in 0 .. n
    BY <1>1
  <2> QED
    BY <1>1, <1>2, <2>1, <2>2, RangeKept
<1>4. n + 1 # 0 /\ (n + 1) - 1 = n /\ n \in 0 .. n /\ Len(indices) \in Nat
  <2>1. Len(indices) \in Nat
    BY DEF Recorded
  <2> QED
    BY <1>1, <2>1
<1>5. /\ VertexEnd(n)' = new.vertexBase
      /\ IndexEnd(n)' = new.indexStart
      /\ TriEnd(n)' = new.triStart
  BY <1>2, <1>4
<1>6. VertexEnd(n + 1)' = new.vertexBase + new.vertexCount
  BY <1>1, <1>4 DEF VertexEnd
<1>7. IndexEnd(n + 1)' = new.indexStart + new.indexCount
  BY <1>1, <1>4 DEF IndexEnd
<1>8. TriEnd(n + 1)' = new.triStart + new.triCount
  BY <1>1, <1>4 DEF TriEnd
<1>9. RangeTiles(n + 1)'
  <2>1. ASSUME NEW t \in new.indexStart + 1 .. IndexEnd(n + 1)', NEW c \in 1 .. 3
        PROVE  indices'[t][c] \in new.vertexBase .. VertexEnd(n + 1)' - 1
    <3>1. t \in new.indexStart + 1 .. Len(indices)
      BY <1>7
    <3>2. indices[t][c] \in new.vertexBase .. new.vertexBase + new.vertexCount - 1
      BY <3>1
    <3>3. indices'[t][c] = indices[t][c]
      OBVIOUS
    <3>4. new.vertexBase \in Nat /\ new.vertexCount \in Nat
      BY DEF MeshRange
    <3> QED
      BY <1>6, <3>2, <3>3, <3>4
  <2>2. FitsIn(meshRanges[n + 1], Parsed)'
    BY <1>1, <1>4 DEF FitsIn, Parsed
  <2> QED
    BY <1>1, <1>4, <1>5, <2>1, <2>2 DEF RangeTiles
<1>10. ASSUME NEW r \in DOMAIN meshRanges'
       PROVE  r \in 1 .. n \/ r = n + 1
  BY <1>1
<1> QED
  BY <1>3, <1>6, <1>7, <1>8, <1>9, <1>10

(***************************************************************************)
(* The types.                                                              *)
(***************************************************************************)
\* Completing normals and tangents (Vertex.cpp) changes no vertex count.
LEMMA AttributesType ==
  ASSUME NEW vs \in Seq(Vertex), NEW tris, NEW first
  PROVE  /\ computeFlatNormals(vs, tris, first) \in Seq(Vertex)
         /\ Len(computeFlatNormals(vs, tris, first)) = Len(vs)
         /\ fillMissingFlatNormals(vs, tris) \in Seq(Vertex)
         /\ Len(fillMissingFlatNormals(vs, tris)) = Len(vs)
         /\ computeTangents(vs, tris, first) \in Seq(Vertex)
         /\ Len(computeTangents(vs, tris, first)) = Len(vs)
<1> DEFINE n == Len(vs)
<1>1. n \in Nat /\ DOMAIN vs = 1 .. n /\ \A v \in 1 .. n : vs[v] \in Vertex
  OBVIOUS
<1>2. ASSUME NEW S, NEW f, f = [v \in 1 .. n |-> S[v]], \A v \in 1 .. n : S[v] \in Vertex
      PROVE  f \in Seq(Vertex) /\ Len(f) = n
  BY <1>1, <1>2
<1>3. \A v \in 1 .. n : [vs[v] EXCEPT !.normal = "flat"] \in Vertex
  BY <1>1 DEF Vertex
<1>4. \A v \in 1 .. n : [vs[v] EXCEPT !.tangent = TangentOf(vs[v])] \in Vertex
  BY <1>1 DEF Vertex, TangentOf
<1> HIDE DEF n
<1>5. computeFlatNormals(vs, tris, first) \in [1 .. n -> Vertex]
  BY <1>1, <1>3 DEF computeFlatNormals
<1>6. fillMissingFlatNormals(vs, tris) \in [1 .. n -> Vertex]
  BY <1>1, <1>3 DEF fillMissingFlatNormals
<1>7. computeTangents(vs, tris, first) \in [1 .. n -> Vertex]
  BY <1>1, <1>4 DEF computeTangents
<1>8. ASSUME NEW f \in [1 .. n -> Vertex]
      PROVE  f \in Seq(Vertex) /\ Len(f) = n
  BY <1>1
<1> QED
  BY <1>5, <1>6, <1>7, <1>8 DEF n

\* A vertex of a shape is looked up or appended (vertices_map.try_emplace()).
LEMMA EmplacedType ==
  ASSUME NEW vs \in Seq(Vertex), NEW v \in Vertex, part.vertexBase \in Nat, part.vertexBase <= Len(vs)
  PROVE  /\ Emplaced(vs, v) \in Seq(Vertex)
         /\ Len(vs) <= Len(Emplaced(vs, v))
         /\ \A i \in 1 .. Len(vs) : Emplaced(vs, v)[i] = vs[i]
         /\ \A i \in 1 .. Len(Emplaced(vs, v)) : i \in 1 .. Len(vs) \/ Emplaced(vs, v)[i] = v
         /\ Known(Emplaced(vs, v), v) # {}
<1>1. CASE Known(vs, v) # {}
  BY <1>1 DEF Emplaced
<1>2. CASE Known(vs, v) = {}
  <2>1. Emplaced(vs, v) = Append(vs, v)
    BY <1>2 DEF Emplaced
  <2>2. /\ Append(vs, v) \in Seq(Vertex) /\ Len(Append(vs, v)) = Len(vs) + 1
        /\ Append(vs, v)[Len(vs) + 1] = v
        /\ \A i \in 1 .. Len(vs) : Append(vs, v)[i] = vs[i]
    OBVIOUS
  <2>3. Len(vs) \in part.vertexBase .. Len(Append(vs, v)) - 1
    BY <2>2
  <2>4. Len(vs) \in Known(Append(vs, v), v)
    BY <2>2, <2>3 DEF Known
  <2>5. \A i \in 1 .. Len(vs) + 1 : i \in 1 .. Len(vs) \/ i = Len(vs) + 1
    OBVIOUS
  <2> QED
    BY <2>1, <2>2, <2>4, <2>5
<1> QED
  BY <1>1, <1>2

\* A vertex a shape knows stays known while vertices are appended.
LEMMA KnownKept ==
  ASSUME NEW vs \in Seq(Vertex), NEW ws \in Seq(Vertex), NEW v, Len(vs) <= Len(ws),
         \A i \in 1 .. Len(vs) : ws[i] = vs[i], Known(vs, v) # {}, part.vertexBase \in Nat
  PROVE  /\ IndexOf(ws, v) \in part.vertexBase .. Len(ws) - 1
         /\ ws[IndexOf(ws, v) + 1] = v
         /\ part.vertexBase < Len(ws)
<1>1. PICK i \in part.vertexBase .. Len(vs) - 1 : vs[i + 1] = v
  BY DEF Known
<1>2. i \in part.vertexBase .. Len(ws) - 1 /\ ws[i + 1] = v
  BY <1>1
<1>3. Known(ws, v) # {}
  BY <1>2 DEF Known
<1>4. IndexOf(ws, v) \in Known(ws, v)
  BY <1>3 DEF IndexOf
<1>5. IndexOf(ws, v) \in part.vertexBase .. Len(ws) - 1 /\ ws[IndexOf(ws, v) + 1] = v
  BY <1>4 DEF Known
<1> QED
  BY <1>2, <1>5

(***************************************************************************)
(* The invariant, split into what every step has to show of it.            *)
(***************************************************************************)
Closed == phase # "part" => RangesCover

Open ==
  phase = "part" =>
    /\ document # <<>>
    /\ OpenPart
    /\ format = "obj" => OpenShape
    /\ format = "gltf" => OpenPrimitive

\* The invariant in the parts the steps are proved by.
LEMMA Split == IInv <=> TypeOK /\ Recorded /\ Closed /\ Open
BY DEF IInv, TypeOK, Recorded, Closed, Open, RangesTile, Triangle

\* ... and of the next state.
LEMMA SplitPrimed == TypeOK' /\ Recorded' /\ Closed' /\ Open' => IInv'
BY DEF IInv, TypeOK, Recorded, Closed, Open, RangesTile, Triangle

\* Nothing is recorded yet.
LEMMA EmptyIsRecorded ==
  ASSUME meshRanges' = <<>>, indices' = <<>>, vertices' = <<>>, materialIndex' = <<>>
  PROVE  Recorded' /\ RangesCover'
BY DEF Recorded, RangesCover, VertexEnd, IndexEnd, TriEnd

\* A loader that has not parsed anything satisfies the invariant.
LEMMA InitIInv == Init => IInv
<1> SUFFICES ASSUME Init PROVE IInv
  OBVIOUS
<1>1. TypeOK
  BY DEF Init, TypeOK, NoPart
<1>2. Recorded /\ Closed
  BY DEF Init, Recorded, Closed, RangesCover, VertexEnd, IndexEnd, TriEnd
<1>3. Open
  BY DEF Init, Open
<1> QED
  BY <1>1, <1>2, <1>3, Split

\* parseCpu() clears the arrays of an earlier document.
LEMMA ParseCpuStep ==
  ASSUME IInv, NEW f \in {"obj", "gltf"}, parseCpu(f)
  PROVE  IInv'
<1>1. TypeOK'
  BY DEF parseCpu, TypeOK, NoPart
<1>2. Recorded' /\ RangesCover'
  BY EmptyIsRecorded DEF parseCpu
<1>3. Open'
  BY DEF parseCpu, Open
<1> QED
  BY <1>1, <1>2, <1>3, SplitPrimed DEF Closed

\* A step that leaves the arrays and closes or keeps closed.
LEMMA ArraysKept ==
  ASSUME IInv, UNCHANGED arrays, phase # "part", phase' # "part", TypeOK'
  PROVE  IInv'
<1>1. Recorded /\ RangesCover /\ TypeOK
  BY Split DEF Closed
<1>2. UNCHANGED << vertices, indices, materialIndex, meshRanges >>
  BY DEF arrays
<1>3. Recorded'
  BY <1>1, <1>2, StayingGrows, RangesKept
<1>4. RangesCover'
  BY <1>1, <1>2 DEF RangesCover, VertexEnd, IndexEnd, TriEnd
<1>5. Open'
  BY DEF Open
<1> QED
  BY <1>3, <1>4, <1>5, SplitPrimed DEF Closed

\* The end of a glTF document leaves the arrays alone.
LEMMA GltfParsedStep ==
  ASSUME IInv, GltfParsed
  PROVE  IInv'
<1>1. TypeOK'
  BY Split DEF GltfParsed, arrays, TypeOK
<1> QED
  BY <1>1, ArraysKept DEF GltfParsed

\* So does the upload.
LEMMA UploadParsedStep ==
  ASSUME IInv, uploadParsed
  PROVE  IInv'
<1>1. TypeOK'
  BY Split DEF uploadParsed, arrays, TypeOK
<1> QED
  BY <1>1, ArraysKept DEF uploadParsed

\* The end of an OBJ document changes normals and tangents only.
LEMMA ObjParsedStep ==
  ASSUME IInv, ObjParsed
  PROVE  IInv'
<1>1. TypeOK /\ Recorded /\ RangesCover
  BY Split DEF ObjParsed, Closed
<1>2. vertices' \in Seq(Vertex) /\ Len(vertices') = Len(vertices)
  <2>1. vertices \in Seq(Vertex)
    BY <1>1 DEF TypeOK
  <2> QED
    BY <2>1, AttributesType DEF ObjParsed
<1>3. TypeOK'
  BY <1>1, <1>2 DEF ObjParsed, TypeOK
<1>4. Recorded'
  BY <1>1, <1>2, RangesKept DEF ObjParsed, Recorded, Grows
<1>5. RangesCover'
  BY <1>1, <1>2 DEF ObjParsed, RangesCover, VertexEnd, IndexEnd, TriEnd
<1>6. Open'
  BY DEF ObjParsed, Open
<1> QED
  BY <1>3, <1>4, <1>5, <1>6, SplitPrimed DEF Closed

(***************************************************************************)
(* The steps of a shape.                                                   *)
(***************************************************************************)
\* A part opened where the arrays end (Here).
LEMMA PartOpened ==
  ASSUME Recorded, RangesCover, TypeOK, part' = Here,
         UNCHANGED << indices, materialIndex, meshRanges >>,
         vertices' \in Seq(Vertex), Len(vertices) <= Len(vertices')
  PROVE  /\ OpenPart'
         /\ part'.vertexBase = Len(vertices) /\ part'.indexStart = Len(indices)
         /\ part'.triStart = Len(materialIndex)
         /\ part' \in [vertexBase : Nat, indexStart : Nat, triStart : Nat, step : Nat]
<1>1. /\ part'.vertexBase = Len(vertices) /\ part'.indexStart = Len(indices)
      /\ part'.triStart = Len(materialIndex)
  BY DEF Here
<1>2. Len(vertices) \in Nat /\ Len(indices) \in Nat /\ Len(materialIndex) \in Nat
  BY DEF TypeOK
<1>3. part' \in [vertexBase : Nat, indexStart : Nat, triStart : Nat, step : Nat]
  BY <1>2 DEF Here
<1>4. /\ part'.vertexBase = VertexEnd(Len(meshRanges))'
      /\ part'.indexStart = IndexEnd(Len(meshRanges))'
      /\ part'.triStart = TriEnd(Len(meshRanges))'
  BY <1>1 DEF RangesCover, VertexEnd, IndexEnd, TriEnd
<1>5. \A t \in part'.indexStart + 1 .. Len(indices') : FALSE
  BY <1>1, <1>2
<1> QED
  BY <1>1, <1>2, <1>3, <1>4, <1>5 DEF OpenPart

\* A shape opens a part without vertices or triangles.
LEMMA BeginShapeStep ==
  ASSUME IInv, BeginShape
  PROVE  IInv'
<1>1. TypeOK /\ Recorded /\ RangesCover
  BY Split DEF BeginShape, Closed
<1>2. UNCHANGED << vertices, indices, materialIndex, meshRanges >>
  BY DEF BeginShape, arrays
<1>3. /\ OpenPart' /\ part'.vertexBase = Len(vertices) /\ part'.indexStart = Len(indices)
      /\ part'.triStart = Len(materialIndex)
      /\ part' \in [vertexBase : Nat, indexStart : Nat, triStart : Nat, step : Nat]
  BY <1>1, <1>2, PartOpened DEF BeginShape, TypeOK
<1>4. document' \in Seq(Shape) /\ document' # <<>>
  <2>1. document \in Seq(Shape)
    BY <1>1 DEF BeginShape, TypeOK
  <2>2. [faces |-> <<>>] \in Shape
    BY DEF Shape
  <2> QED
    BY <2>1, <2>2 DEF BeginShape
<1>5. TypeOK'
  BY <1>1, <1>2, <1>3, <1>4 DEF BeginShape, TypeOK
<1>6. Recorded'
  BY <1>1, <1>2, StayingGrows, RangesKept
<1>7. OpenShape'
  BY <1>1, <1>2, <1>3 DEF OpenShape, TypeOK
<1>8. Open' /\ Closed'
  BY <1>3, <1>4, <1>7 DEF BeginShape, Open, Closed
<1> QED
  BY <1>5, <1>6, <1>8, SplitPrimed

\* The three corners of a face, looked up or appended.
LEMMA FaceRead ==
  ASSUME TypeOK, OpenPart, NEW face \in Faces,
         NEW v1, v1 = Emplaced(vertices, ObjVertex(face, 1)),
         NEW v2, v2 = Emplaced(v1, ObjVertex(face, 2)),
         NEW v3, v3 = Emplaced(v2, ObjVertex(face, 3))
  PROVE  /\ v3 \in Seq(Vertex) /\ Len(vertices) <= Len(v3) /\ part.vertexBase < Len(v3)
         /\ \A i \in 1 .. Len(vertices) : v3[i] = vertices[i]
         /\ \A i \in 1 .. Len(v3) : i \in 1 .. Len(vertices) \/ \E c \in 1 .. 3 : v3[i] = ObjVertex(face, c)
         /\ \A c \in 1 .. 3 :
              /\ IndexOf(v3, ObjVertex(face, c)) \in part.vertexBase .. Len(v3) - 1
              /\ v3[IndexOf(v3, ObjVertex(face, c)) + 1] = ObjVertex(face, c)
<1>1. vertices \in Seq(Vertex) /\ part.vertexBase \in Nat /\ part.vertexBase <= Len(vertices)
  BY DEF TypeOK, OpenPart
<1>2. \A c \in 1 .. 3 : ObjVertex(face, c) \in Vertex
  BY DEF ObjVertex, Vertex, Faces
<1>3. ObjVertex(face, 1) \in Vertex /\ ObjVertex(face, 2) \in Vertex /\ ObjVertex(face, 3) \in Vertex
  BY <1>2
<1>4. /\ v1 \in Seq(Vertex) /\ Len(vertices) <= Len(v1)
      /\ \A i \in 1 .. Len(vertices) : v1[i] = vertices[i]
      /\ \A i \in 1 .. Len(v1) : i \in 1 .. Len(vertices) \/ v1[i] = ObjVertex(face, 1)
      /\ Known(v1, ObjVertex(face, 1)) # {}
  BY <1>1, <1>3, EmplacedType
<1>5. Len(vertices) \in Nat /\ Len(v1) \in Nat /\ part.vertexBase <= Len(v1)
  BY <1>1, <1>4
<1>6. /\ v2 \in Seq(Vertex) /\ Len(v1) <= Len(v2)
      /\ \A i \in 1 .. Len(v1) : v2[i] = v1[i]
      /\ \A i \in 1 .. Len(v2) : i \in 1 .. Len(v1) \/ v2[i] = ObjVertex(face, 2)
      /\ Known(v2, ObjVertex(face, 2)) # {}
  <2>1. PICK o \in Vertex : o = ObjVertex(face, 2)
    BY <1>3
  <2>2. /\ Emplaced(v1, o) \in Seq(Vertex) /\ Len(v1) <= Len(Emplaced(v1, o))
        /\ \A i \in 1 .. Len(v1) : Emplaced(v1, o)[i] = v1[i]
        /\ \A i \in 1 .. Len(Emplaced(v1, o)) : i \in 1 .. Len(v1) \/ Emplaced(v1, o)[i] = o
        /\ Known(Emplaced(v1, o), o) # {}
    <3>1. v1 \in Seq(Vertex) /\ part.vertexBase \in Nat /\ part.vertexBase <= Len(v1)
      BY <1>1, <1>3, <1>4, <1>5
    <3> QED
      BY ONLY <3>1, o \in Vertex, EmplacedType
  <2> QED
    BY <2>1, <2>2
<1>7. Len(v2) \in Nat /\ part.vertexBase <= Len(v2)
  BY <1>1, <1>5, <1>6
<1>8. /\ v3 \in Seq(Vertex) /\ Len(v2) <= Len(v3)
      /\ \A i \in 1 .. Len(v2) : v3[i] = v2[i]
      /\ \A i \in 1 .. Len(v3) : i \in 1 .. Len(v2) \/ v3[i] = ObjVertex(face, 3)
      /\ Known(v3, ObjVertex(face, 3)) # {}
  <2>1. PICK o \in Vertex : o = ObjVertex(face, 3)
    BY <1>3
  <2>2. /\ Emplaced(v2, o) \in Seq(Vertex) /\ Len(v2) <= Len(Emplaced(v2, o))
        /\ \A i \in 1 .. Len(v2) : Emplaced(v2, o)[i] = v2[i]
        /\ \A i \in 1 .. Len(Emplaced(v2, o)) : i \in 1 .. Len(v2) \/ Emplaced(v2, o)[i] = o
        /\ Known(Emplaced(v2, o), o) # {}
    <3>1. v2 \in Seq(Vertex) /\ part.vertexBase \in Nat /\ part.vertexBase <= Len(v2)
      BY <1>1, <1>3, <1>6, <1>7
    <3> QED
      BY ONLY <3>1, o \in Vertex, EmplacedType
  <2> QED
    BY <2>1, <2>2
<1>9. Len(v3) \in Nat /\ Len(v1) <= Len(v3) /\ \A i \in 1 .. Len(v1) : v3[i] = v1[i]
  BY <1>5, <1>6, <1>7, <1>8
<1>10. /\ IndexOf(v3, ObjVertex(face, 1)) \in part.vertexBase .. Len(v3) - 1 /\ part.vertexBase < Len(v3)
       /\ v3[IndexOf(v3, ObjVertex(face, 1)) + 1] = ObjVertex(face, 1)
  BY <1>1, <1>4, <1>8, <1>9, KnownKept
<1>11. /\ IndexOf(v3, ObjVertex(face, 2)) \in part.vertexBase .. Len(v3) - 1
       /\ v3[IndexOf(v3, ObjVertex(face, 2)) + 1] = ObjVertex(face, 2)
  BY <1>1, <1>6, <1>8, KnownKept
<1>12. /\ IndexOf(v3, ObjVertex(face, 3)) \in part.vertexBase .. Len(v3) - 1
       /\ v3[IndexOf(v3, ObjVertex(face, 3)) + 1] = ObjVertex(face, 3)
  BY <1>1, <1>8, <1>9, KnownKept
<1>13. \A c \in 1 .. 3 : c = 1 \/ c = 2 \/ c = 3
  OBVIOUS
<1>14. Len(vertices) <= Len(v3)
  BY <1>4, <1>5, <1>9
<1>15. \A i \in 1 .. Len(vertices) : v3[i] = vertices[i]
  BY <1>4, <1>5, <1>9
<1>16. ASSUME NEW i \in 1 .. Len(v3)
       PROVE  i \in 1 .. Len(vertices) \/ \E c \in 1 .. 3 : v3[i] = ObjVertex(face, c)
  <2>1. 1 \in 1 .. 3 /\ 2 \in 1 .. 3 /\ 3 \in 1 .. 3
    OBVIOUS
  <2>2. CASE i \notin 1 .. Len(v2)
    BY <1>8, <2>1, <2>2
  <2>3. CASE i \in 1 .. Len(v2) /\ i \notin 1 .. Len(v1)
    BY <1>6, <1>8, <2>1, <2>3
  <2>4. CASE i \in 1 .. Len(v1)
    BY <1>4, <1>9, <2>1, <2>4
  <2> QED
    BY <2>2, <2>3, <2>4
<1> QED
  BY <1>8, <1>10, <1>11, <1>12, <1>13, <1>14, <1>15, <1>16

\* A step that keeps the open part and its triangles, or adds one triangle
\* with the part's own vertices.
LEMMA PartGrows ==
  ASSUME Recorded, TypeOK, OpenPart, meshRanges' = meshRanges,
         UNCHANGED << part.vertexBase, part.indexStart, part.triStart >>,
         vertices' \in Seq(Vertex), Len(vertices) <= Len(vertices'),
         materialIndex' \in Seq(Nat), Len(materialIndex) <= Len(materialIndex'),
         \/ indices' = indices
         \/ \E tri \in Triangle :
              /\ indices' = Append(indices, tri)
              /\ \A c \in 1 .. 3 : tri[c] \in part.vertexBase .. Len(vertices') - 1
  PROVE  /\ Recorded' /\ OpenPart'
         /\ indices' \in Seq(Triangle) /\ part.indexStart <= Len(indices)
<1>1. /\ indices \in Seq(Triangle) /\ Len(indices) \in Nat /\ DOMAIN indices = 1 .. Len(indices)
      /\ Len(vertices) \in Nat /\ Len(vertices') \in Nat
      /\ Len(materialIndex) \in Nat /\ Len(materialIndex') \in Nat
      /\ part.vertexBase \in Nat /\ part.indexStart \in Nat /\ part.triStart \in Nat
      /\ part.vertexBase <= Len(vertices) /\ part.indexStart <= Len(indices)
      /\ part.triStart <= Len(materialIndex)
  BY DEF Recorded, TypeOK, OpenPart
<1>2. ASSUME NEW t \in part.indexStart + 1 .. Len(indices), NEW c \in 1 .. 3
      PROVE  indices[t][c] \in part.vertexBase .. Len(vertices') - 1
  <2>1. indices[t][c] \in part.vertexBase .. Len(vertices) - 1
    BY DEF OpenPart
  <2> QED
    BY <1>1, <2>1
<1>3. /\ indices' \in Seq(Triangle) /\ Len(indices) <= Len(indices')
      /\ \A t \in 1 .. Len(indices) : indices'[t] = indices[t]
      /\ \A t \in part.indexStart + 1 .. Len(indices'), c \in 1 .. 3 :
           indices'[t][c] \in part.vertexBase .. Len(vertices') - 1
  <2>1. CASE indices' = indices
    BY <1>1, <1>2, <2>1
  <2>2. ASSUME NEW tri \in Triangle, indices' = Append(indices, tri),
               \A c \in 1 .. 3 : tri[c] \in part.vertexBase .. Len(vertices') - 1
        PROVE  <1>3!:
    <3>1. /\ indices' \in Seq(Triangle) /\ Len(indices') = Len(indices) + 1
          /\ \A t \in 1 .. Len(indices) : indices'[t] = indices[t]
          /\ indices'[Len(indices) + 1] = tri
      <4>1. indices \in Seq(Triangle) /\ indices' = Append(indices, tri)
        BY <1>1, <2>2
      <4> QED
        BY ONLY <4>1, tri \in Triangle, AppendProperties
    <3>2. ASSUME NEW t \in part.indexStart + 1 .. Len(indices'), NEW c \in 1 .. 3
          PROVE  indices'[t][c] \in part.vertexBase .. Len(vertices') - 1
      <4>1. CASE t = Len(indices) + 1
        BY <2>2, <3>1, <4>1
      <4>2. CASE t # Len(indices) + 1
        <5>1. t \in part.indexStart + 1 .. Len(indices) /\ t \in 1 .. Len(indices)
          BY <1>1, <3>1, <4>2
        <5> QED
          BY <1>2, <3>1, <5>1
      <4> QED
        BY <4>1, <4>2
    <3>3. Len(indices) <= Len(indices')
      BY <1>1, <3>1
    <3> QED
      BY ONLY <3>1, <3>2, <3>3
  <2> QED
    BY <2>1, <2>2
<1>4. /\ Recorded'
      /\ VertexEnd(Len(meshRanges))' = VertexEnd(Len(meshRanges))
      /\ IndexEnd(Len(meshRanges))' = IndexEnd(Len(meshRanges))
      /\ TriEnd(Len(meshRanges))' = TriEnd(Len(meshRanges))
  BY <1>3, RangesKept DEF Grows
<1>5. /\ part'.vertexBase <= Len(vertices') /\ part'.indexStart <= Len(indices')
      /\ part'.triStart <= Len(materialIndex')
  <2>1. Len(indices') \in Nat
    BY <1>3
  <2> QED
    BY <1>1, <1>3, <2>1
<1>6. OpenPart'
  BY <1>3, <1>4, <1>5 DEF OpenPart
<1> QED
  BY <1>1, <1>3, <1>4, <1>6

\* A face adds a triangle and its material id, or is dropped.
LEMMA ReadFaceStep ==
  ASSUME IInv, NEW face \in Faces \cup {Bad}, ReadFace(face)
  PROVE  IInv'
<1>1. TypeOK /\ Recorded /\ document # <<>> /\ OpenPart /\ OpenShape /\ format = "obj"
  BY Split DEF ReadFace, Open
<1>2. document' \in Seq(Shape) /\ document' # <<>>
  <2>1. document \in Seq(Shape) /\ Len(document) \in DOMAIN document
    BY <1>1 DEF TypeOK
  <2>2. document[Len(document)] \in Shape
    BY <2>1
  <2>3. [document[Len(document)] EXCEPT !.faces = Append(@, face)] \in Shape
    BY <2>2 DEF Shape
  <2>4. document' = [document EXCEPT ![Len(document)] =
                       [document[Len(document)] EXCEPT !.faces = Append(@, face)]]
    BY DEF ReadFace
  <2> QED
    BY <2>1, <2>3, <2>4
<1>3. CASE face = Bad
  <2>1. UNCHANGED << vertices, indices, materialIndex, meshRanges, part >>
    BY <1>3 DEF ReadFace
  <2>2. TypeOK'
    BY <1>1, <1>2, <2>1 DEF ReadFace, TypeOK
  <2>3. Recorded' /\ OpenPart'
    BY <1>1, <2>1, PartGrows DEF TypeOK
  <2>4. Open' /\ Closed'
    BY <1>1, <1>2, <2>1, <2>3 DEF ReadFace, Open, Closed, OpenShape
  <2> QED
    BY <2>2, <2>3, <2>4, SplitPrimed
<1>4. CASE face # Bad
  <2>1. face \in Faces
    BY <1>4
  <2> DEFINE v1 == Emplaced(vertices, ObjVertex(face, 1))
             v2 == Emplaced(v1, ObjVertex(face, 2))
             v3 == Emplaced(v2, ObjVertex(face, 3))
             tri == [c \in 1 .. 3 |-> IndexOf(v3, ObjVertex(face, c))]
             id == IF face.material = None THEN 0 ELSE face.material
  <2>2. /\ vertices' = v3 /\ indices' = Append(indices, tri)
        /\ materialIndex' = Append(materialIndex, id)
        /\ UNCHANGED << phase, format, meshRanges, part, meshes >>
    BY <1>4 DEF ReadFace
  <2>3. /\ v3 \in Seq(Vertex) /\ Len(vertices) <= Len(v3) /\ part.vertexBase < Len(v3)
        /\ \A c \in 1 .. 3 : IndexOf(v3, ObjVertex(face, c)) \in part.vertexBase .. Len(v3) - 1
    BY <1>1, <2>1, FaceRead
  <2>4. id \in Nat
    BY <2>1 DEF Faces
  <2> HIDE DEF v1, v2, v3, id
  <2>5. part.vertexBase \in Nat /\ materialIndex \in Seq(Nat)
    BY <1>1 DEF TypeOK
  <2>6. tri \in Triangle /\ \A c \in 1 .. 3 : tri[c] \in part.vertexBase .. Len(v3) - 1
    BY <2>3, <2>5 DEF Triangle
  <2>7. /\ materialIndex' \in Seq(Nat) /\ Len(materialIndex') = Len(materialIndex) + 1
        /\ Len(materialIndex) <= Len(materialIndex')
    BY <2>2, <2>4, <2>5
  <2> HIDE DEF tri
  <2>8. /\ Recorded' /\ OpenPart'
        /\ indices' \in Seq(Triangle) /\ part.indexStart <= Len(indices)
    BY <1>1, <2>2, <2>3, <2>6, <2>7, PartGrows
  <2>9. TypeOK'
    BY <1>1, <1>2, <2>2, <2>3, <2>7, <2>8 DEF TypeOK, Triangle
  <2>10. OpenShape'
    <3>1. Len(indices') = Len(indices) + 1 /\ Len(indices) \in Nat /\ Len(materialIndex) \in Nat
      BY <1>1, <2>2 DEF TypeOK
    <3>2. part.indexStart \in Nat /\ part.triStart \in Nat /\ Len(v3) \in Nat
      BY <1>1, <2>3 DEF TypeOK
    <3>3. Len(materialIndex) - part.triStart = Len(indices) - part.indexStart
      BY <1>1 DEF OpenShape
    <3>4. Len(materialIndex') - part.triStart = Len(indices') - part.indexStart
      BY <2>7, <3>1, <3>2, <3>3
    <3>5. Len(vertices') # part.vertexBase
      BY <2>2, <2>3, <2>5, <3>2
    <3>6. part' = part
      BY <2>2
    <3> QED
      BY <3>4, <3>5, <3>6 DEF OpenShape
  <2>11. Open' /\ Closed'
    BY <1>1, <1>2, <2>2, <2>8, <2>10 DEF ReadFace, Open, Closed
  <2> QED
    BY <2>8, <2>9, <2>11, SplitPrimed
<1> QED
  BY <1>3, <1>4

\* The range of an open part with a material id for each of its triangles.
LEMMA PartClosed ==
  ASSUME TypeOK, Recorded, OpenPart, NEW triEnd \in Nat, NEW doubleSided \in BOOLEAN,
         triEnd - part.triStart = Len(indices) - part.indexStart,
         meshRanges' = Append(meshRanges, PartRange(triEnd, doubleSided)),
         indices' = indices, vertices' \in Seq(Vertex), Len(vertices') = Len(vertices),
         materialIndex' \in Seq(Nat), Len(materialIndex') = triEnd,
         Len(materialIndex) <= triEnd
  PROVE  Recorded' /\ RangesCover'
<1> DEFINE new == PartRange(triEnd, doubleSided)
<1>1. /\ part.vertexBase \in Nat /\ part.indexStart \in Nat /\ part.triStart \in Nat
      /\ Len(vertices) \in Nat /\ Len(indices) \in Nat
      /\ part.vertexBase <= Len(vertices) /\ part.indexStart <= Len(indices)
  BY DEF TypeOK, OpenPart
<1>2. new \in MeshRange
  BY <1>1 DEF PartRange, MeshRange
<1>3. /\ new.vertexBase = part.vertexBase /\ new.indexStart = part.indexStart
      /\ new.triStart = part.triStart /\ new.indexCount = new.triCount
      /\ new.vertexBase + new.vertexCount = Len(vertices)
      /\ new.indexStart + new.indexCount = Len(indices)
      /\ new.triStart + new.triCount = triEnd
  <2>1. /\ new.vertexBase = part.vertexBase /\ new.indexStart = part.indexStart
        /\ new.triStart = part.triStart
        /\ new.vertexCount = Len(vertices) - part.vertexBase
        /\ new.indexCount = Len(indices) - part.indexStart
        /\ new.triCount = triEnd - part.triStart
    BY DEF PartRange
  <2>2. triEnd \in Nat /\ triEnd - part.triStart = Len(indices) - part.indexStart
    OBVIOUS
  <2> HIDE DEF new
  <2> QED
    BY ONLY <1>1, <2>1, <2>2
<1>4. /\ new.vertexBase = VertexEnd(Len(meshRanges)) /\ new.indexStart = IndexEnd(Len(meshRanges))
      /\ new.triStart = TriEnd(Len(meshRanges))
  BY <1>3 DEF OpenPart
<1>5. \A t \in part.indexStart + 1 .. Len(indices), c \in 1 .. 3 :
        indices[t][c] \in part.vertexBase .. Len(vertices) - 1
  BY DEF OpenPart
<1>6. meshRanges' = Append(meshRanges, new)
  OBVIOUS
<1> HIDE DEF new
<1> PICK range : range = new
  OBVIOUS
<1>7. ASSUME NEW t \in range.indexStart + 1 .. Len(indices), NEW c \in 1 .. 3
      PROVE  indices[t][c] \in range.vertexBase .. range.vertexBase + range.vertexCount - 1
  <2>1. t \in part.indexStart + 1 .. Len(indices)
    BY <1>3
  <2>2. indices[t][c] \in part.vertexBase .. Len(vertices) - 1
    BY <1>5, <2>1
  <2>3. range.vertexBase = part.vertexBase /\ range.vertexBase + range.vertexCount = Len(vertices)
    BY <1>3
  <2>4. range.vertexBase \in Nat /\ range.vertexCount \in Nat
    BY <1>2 DEF MeshRange
  <2> QED
    BY ONLY <2>2, <2>3, <2>4
<1>8. /\ Grows
      /\ range.vertexBase + range.vertexCount <= Len(vertices')
      /\ range.triStart + range.triCount <= Len(materialIndex')
  BY <1>1, <1>3 DEF Grows, Recorded
<1>9. /\ Recorded'
      /\ VertexEnd(Len(meshRanges))' = range.vertexBase + range.vertexCount
      /\ IndexEnd(Len(meshRanges))' = Len(indices)
      /\ TriEnd(Len(meshRanges))' = range.triStart + range.triCount
  BY <1>2, <1>3, <1>4, <1>6, <1>7, <1>8, RangePushed
<1> QED
  BY <1>3, <1>9 DEF RangesCover

\* A shape with vertices is recorded; one without has no triangle.
LEMMA EndShapeStep ==
  ASSUME IInv, EndShape
  PROVE  IInv'
<1>1. TypeOK /\ Recorded /\ OpenPart /\ OpenShape
  BY Split DEF EndShape, Open
<1>2. UNCHANGED << format, vertices, indices, materialIndex, document >> /\ phase' = "parsing"
  BY DEF EndShape
<1>3. Recorded' /\ RangesCover'
  <2>1. CASE Len(vertices) > part.vertexBase
    <3>1. meshRanges' = Append(meshRanges, PartRange(Len(materialIndex), FALSE))
      BY <2>1 DEF EndShape
    <3>2. Len(materialIndex) - part.triStart = Len(indices) - part.indexStart
      BY <1>1 DEF OpenShape
    <3>3. /\ Len(materialIndex) \in Nat /\ vertices' \in Seq(Vertex) /\ materialIndex' \in Seq(Nat)
          /\ Len(vertices') = Len(vertices) /\ Len(materialIndex') = Len(materialIndex)
          /\ Len(materialIndex) <= Len(materialIndex)
      BY <1>1, <1>2 DEF TypeOK
    <3> QED
      BY <1>1, <1>2, <3>1, <3>2, <3>3, PartClosed
  <2>2. CASE ~(Len(vertices) > part.vertexBase)
    <3>1. /\ part.vertexBase \in Nat /\ part.indexStart \in Nat /\ part.triStart \in Nat
          /\ Len(vertices) \in Nat /\ Len(indices) \in Nat /\ Len(materialIndex) \in Nat
      BY <1>1 DEF TypeOK
    <3>2. Len(vertices) = part.vertexBase
      BY <1>1, <2>2, <3>1 DEF OpenPart
    <3>3. Len(indices) = part.indexStart /\ Len(materialIndex) = part.triStart
      BY <1>1, <3>1, <3>2 DEF OpenShape
    <3>4. RangesCover
      BY <1>1, <3>2, <3>3 DEF OpenPart, RangesCover
    <3>5. meshRanges' = meshRanges
      BY <2>2 DEF EndShape
    <3>6. Recorded'
      BY <1>1, <1>2, <3>5, StayingGrows, RangesKept
    <3>7. RangesCover'
      BY <1>2, <3>4, <3>5 DEF RangesCover, VertexEnd, IndexEnd, TriEnd
    <3> QED
      BY <3>6, <3>7
  <2> QED
    BY <2>1, <2>2
<1>4. TypeOK'
  <2>1. meshRanges' \in Seq(MeshRange)
    BY <1>3 DEF Recorded
  <2> QED
    BY <1>1, <1>2, <2>1 DEF EndShape, TypeOK, NoPart
<1>5. Open' /\ Closed'
  BY <1>2, <1>3 DEF Open, Closed
<1> QED
  BY <1>3, <1>4, <1>5, SplitPrimed

(***************************************************************************)
(* The steps of a primitive.                                               *)
(***************************************************************************)
\* A primitive opens a part with all its vertices, or is skipped.
LEMMA BeginPrimitiveStep ==
  ASSUME IInv, NEW mode \in Modes, NEW vertexCount \in 0 .. MaxVertices,
         NEW traits \in SUBSET Traits, BeginPrimitive(mode, vertexCount, traits)
  PROVE  IInv'
<1>1. TypeOK /\ Recorded /\ RangesCover /\ format = "gltf" /\ phase = "parsing"
  BY Split DEF BeginPrimitive, Closed
<1>2. UNCHANGED << format, indices, materialIndex, meshRanges, meshes >>
  BY DEF BeginPrimitive
<1> DEFINE most == MaxDetail - Detail - Weight(vertexCount, traits)
<1>3. PICK accessor \in IndexAccessors(mode, vertexCount, most) :
        LET p == [mode |-> mode, vertexCount |-> vertexCount, indices |-> accessor, traits |-> traits]
        IN  /\ document' = Append(document, p)
            /\ IF Skips(mode, vertexCount)
               THEN UNCHANGED << phase, vertices, part >>
               ELSE /\ phase' = "part"
                    /\ part' = Here
                    /\ vertices' = vertices \o [i \in 1 .. vertexCount |-> GltfVertex(p, i - 1)]
  BY DEF BeginPrimitive
<1> DEFINE p == [mode |-> mode, vertexCount |-> vertexCount, indices |-> accessor, traits |-> traits]
           new == [i \in 1 .. vertexCount |-> GltfVertex(p, i - 1)]
<1> HIDE DEF most
<1>4. vertexCount \in Nat
  BY MeshRangesAssumption
<1>5. p \in Primitive
  <2>1. accessor \in {None} \cup Seq(Nat)
    BY <1>4 DEF IndexAccessors
  <2> QED
    BY <1>4, <2>1 DEF Primitive
<1>6. /\ document \in Seq(Primitive) /\ document' = Append(document, p) /\ document' \in Seq(Primitive)
      /\ document' # <<>> /\ document'[Len(document')] = p
  <2>1. document \in Seq(Primitive) /\ document' = Append(document, p)
    BY <1>1, <1>3 DEF TypeOK
  <2> HIDE DEF p
  <2> QED
    BY <1>5, <2>1
<1>7. CASE Skips(mode, vertexCount)
  <2>1. UNCHANGED << phase, format, vertices, indices, materialIndex, meshRanges, part >>
    BY <1>2, <1>3, <1>7
  <2>2. TypeOK'
    BY <1>1, <1>6, <2>1 DEF TypeOK
  <2> QED
    BY <1>1, <2>1, <2>2, ArraysKept DEF arrays
<1>8. CASE ~Skips(mode, vertexCount)
  <2>1. phase' = "part" /\ part' = Here /\ vertices' = vertices \o new
    BY <1>3, <1>8
  <2>2. new \in Seq(Vertex) /\ Len(new) = vertexCount
    <3>1. ASSUME NEW i \in 1 .. vertexCount
          PROVE  GltfVertex(p, i - 1) \in Vertex
      BY <1>4, <1>6 DEF GltfVertex, Vertex
    <3>2. new \in [1 .. vertexCount -> Vertex]
      BY <3>1
    <3> HIDE DEF new
    <3> QED
      BY <1>4, <3>2
  <2> HIDE DEF new, p
  <2>3. /\ vertices' \in Seq(Vertex) /\ Len(vertices') = Len(vertices) + vertexCount
        /\ Len(vertices) \in Nat /\ Len(vertices) <= Len(vertices')
    <3>1. vertices \in Seq(Vertex) /\ vertices' = vertices \o new
      BY <1>1, <2>1 DEF TypeOK
    <3>2. vertices' \in Seq(Vertex) /\ Len(vertices') = Len(vertices) + vertexCount
      BY ONLY <3>1, <2>2, ConcatProperties
    <3>3. Len(vertices) \in Nat
      BY <3>1
    <3> QED
      BY <1>4, <3>2, <3>3
  <2>4. /\ OpenPart' /\ part'.vertexBase = Len(vertices) /\ part'.indexStart = Len(indices)
        /\ part'.triStart = Len(materialIndex)
        /\ part' \in [vertexBase : Nat, indexStart : Nat, triStart : Nat, step : Nat]
    BY <1>1, <1>2, <2>1, <2>3, PartOpened
  <2>5. TypeOK'
    BY <1>1, <1>2, <1>6, <2>1, <2>3, <2>4 DEF TypeOK
  <2>6. Recorded'
    BY <1>1, <1>2, <2>3, RangesKept DEF Recorded, Grows
  <2>7. OpenPrimitive'
    BY <1>2, <1>6, <1>8, <2>3, <2>4 DEF OpenPrimitive, primitive, p
  <2>8. Open' /\ Closed'
    BY <1>1, <1>2, <1>6, <2>1, <2>4, <2>7 DEF Open, Closed
  <2> QED
    BY <2>5, <2>6, <2>8, SplitPrimed
<1> QED
  BY <1>7, <1>8

\* The corners a triangle of a primitive takes from its index sequence.
LEMMA StepTriangleType ==
  ASSUME NEW p \in Primitive, ~Skips(p.mode, p.vertexCount), NEW i \in Nat, i < StepCount(p)
  PROVE  \A c \in 1 .. 3 : StepTriangle(p, i)[c] \in Nat
<1> DEFINE seq == localSeq(p)
           n == Len(seq)
<1>1. seq \in Seq(Nat) /\ n \in Nat
  <2>1. CASE p.indices = None
    <3>1. seq = [k \in 1 .. p.vertexCount |-> k - 1] /\ p.vertexCount \in Nat
      BY <2>1 DEF localSeq, Primitive
    <3>2. seq \in [1 .. p.vertexCount -> Nat]
      BY <3>1
    <3> HIDE DEF seq
    <3> QED
      BY <3>1, <3>2
  <2>2. CASE p.indices # None
    <3>1. seq \in Seq(Nat)
      BY <2>2 DEF localSeq, Primitive
    <3> HIDE DEF seq
    <3> QED
      BY <3>1
  <2> QED
    BY <2>1, <2>2
<1>2. \A k \in 1 .. n : seq[k] \in Nat
  <2> HIDE DEF seq
  <2> QED
    BY <1>1
<1>3. p.mode \in {"triangles", "strip", "fan"}
  BY DEF Primitive, Modes, Skips
<1>4. CASE p.mode = "triangles"
  <2>1. i < n \div 3
    BY <1>4 DEF StepCount
  <2>2. 3 * i + 1 \in 1 .. n /\ 3 * i + 2 \in 1 .. n /\ 3 * i + 3 \in 1 .. n
    <3> HIDE DEF n
    <3> QED
      BY <1>1, <2>1
  <2>3. StepTriangle(p, i) = << seq[3 * i + 1], seq[3 * i + 2], seq[3 * i + 3] >>
    BY <1>4 DEF StepTriangle
  <2> HIDE DEF n, seq
  <2> QED
    BY <1>2, <2>2, <2>3
<1>5. CASE p.mode # "triangles"
  <2>1. i < n - 2
    <3>1. i < IF n < 2 THEN 0 ELSE n - 2
      BY <1>5 DEF StepCount
    <3> HIDE DEF n
    <3> QED
      BY <1>1, <3>1
  <2>2. 1 \in 1 .. n /\ i + 1 \in 1 .. n /\ i + 2 \in 1 .. n /\ i + 3 \in 1 .. n
    <3> HIDE DEF n
    <3> QED
      BY <1>1, <2>1
  <2>3. \/ StepTriangle(p, i) = << seq[i + 1], seq[i + 2], seq[i + 3] >>
        \/ StepTriangle(p, i) = << seq[i + 2], seq[i + 1], seq[i + 3] >>
        \/ StepTriangle(p, i) = << seq[1], seq[i + 2], seq[i + 3] >>
    BY <1>3, <1>5 DEF StepTriangle, StripTriangle
  <2> HIDE DEF n, seq
  <2> QED
    BY <1>2, <2>2, <2>3
<1> QED
  BY <1>4, <1>5

\* A triangle of a primitive uses the primitive's vertices, or is dropped.
LEMMA EmitTriangleStep ==
  ASSUME IInv, EmitTriangle
  PROVE  IInv'
<1> DEFINE tri == StepTriangle(primitive, part.step)
           emitted == [c \in 1 .. 3 |->
                         part.vertexBase + IF "mirrored" \in primitive.traits THEN tri[Turned[c]] ELSE tri[c]]
<1>1. /\ TypeOK /\ Recorded /\ document # <<>> /\ OpenPart /\ OpenPrimitive
      /\ format = "gltf" /\ phase = "part"
  BY Split DEF EmitTriangle, Open
<1>2. /\ UNCHANGED << phase, format, vertices, materialIndex, meshRanges, document, meshes >>
      /\ part' = [part EXCEPT !.step = @ + 1]
  BY DEF EmitTriangle
<1>3. primitive \in Primitive
  <2>1. document \in Seq(Primitive)
    BY <1>1 DEF TypeOK
  <2> QED
    BY <1>1, <2>1 DEF primitive
<1>4. /\ UNCHANGED << part.vertexBase, part.indexStart, part.triStart >>
      /\ part' \in [vertexBase : Nat, indexStart : Nat, triStart : Nat, step : Nat]
  <2>1. part \in [vertexBase : Nat, indexStart : Nat, triStart : Nat, step : Nat]
    BY <1>1 DEF TypeOK
  <2>2. /\ part'.vertexBase = part.vertexBase /\ part'.indexStart = part.indexStart
        /\ part'.triStart = part.triStart
    BY ONLY <1>2, <2>1
  <2>3. part' \in [vertexBase : Nat, indexStart : Nat, triStart : Nat, step : Nat]
    BY ONLY <1>2, <2>1
  <2> QED
    BY <2>2, <2>3
<1>5. part.vertexBase \in Nat /\ primitive.vertexCount \in Nat /\ part.step \in Nat
  BY <1>1, <1>3 DEF TypeOK, Primitive
<1>6. \A c \in 1 .. 3 : tri[c] \in Nat
  BY <1>1, <1>3, <1>5, StepTriangleType DEF EmitTriangle, OpenPrimitive
<1>7. \/ indices' = indices
      \/ \E t \in Triangle :
           /\ indices' = Append(indices, t)
           /\ \A c \in 1 .. 3 : t[c] \in part.vertexBase .. Len(vertices') - 1
  <2>1. CASE \E c \in 1 .. 3 : tri[c] >= primitive.vertexCount
    BY <2>1 DEF EmitTriangle
  <2>2. CASE \A c \in 1 .. 3 : tri[c] < primitive.vertexCount
    <3>1. indices' = Append(indices, emitted)
      <4>1. ~(\E c \in 1 .. 3 : tri[c] >= primitive.vertexCount)
        BY <1>5, <1>6, <2>2
      <4> QED
        BY <4>1 DEF EmitTriangle
    <3>2. Len(vertices') = part.vertexBase + primitive.vertexCount
      BY <1>1, <1>2 DEF OpenPrimitive
    <3> HIDE DEF tri
    <3>3. \A c \in 1 .. 3 : emitted[c] \in part.vertexBase .. part.vertexBase + primitive.vertexCount - 1
      BY <1>5, <1>6, <2>2 DEF Turned
    <3>4. emitted \in Triangle
      BY <1>5, <1>6 DEF Triangle, Turned
    <3> HIDE DEF emitted
    <3>5. \A c \in 1 .. 3 : emitted[c] \in part.vertexBase .. Len(vertices') - 1
      BY ONLY <1>5, <3>2, <3>3
    <3> QED
      BY <3>1, <3>4, <3>5
  <2> QED
    BY <1>5, <1>6, <2>1, <2>2
<1> HIDE DEF tri, emitted
<1>8. Recorded' /\ OpenPart' /\ indices' \in Seq(Triangle)
  <2>1. /\ vertices' \in Seq(Vertex) /\ Len(vertices) <= Len(vertices')
        /\ materialIndex' \in Seq(Nat) /\ Len(materialIndex) <= Len(materialIndex')
    BY <1>1, <1>2 DEF TypeOK
  <2> QED
    BY <1>1, <1>2, <1>4, <1>7, <2>1, PartGrows
<1>9. TypeOK'
  BY <1>1, <1>2, <1>4, <1>8 DEF TypeOK, Triangle
<1>10. OpenPrimitive'
  BY <1>1, <1>2, <1>4 DEF OpenPrimitive, primitive
<1>11. Open' /\ Closed'
  BY <1>1, <1>2, <1>8, <1>10 DEF Open, Closed
<1> QED
  BY <1>8, <1>9, <1>11, SplitPrimed

\* A closed primitive has a material id for each of its triangles.
LEMMA EndPrimitiveStep ==
  ASSUME IInv, EndPrimitive
  PROVE  IInv'
<1> DEFINE id == IF HasMaterial(primitive) THEN 0 ELSE fallbackMaterial
           ids == [t \in 1 .. emittedTriangles |-> id]
<1>1. TypeOK /\ Recorded /\ OpenPart /\ OpenPrimitive
  BY Split DEF EndPrimitive, Open
<1>2. /\ UNCHANGED << format, indices, document, meshes >> /\ phase' = "parsing"
      /\ materialIndex' = materialIndex \o ids
      /\ meshRanges' = Append(meshRanges,
                              PartRange(Len(materialIndex'), "doubleSided" \in primitive.traits))
  BY DEF EndPrimitive
<1>3. vertices' \in Seq(Vertex) /\ Len(vertices') = Len(vertices)
  <2> DEFINE flat == IF "normals" \in primitive.traits THEN vertices
                     ELSE computeFlatNormals(vertices, indices, part.indexStart)
  <2>1. vertices \in Seq(Vertex)
    BY <1>1 DEF TypeOK
  <2>2. flat \in Seq(Vertex) /\ Len(flat) = Len(vertices)
    BY <2>1, AttributesType
  <2>3. vertices' = IF "tangents" \in primitive.traits THEN flat
                    ELSE computeTangents(flat, indices, part.indexStart)
    BY DEF EndPrimitive
  <2> HIDE DEF flat
  <2> QED
    BY <2>2, <2>3, AttributesType
<1>4. /\ part.indexStart \in Nat /\ part.triStart \in Nat /\ Len(indices) \in Nat
      /\ Len(materialIndex) \in Nat /\ part.indexStart <= Len(indices)
      /\ Len(materialIndex) = part.triStart
  BY <1>1 DEF TypeOK, OpenPart, OpenPrimitive
<1>5. emittedTriangles \in Nat /\ emittedTriangles = Len(indices) - part.indexStart
  BY <1>4 DEF emittedTriangles
<1>6. /\ materialIndex' \in Seq(Nat)
      /\ Len(materialIndex') = Len(materialIndex) + emittedTriangles
  <2>1. id \in Nat
    BY DEF fallbackMaterial
  <2> HIDE DEF id
  <2>2. ids \in [1 .. emittedTriangles -> Nat]
    BY <2>1
  <2> HIDE DEF ids
  <2>3. ids \in Seq(Nat) /\ Len(ids) = emittedTriangles
    BY ONLY <1>5, <2>2
  <2>4. materialIndex \in Seq(Nat)
    BY <1>1 DEF TypeOK
  <2> QED
    BY ONLY <1>2, <2>3, <2>4, ConcatProperties
<1>7. /\ Len(materialIndex') \in Nat
      /\ Len(materialIndex') - part.triStart = Len(indices) - part.indexStart
  BY <1>4, <1>5, <1>6
<1>8. Recorded' /\ RangesCover'
  <2>1. PICK triEnd : triEnd = Len(materialIndex')
    OBVIOUS
  <2>2. PICK doubleSided \in BOOLEAN : doubleSided = ("doubleSided" \in primitive.traits)
    BY ("doubleSided" \in primitive.traits) \in BOOLEAN, Zenon
  <2>3. /\ meshRanges' = Append(meshRanges, PartRange(triEnd, doubleSided))
        /\ triEnd \in Nat /\ triEnd - part.triStart = Len(indices) - part.indexStart
    BY <1>2, <1>7, <2>1, <2>2
  <2>4. Len(materialIndex) <= triEnd
    BY <1>4, <1>5, <1>6, <2>1
  <2> QED
    BY <1>1, <1>2, <1>3, <1>6, <2>1, <2>3, <2>4, PartClosed
<1>9. TypeOK'
  <2>1. meshRanges' \in Seq(MeshRange)
    BY <1>8 DEF Recorded
  <2> QED
    BY <1>1, <1>2, <1>3, <1>6, <2>1 DEF EndPrimitive, TypeOK, NoPart
<1>10. Open' /\ Closed'
  BY <1>2, <1>8 DEF Open, Closed
<1> QED
  BY <1>8, <1>9, <1>10, SplitPrimed

(***************************************************************************)
(* The theorems.                                                           *)
(***************************************************************************)
\* A step that changes none of the variables.
LEMMA StutteringStep ==
  ASSUME IInv, UNCHANGED vars
  PROVE  IInv'
<1>1. /\ UNCHANGED << phase, format, vertices, indices, materialIndex, meshRanges >>
      /\ UNCHANGED << part, document, meshes >>
  BY DEF vars, arrays
<1>2. TypeOK /\ Recorded /\ Closed /\ Open
  BY Split
<1>3. TypeOK'
  BY <1>1, <1>2 DEF TypeOK
<1>4. Recorded'
  BY <1>1, <1>2, StayingGrows, RangesKept
<1>5. Closed'
  BY <1>1, <1>2 DEF Closed, RangesCover, VertexEnd, IndexEnd, TriEnd
<1>6. OpenPart => OpenPart'
  BY <1>1 DEF OpenPart, VertexEnd, IndexEnd, TriEnd
<1>7. Open'
  BY <1>1, <1>2, <1>6 DEF Open, OpenShape, OpenPrimitive, primitive
<1> QED
  BY <1>3, <1>4, <1>5, <1>7, SplitPrimed

\* Every step of a loader and of the upload preserves the invariant.
LEMMA NextIInv == IInv /\ [Next]_vars => IInv'
<1> SUFFICES ASSUME IInv, [Next]_vars PROVE IInv'
  OBVIOUS
<1>1. ASSUME NEW f \in {"obj", "gltf"}, parseCpu(f) PROVE IInv'
  BY <1>1, ParseCpuStep
<1>2. CASE BeginShape
  BY <1>2, BeginShapeStep
<1>3. ASSUME NEW face \in Faces \cup {Bad}, ReadFace(face) PROVE IInv'
  BY <1>3, ReadFaceStep
<1>4. CASE EndShape
  BY <1>4, EndShapeStep
<1>5. CASE ObjParsed
  BY <1>5, ObjParsedStep
<1>6. ASSUME NEW mode \in Modes, NEW vertexCount \in 0 .. MaxVertices, NEW traits \in SUBSET Traits,
             BeginPrimitive(mode, vertexCount, traits)
      PROVE  IInv'
  BY <1>6, BeginPrimitiveStep
<1>7. CASE EmitTriangle
  BY <1>7, EmitTriangleStep
<1>8. CASE EndPrimitive
  BY <1>8, EndPrimitiveStep
<1>9. CASE GltfParsed
  BY <1>9, GltfParsedStep
<1>10. CASE uploadParsed
  BY <1>10, UploadParsedStep
<1>11. CASE UNCHANGED vars
  BY <1>11, StutteringStep
<1> QED
  BY <1>1, <1>2, <1>3, <1>4, <1>5, <1>6, <1>7, <1>8, <1>9, <1>10, <1>11 DEF Next

\* In every reachable state of a loader the recorded ranges tile the arrays and
\* the open part continues them (loadVertices(), processPrimitive()).
THEOREM SpecIInv == Spec => []IInv
<1> QED
  BY InitIInv, NextIInv, PTL DEF Spec

\* Whatever shapes, primitives and faces a document has, its ranges tile the
\* loader's arrays and draw nothing of one another (loadVertices(),
\* processPrimitive()).
THEOREM RangesAlwaysTile == Spec => []RangesTile
<1>1. IInv => RangesTile
  BY DEF IInv
<1> QED
  BY <1>1, SpecIInv, PTL

\* The loader's arrays, the open part and the document keep their types.
THEOREM TypeCorrect == Spec => []TypeOK
<1>1. IInv => TypeOK
  BY DEF IInv
<1> QED
  BY <1>1, SpecIInv, PTL

\* A set of naturals that has zero and every successor has all of them.
LEMMA InductiveSets ==
  ASSUME NEW S, 0 \in S, \A n \in Nat : n \in S => n + 1 \in S
  PROVE  \A n \in Nat : n \in S
<1>. SUFFICES ASSUME NEW m \in Nat, m \notin S PROVE FALSE
  OBVIOUS
<1>. DEFINE T == { n \in Nat : n \notin S }
<1>1. T \subseteq Nat /\ T # {}
  OBVIOUS
<1>. HIDE DEF T
<1>. DEFINE R == { ss \in Nat \X Nat : ss[1] < ss[2] }
<1>2. IsWellFoundedOn(R, Nat)
  BY NatLessThanWellFounded DEF OpToRel
<1>. HIDE DEF R
<1>3. PICK n \in T : \A k \in T : << k, n >> \notin R
  BY <1>1, <1>2, WFMin
<1>4. n \in Nat /\ n # 0 /\ n \notin S
  BY <1>1, <1>3 DEF T
<1>5. n - 1 \in Nat /\ (n - 1) + 1 = n /\ n - 1 < n
  BY <1>4
<1>6. n - 1 \in S
  BY <1>1, <1>3, <1>4, <1>5 DEF T, R
<1>. QED
  BY <1>4, <1>5, <1>6

\* A run of `Kept` over the first m entries.
KeptRun(seq, S, g, m) ==
  /\ g \in [0 .. m -> Seq(S)]
  /\ g[0] = <<>>
  /\ \A n \in 1 .. m : g[n] = IF seq[n] \in S THEN Append(g[n - 1], seq[n]) ELSE g[n - 1]

\* There is one.
LEMMA KeptRunExists ==
  ASSUME NEW seq, NEW S, NEW N \in Nat
  PROVE  \E g : KeptRun(seq, S, g, N)
<1>. DEFINE T == { m \in Nat : \E g : KeptRun(seq, S, g, m) }
<1>1. 0 \in T
  <2>1. KeptRun(seq, S, [n \in 0 .. 0 |-> <<>>], 0)
    BY DEF KeptRun
  <2>. QED
    BY <2>1
<1>2. ASSUME NEW m \in Nat, m \in T PROVE m + 1 \in T
  <2>1. PICK g : KeptRun(seq, S, g, m)
    BY <1>2
  <2>. DEFINE new == IF seq[m + 1] \in S THEN Append(g[m], seq[m + 1]) ELSE g[m]
              h == [n \in 0 .. m + 1 |-> IF n = m + 1 THEN new ELSE g[n]]
  <2>2. g[m] \in Seq(S) /\ new \in Seq(S)
    BY <2>1 DEF KeptRun
  <2>. HIDE DEF new
  <2>3. h \in [0 .. m + 1 -> Seq(S)] /\ h[0] = <<>>
    BY <2>1, <2>2 DEF KeptRun
  <2>4. ASSUME NEW n \in 1 .. m + 1
        PROVE  h[n] = IF seq[n] \in S THEN Append(h[n - 1], seq[n]) ELSE h[n - 1]
    <3>1. CASE n = m + 1
      <4>1. h[n] = new /\ h[n - 1] = g[m]
        BY <3>1
      <4>. HIDE DEF h
      <4>. QED
        BY <3>1, <4>1 DEF new
    <3>2. CASE n \in 1 .. m
      <4>1. h[n] = g[n] /\ h[n - 1] = g[n - 1]
        BY <3>2
      <4>. HIDE DEF h
      <4>. QED
        BY <2>1, <3>2, <4>1 DEF KeptRun
    <3>. QED
      BY <3>1, <3>2
  <2>5. KeptRun(seq, S, h, m + 1)
    <3>. HIDE DEF h
    <3>. QED
      BY <2>3, <2>4 DEF KeptRun
  <2>. QED
    BY <2>5
<1>. HIDE DEF T
<1>3. N \in T
  BY <1>1, <1>2, InductiveSets
<1>. QED
  BY <1>3 DEF T

\* It ends at what Kept returns.
LEMMA KeptIsRun ==
  ASSUME NEW seq, Len(seq) \in Nat, NEW S
  PROVE  \E g : KeptRun(seq, S, g, Len(seq)) /\ Kept(seq, S) = g[Len(seq)]
<1>. DEFINE N == Len(seq)
            kept == CHOOSE g : g = [n \in 0 .. N |->
                      IF n = 0 THEN <<>>
                      ELSE IF seq[n] \in S THEN Append(g[n - 1], seq[n]) ELSE g[n - 1]]
<1>0. N \in Nat
  OBVIOUS
<1>1. PICK g : KeptRun(seq, S, g, N)
  BY KeptRunExists
<1>. HIDE DEF N
<1>2. \A n \in 0 .. N : g[n] = IF n = 0 THEN <<>>
                              ELSE IF seq[n] \in S THEN Append(g[n - 1], seq[n]) ELSE g[n - 1]
  <2>1. g[0] = <<>>
    BY <1>1 DEF KeptRun
  <2>2. \A n \in 1 .. N : g[n] = IF seq[n] \in S THEN Append(g[n - 1], seq[n]) ELSE g[n - 1]
    BY <1>1 DEF KeptRun
  <2>3. \A n \in 0 .. N : n = 0 \/ (n # 0 /\ n \in 1 .. N)
    BY <1>0
  <2>. QED
    BY <2>1, <2>2, <2>3, Zenon
<1>3. g = [n \in 0 .. N |->
             IF n = 0 THEN <<>>
             ELSE IF seq[n] \in S THEN Append(g[n - 1], seq[n]) ELSE g[n - 1]]
  BY <1>1, <1>2 DEF KeptRun
<1>4. kept = [n \in 0 .. N |->
             IF n = 0 THEN <<>>
             ELSE IF seq[n] \in S THEN Append(kept[n - 1], seq[n]) ELSE kept[n - 1]]
  BY <1>3
<1>5. Kept(seq, S) = kept[N]
  BY DEF Kept, N
<1>. HIDE DEF kept
<1>6. ASSUME NEW m \in Nat, m <= N, kept[m] = g[m] PROVE m + 1 <= N => kept[m + 1] = g[m + 1]
  <2>. SUFFICES ASSUME m + 1 <= N PROVE kept[m + 1] = g[m + 1]
    OBVIOUS
  <2>1. m + 1 \in 0 .. N /\ m + 1 # 0 /\ (m + 1) - 1 = m
    BY DEF N
  <2>2. kept[m + 1] = IF seq[m + 1] \in S THEN Append(kept[m], seq[m + 1]) ELSE kept[m]
    BY <1>4, <2>1
  <2>. QED
    BY <1>2, <1>6, <2>1, <2>2
<1>7. kept[0] = g[0]
  <2>1. 0 \in 0 .. N
    BY DEF N
  <2>. QED
    BY <1>2, <1>4, <2>1
<1>8. \A m \in Nat : m \in { n \in Nat : n <= N => kept[n] = g[n] }
  <2>. DEFINE E == { n \in Nat : n <= N => kept[n] = g[n] }
  <2>1. 0 \in E
    BY <1>7
  <2>2. \A n \in Nat : n \in E => n + 1 \in E
    BY <1>6 DEF N
  <2>. HIDE DEF E
  <2>3. \A n \in Nat : n \in E
    BY <2>1, <2>2, InductiveSets
  <2>. QED
    BY <2>3 DEF E
<1>9. kept[N] = g[N]
  BY <1>8 DEF N
<1>. QED
  BY <1>1, <1>5, <1>9 DEF N

\* Two runs that see the same entries kept agree.
LEMMA KeptRunsAgree ==
  ASSUME NEW seq, NEW S, NEW g, NEW m \in Nat, KeptRun(seq, S, g, m),
         NEW other, NEW R, NEW h, NEW k \in Nat, KeptRun(other, R, h, k), m <= k,
         \A n \in 1 .. m : seq[n] = other[n] /\ (seq[n] \in S <=> seq[n] \in R)
  PROVE  g[m] = h[m]
<1>. DEFINE E == { n \in Nat : n <= m => g[n] = h[n] }
<1>1. 0 \in E
  BY DEF KeptRun
<1>2. ASSUME NEW n \in Nat, n \in E PROVE n + 1 \in E
  <2>. SUFFICES ASSUME n + 1 <= m PROVE g[n + 1] = h[n + 1]
    OBVIOUS
  <2>1. n + 1 \in 1 .. m /\ n + 1 \in 1 .. k /\ (n + 1) - 1 = n /\ g[n] = h[n]
    BY <1>2
  <2>2. g[n + 1] = IF seq[n + 1] \in S THEN Append(g[n], seq[n + 1]) ELSE g[n]
    BY <2>1 DEF KeptRun
  <2>3. h[n + 1] = IF other[n + 1] \in R THEN Append(h[n], other[n + 1]) ELSE h[n]
    BY <2>1 DEF KeptRun
  <2>. QED
    BY <2>1, <2>2, <2>3
<1>. HIDE DEF E
<1>3. m \in E
  BY <1>1, <1>2, InductiveSets
<1>. QED
  BY <1>3 DEF E

\* Nothing is kept of nothing.
LEMMA KeptEmpty ==
  ASSUME NEW seq, Len(seq) = 0, NEW S
  PROVE  Kept(seq, S) = <<>>
BY KeptIsRun DEF KeptRun

\* What is kept is in the set.
LEMMA KeptType ==
  ASSUME NEW seq, Len(seq) \in Nat, NEW S
  PROVE  Kept(seq, S) \in Seq(S)
BY KeptIsRun DEF KeptRun

\* Only the entries of the sequence matter.
LEMMA KeptSame ==
  ASSUME NEW seq, Len(seq) \in Nat, NEW other, Len(other) = Len(seq), NEW S, NEW R,
         \A n \in 1 .. Len(seq) : seq[n] = other[n] /\ (seq[n] \in S <=> seq[n] \in R)
  PROVE  Kept(seq, S) = Kept(other, R)
<1>1. PICK g : KeptRun(seq, S, g, Len(seq)) /\ Kept(seq, S) = g[Len(seq)]
  BY KeptIsRun
<1>2. PICK h : KeptRun(other, R, h, Len(other)) /\ Kept(other, R) = h[Len(other)]
  BY KeptIsRun
<1>3. g[Len(seq)] = h[Len(seq)]
  BY <1>1, <1>2, KeptRunsAgree
<1>. QED
  BY <1>1, <1>2, <1>3

\* A sequence one entry longer.
LEMMA KeptOneMore ==
  ASSUME NEW seq, NEW n \in Nat, Len(seq) = n, NEW other, Len(other) = n + 1, NEW S, NEW R,
         \A m \in 1 .. n : seq[m] = other[m] /\ (seq[m] \in S <=> seq[m] \in R)
  PROVE  Kept(other, R) = IF other[n + 1] \in R THEN Append(Kept(seq, S), other[n + 1])
                          ELSE Kept(seq, S)
<1>1. PICK g : KeptRun(seq, S, g, n) /\ Kept(seq, S) = g[n]
  BY KeptIsRun
<1>2. PICK h : KeptRun(other, R, h, n + 1) /\ Kept(other, R) = h[n + 1]
  BY KeptIsRun
<1>3. g[n] = h[n]
  BY <1>1, <1>2, KeptRunsAgree
<1>4. h[n + 1] = IF other[n + 1] \in R THEN Append(h[n], other[n + 1]) ELSE h[n]
  <2>1. n + 1 \in 1 .. n + 1 /\ (n + 1) - 1 = n
    OBVIOUS
  <2>. QED
    BY <1>2, <2>1 DEF KeptRun
<1>. QED
  BY <1>1, <1>2, <1>3, <1>4

(***************************************************************************)
(* What is drawn so far: the parts read to their end, each with its range, *)
(* and the open part with the triangles it has.                            *)
(***************************************************************************)
\* The parts read to their end, and of them those a range is recorded for.
Ended == Len(document) - IF phase = "part" THEN 1 ELSE 0

Drawn == { number \in DOMAIN document : IsDrawn(number) }

EndedParts == Kept([number \in 1 .. Ended |-> number], Drawn)

\* From the triangle after `first` the arrays hold the given triangles, and from
\* the material id after `start` the given materials.
Lists(first, tris) ==
  \A t \in 1 .. Len(tris) : SameFace(tris[t], CornersAt(vertices, indices[first + t]))

ListsIds(start, ids) == \A t \in 1 .. Len(ids) : materialIndex[start + t] = ids[t]

\* Range r draws part `number` of the document.
RangeDraws(r, number) ==
  /\ meshRanges[r].indexCount = Len(AuthoredTriangles(number))
  /\ Lists(meshRanges[r].indexStart, AuthoredTriangles(number))
  /\ ListsIds(meshRanges[r].triStart, AuthoredMaterials(number))

Drawing ==
  /\ Len(meshRanges) = Len(EndedParts)
  /\ \A r \in DOMAIN meshRanges : RangeDraws(r, EndedParts[r])

\* The open shape draws the faces read so far, and has vertices for nothing
\* else.
ShapeDraws ==
  /\ Len(indices) = part.indexStart => Len(vertices) = part.vertexBase
  /\ Len(indices) - part.indexStart = Len(AuthoredTriangles(Len(document)))
  /\ Lists(part.indexStart, AuthoredTriangles(Len(document)))
  /\ ListsIds(part.triStart, AuthoredMaterials(Len(document)))

\* The open primitive has its vertices, and draws the steps taken so far.
PrimitiveDraws ==
  /\ part.step <= StepCount(primitive)
  /\ \A i \in 1 .. primitive.vertexCount :
       vertices[part.vertexBase + i].corner = << Len(document), i - 1 >>
  /\ Len(indices) - part.indexStart = Len(AuthoredSteps(Len(document), primitive, part.step))
  /\ Lists(part.indexStart, AuthoredSteps(Len(document), primitive, part.step))

OpenDraws ==
  phase = "part" => /\ format = "obj" => ShapeDraws
                    /\ format = "gltf" => PrimitiveDraws

\* The meshes are the slices of the arrays, and there is one at least.
Uploaded ==
  /\ phase = "uploaded" => meshRanges # <<>> /\ meshes = MeshesForRanges(Parsed)
  /\ phase = "parsed" /\ vertices # <<>> => meshRanges # <<>>

DInv == Drawing /\ OpenDraws /\ Uploaded

\* Triangle t is shaded: if it has area, its corners have a normal and a
\* tangent.
ShadedCorner(vertex) ==
  vertex.normal \in {"authored", "flat"} /\ vertex.tangent \in {"authored", "computed"}

Shaded(t) ==
  HasArea(vertices, indices[t]) => \A c \in 1 .. 3 : ShadedCorner(vertices[indices[t][c] + 1])

\* A vertex has what its primitive brings.
Brings(p, vertex) ==
  /\ "normals" \in p.traits => vertex.normal = "authored"
  /\ "tangents" \in p.traits => vertex.tangent = "authored"

\* The triangles of range r are shaded.
TrianglesShaded(r) ==
  \A t \in 1 .. meshRanges[r].indexCount : Shaded(meshRanges[r].indexStart + t)

\* Range r is done with: its vertices have what part `number` brings as well.
RangeShaded(r, number) ==
  /\ TrianglesShaded(r)
  /\ \A v \in 1 .. meshRanges[r].vertexCount :
       Brings(document[number], vertices[meshRanges[r].vertexBase + v])

\* In an OBJ document normals and tangents are completed at its end, ...
ShapesShaded ==
  /\ phase \in {"parsing", "part"} =>
       \A v \in 1 .. Len(vertices) : vertices[v].normal \in {"authored", "zero"}
  /\ phase \in {"parsed", "uploaded"} => \A r \in DOMAIN meshRanges : TrianglesShaded(r)

\* ... in a glTF document at the end of each primitive, which leaves the
\* vertices of the primitives before it alone.
PrimitivesShaded ==
  /\ \A r \in DOMAIN meshRanges : RangeShaded(r, EndedParts[r])
  /\ phase = "part" =>
       /\ \A i \in 1 .. primitive.vertexCount : Brings(primitive, vertices[part.vertexBase + i])
       /\ \A r \in DOMAIN meshRanges : VertexEnd(r) <= part.vertexBase

AInv ==
  /\ format = "obj" => ShapesShaded
  /\ format = "gltf" => PrimitivesShaded

(***************************************************************************)
(* What the document says, in a step that reads on.                        *)
(***************************************************************************)
\* A step that appends to the arrays and moves no corner of the document.
ShownKept ==
  /\ \A v \in 1 .. Len(vertices) : vertices'[v].corner = vertices[v].corner
  /\ \A t \in 1 .. Len(indices) : indices'[t] = indices[t]
  /\ \A t \in 1 .. Len(materialIndex) : materialIndex'[t] = materialIndex[t]

\* The document is read on: what is read to its end stays.
ReadOn ==
  /\ format' = format
  /\ Ended <= Len(document')
  /\ \A number \in 1 .. Ended : document'[number] = document[number]

\* What a part says is in the part alone (loadVertices(), processPrimitive()).
LEMMA AuthoredStays ==
  ASSUME NEW number, document'[number] = document[number], format' = format
  PROVE  /\ AuthoredTriangles(number)' = AuthoredTriangles(number)
         /\ AuthoredMaterials(number)' = AuthoredMaterials(number)
         /\ IsDrawn(number)' = IsDrawn(number)
<1>1. AuthoredTriangles(number)' = AuthoredTriangles(number)
  BY DEF AuthoredTriangles
<1>2. AuthoredMaterials(number)' = AuthoredMaterials(number)
  BY <1>1 DEF AuthoredMaterials
<1> QED
  BY <1>1, <1>2 DEF IsDrawn

\* A face is a shape's triangle (loadVertices()).
LEMMA KeptFacesType ==
  ASSUME NEW p \in Shape
  PROVE  KeptFaces(p) \in Seq(Faces \ {Bad})
<1>1. Len(p.faces) \in Nat
  BY DEF Shape
<1> QED
  BY <1>1, KeptType DEF KeptFaces

\* The length of a primitive's index sequence bounds its steps.
LEMMA StepCountType ==
  ASSUME NEW p \in Primitive
  PROVE  /\ StepCount(p) \in Nat /\ localSeq(p) \in Seq(Nat) /\ Len(localSeq(p)) \in Nat
<1>1. localSeq(p) \in Seq(Nat)
  <2>1. CASE p.indices = None
    <3>1. localSeq(p) = [k \in 1 .. p.vertexCount |-> k - 1] /\ p.vertexCount \in Nat
      BY <2>1 DEF localSeq, Primitive
    <3> QED
      BY <3>1
  <2>2. CASE p.indices # None
    BY <2>2 DEF localSeq, Primitive
  <2> QED
    BY <2>1, <2>2
<1>2. Len(localSeq(p)) \in Nat
  BY <1>1
<1> QED
  BY <1>1, <1>2 DEF StepCount

\* One material id for every triangle a part is authored with.
LEMMA AuthoredLengths ==
  ASSUME TypeOK, NEW number \in DOMAIN document
  PROVE  /\ Len(AuthoredTriangles(number)) \in Nat
         /\ Len(AuthoredMaterials(number)) = Len(AuthoredTriangles(number))
         /\ DOMAIN AuthoredTriangles(number) = 1 .. Len(AuthoredTriangles(number))
         /\ DOMAIN AuthoredMaterials(number) = 1 .. Len(AuthoredTriangles(number))
<1> DEFINE p == document[number]
<1>1. CASE format = "obj"
  <2>1. p \in Shape
    BY <1>1 DEF TypeOK
  <2>2. KeptFaces(p) \in Seq(Faces \ {Bad})
    BY <2>1, KeptFacesType
  <2>3. AuthoredTriangles(number) = [t \in DOMAIN KeptFaces(p) |-> KeptFaces(p)[t].corners]
    BY <1>1 DEF AuthoredTriangles
  <2>4. AuthoredMaterials(number) =
          [t \in DOMAIN KeptFaces(p) |->
             IF KeptFaces(p)[t].material = None THEN 0 ELSE KeptFaces(p)[t].material]
    BY <1>1 DEF AuthoredMaterials
  <2> HIDE DEF p
  <2>5. DOMAIN KeptFaces(p) = 1 .. Len(KeptFaces(p)) /\ Len(KeptFaces(p)) \in Nat
    BY <2>2
  <2> QED
    BY <2>3, <2>4, <2>5
<1>2. CASE format # "obj"
  <2>1. format = "gltf" /\ p \in Primitive
    BY <1>2 DEF TypeOK
  <2>2. \E S : AuthoredTriangles(number) \in Seq(S)
    <3>1. CASE p.mode = "points"
      <4>1. AuthoredTriangles(number) = <<>>
        BY <1>2, <3>1 DEF AuthoredTriangles
      <4> QED
        BY <4>1
    <3>2. CASE p.mode # "points"
      <4> DEFINE seq == [i \in 1 .. StepCount(p) |-> AuthoredTriangle(number, p, i - 1)]
                 S == [1 .. 3 -> {number} \X (0 .. p.vertexCount - 1)]
      <4>1. AuthoredTriangles(number) = Kept(seq, S)
        BY <1>2, <3>2 DEF AuthoredTriangles, AuthoredSteps
      <4>2. Len(seq) \in Nat
        <5>1. StepCount(p) \in Nat
          BY <2>1, StepCountType
        <5> QED
          BY <5>1
      <4> HIDE DEF seq, S
      <4> QED
        BY <4>1, <4>2, KeptType
    <3> QED
      BY <3>1, <3>2
  <2>3. AuthoredMaterials(number) =
          [t \in DOMAIN AuthoredTriangles(number) |-> IF HasMaterial(p) THEN 0 ELSE fallbackMaterial]
    BY <1>2 DEF AuthoredMaterials
  <2>4. Len(AuthoredTriangles(number)) \in Nat
        /\ DOMAIN AuthoredTriangles(number) = 1 .. Len(AuthoredTriangles(number))
    BY <2>2
  <2> QED
    BY <2>3, <2>4
<1> QED
  BY <1>1, <1>2

\* The parts read to their end are parts of the document.
LEMMA EndedType ==
  ASSUME TypeOK, phase = "part" => document # <<>>
  PROVE  /\ Ended \in Nat /\ Ended <= Len(document) /\ Len(document) \in Nat
         /\ DOMAIN document = 1 .. Len(document)
         /\ EndedParts \in Seq(1 .. Ended)
<1>1. \E S : document \in Seq(S)
  BY DEF TypeOK
<1>2. Len(document) \in Nat /\ DOMAIN document = 1 .. Len(document)
      /\ (document # <<>> => Len(document) > 0)
  BY <1>1
<1>3. Ended \in Nat /\ Ended <= Len(document)
  BY <1>2 DEF Ended
<1> DEFINE seq == [number \in 1 .. Ended |-> number]
<1>4. Len(seq) = Ended /\ \A n \in 1 .. Ended : seq[n] = n
  BY <1>3
<1>5. Kept(seq, Drawn) = Kept(seq, Drawn \cap (1 .. Ended))
  <2> HIDE DEF seq
  <2> QED
    BY <1>3, <1>4, KeptSame
<1>6. Kept(seq, Drawn \cap (1 .. Ended)) \in Seq(Drawn \cap (1 .. Ended))
  <2> HIDE DEF seq
  <2> QED
    BY <1>3, <1>4, KeptType
<1>7. EndedParts \in Seq(Drawn \cap (1 .. Ended))
  BY <1>5, <1>6 DEF EndedParts
<1> QED
  BY <1>2, <1>3, <1>7

\* Between the parts, all parts have ended.
LEMMA EndedPrimed ==
  ASSUME TypeOK', phase' # "part"
  PROVE  Ended' = Len(document')
<1>1. \E S : document' \in Seq(S)
  BY DEF TypeOK
<1>2. PICK n \in Nat : n = Len(document')
  BY <1>1
<1>3. Ended' = n - 0 /\ n - 0 = n
  BY <1>2 DEF Ended
<1> QED
  BY <1>2, <1>3

\* While no part ends, the parts that did stay the same.
LEMMA EndedStays ==
  ASSUME TypeOK, TypeOK', phase = "part" => document # <<>>, phase' = "part" => document' # <<>>,
         ReadOn, Ended' = Ended
  PROVE  EndedParts' = EndedParts
<1>1. /\ Ended \in Nat /\ Ended <= Len(document) /\ Len(document) \in Nat
      /\ DOMAIN document = 1 .. Len(document)
  BY EndedType
<1>2. Len(document') \in Nat /\ DOMAIN document' = 1 .. Len(document')
  <2>1. \E S : document' \in Seq(S)
    BY DEF TypeOK
  <2> QED
    BY <2>1
<1>3. ASSUME NEW n \in 1 .. Ended PROVE n \in Drawn <=> n \in Drawn'
  <2>1. document'[n] = document[n] /\ format' = format
    BY DEF ReadOn
  <2>2. IsDrawn(n)' = IsDrawn(n)
    BY <2>1, AuthoredStays
  <2>3. n \in DOMAIN document /\ n \in DOMAIN document'
    BY <1>1, <1>2 DEF ReadOn
  <2> QED
    BY <2>2, <2>3 DEF Drawn
<1> DEFINE seq == [number \in 1 .. Ended |-> number]
<1>4. Len(seq) = Ended /\ \A n \in 1 .. Ended : seq[n] = n
  BY <1>1
<1>5. EndedParts = Kept(seq, Drawn) /\ EndedParts' = Kept(seq, Drawn')
  BY DEF EndedParts
<1> HIDE DEF seq
<1> QED
  BY <1>1, <1>3, <1>4, <1>5, KeptSame

\* A part that ends is drawn after the others, or is not drawn.
LEMMA EndedOneMore ==
  ASSUME TypeOK, TypeOK', phase = "part" => document # <<>>, phase' = "part" => document' # <<>>,
         ReadOn, NEW n \in Nat, n = Ended, Ended' = n + 1
  PROVE  EndedParts' = IF IsDrawn(n + 1)' THEN Append(EndedParts, n + 1) ELSE EndedParts
<1>1. /\ Ended \in Nat /\ Ended <= Len(document) /\ Len(document) \in Nat
      /\ DOMAIN document = 1 .. Len(document)
  BY EndedType
<1>2. /\ Len(document') \in Nat /\ DOMAIN document' = 1 .. Len(document')
      /\ Ended' <= Len(document')
  <2>1. \E S : document' \in Seq(S)
    BY DEF TypeOK
  <2>2. document' # <<>> => Len(document') > 0
    BY <2>1
  <2> QED
    BY <2>1, <2>2 DEF Ended
<1>3. ASSUME NEW m \in 1 .. Ended PROVE m \in Drawn <=> m \in Drawn'
  <2>1. document'[m] = document[m] /\ format' = format
    BY DEF ReadOn
  <2>2. IsDrawn(m)' = IsDrawn(m)
    BY <2>1, AuthoredStays
  <2>3. m \in DOMAIN document /\ m \in DOMAIN document'
    BY <1>1, <1>2 DEF ReadOn
  <2> QED
    BY <2>2, <2>3 DEF Drawn
<1> DEFINE seq == [number \in 1 .. n |-> number]
           longer == [number \in 1 .. n + 1 |-> number]
<1>4. /\ Len(seq) = n /\ Len(longer) = n + 1 /\ longer[n + 1] = n + 1
      /\ \A m \in 1 .. n : seq[m] = m /\ longer[m] = m
  OBVIOUS
<1>5. EndedParts = Kept(seq, Drawn) /\ EndedParts' = Kept(longer, Drawn')
  BY DEF EndedParts
<1>6. n + 1 \in Drawn' <=> IsDrawn(n + 1)'
  <2>1. n + 1 \in DOMAIN document'
    BY <1>1, <1>2
  <2> QED
    BY <2>1 DEF Drawn
<1> HIDE DEF seq, longer
<1>7. Kept(longer, Drawn') = IF longer[n + 1] \in Drawn' THEN Append(Kept(seq, Drawn), longer[n + 1])
                             ELSE Kept(seq, Drawn)
  <2>1. \A m \in 1 .. n : seq[m] = longer[m] /\ (seq[m] \in Drawn <=> seq[m] \in Drawn')
    BY <1>3, <1>4
  <2> QED
    BY <1>4, <2>1, KeptOneMore
<1> QED
  BY <1>4, <1>5, <1>6, <1>7

(***************************************************************************)
(* The triangles of a primitive.                                           *)
(***************************************************************************)
\* A triangle and its corners one place on have the same face, turned or not.
LEMMA TurnedFace ==
  ASSUME NEW authored, NEW other,
         \/ other[1] = authored[1] /\ other[2] = authored[2] /\ other[3] = authored[3]
         \/ other[1] = authored[3] /\ other[2] = authored[1] /\ other[3] = authored[2]
  PROVE  SameFace(authored, other)
<1>1. /\ ((1 + 1) % 3) + 1 = 3 /\ ((2 + 1) % 3) + 1 = 1 /\ ((3 + 1) % 3) + 1 = 2
      /\ ((1 + 2) % 3) + 1 = 1 /\ ((2 + 2) % 3) + 1 = 2 /\ ((3 + 2) % 3) + 1 = 3
  OBVIOUS
<1>2. \A c \in 1 .. 3 : c = 1 \/ c = 2 \/ c = 3
  OBVIOUS
<1>3. CASE other[1] = authored[1] /\ other[2] = authored[2] /\ other[3] = authored[3]
  <2>1. \A c \in 1 .. 3 : other[c] = authored[((c + 2) % 3) + 1]
    BY <1>1, <1>2, <1>3
  <2> QED
    BY <2>1 DEF SameFace
<1>4. CASE other[1] = authored[3] /\ other[2] = authored[1] /\ other[3] = authored[2]
  <2>1. \A c \in 1 .. 3 : other[c] = authored[((c + 1) % 3) + 1]
    BY <1>1, <1>2, <1>4
  <2> QED
    BY <2>1 DEF SameFace
<1> QED
  BY <1>3, <1>4

\* The corners emitTri() passes on, of the triangle numbered i.
Taken(p, i) ==
  [c \in 1 .. 3 |-> IF "mirrored" \in p.traits THEN StepTriangle(p, i)[Turned[c]]
                    ELSE StepTriangle(p, i)[c]]

\* The authored corners are those of emitTri(), from the first or the second on.
LEMMA AuthoredCorners ==
  ASSUME NEW p \in Primitive, ~Skips(p.mode, p.vertexCount), NEW i \in Nat, NEW number
  PROVE  \E b :
           /\ \/ b[1] = StepTriangle(p, i)[1] /\ b[2] = StepTriangle(p, i)[2] /\ b[3] = StepTriangle(p, i)[3]
              \/ b[1] = StepTriangle(p, i)[2] /\ b[2] = StepTriangle(p, i)[3] /\ b[3] = StepTriangle(p, i)[1]
           /\ AuthoredTriangle(number, p, i) =
                [c \in 1 .. 3 |-> << number, b[IF "mirrored" \in p.traits THEN 4 - c ELSE c] >>]
<1> DEFINE seq == localSeq(p)
           tri == StepTriangle(p, i)
           pos == CASE p.mode = "strip"     -> << i, i + 1 + (i % 2), i + 2 - (i % 2) >>
                    [] p.mode = "fan"       -> << i + 1, i + 2, 0 >>
                    [] p.mode = "triangles" -> << 3 * i, 3 * i + 1, 3 * i + 2 >>
           b == [c \in 1 .. 3 |-> seq[pos[c] + 1]]
           Rotated == \/ b[1] = tri[1] /\ b[2] = tri[2] /\ b[3] = tri[3]
                      \/ b[1] = tri[2] /\ b[2] = tri[3] /\ b[3] = tri[1]
<1>1. AuthoredTriangle(number, p, i) =
        [c \in 1 .. 3 |-> << number, seq[pos[IF "mirrored" \in p.traits THEN 4 - c ELSE c] + 1] >>]
  BY DEF AuthoredTriangle
<1>2. p.mode \in {"triangles", "strip", "fan"}
  BY DEF Primitive, Modes, Skips
<1>3. b[1] = seq[pos[1] + 1] /\ b[2] = seq[pos[2] + 1] /\ b[3] = seq[pos[3] + 1]
  <2> HIDE DEF pos, seq
  <2> QED
    OBVIOUS
<1>4. ASSUME p.mode = "triangles" PROVE Rotated
  <2>1. pos = << 3 * i, 3 * i + 1, 3 * i + 2 >>
    BY <1>4
  <2>2. tri = << seq[3 * i + 1], seq[3 * i + 2], seq[3 * i + 3] >>
    BY <1>4 DEF StepTriangle
  <2>3. pos[1] + 1 = 3 * i + 1 /\ pos[2] + 1 = 3 * i + 2 /\ pos[3] + 1 = 3 * i + 3
    <3> HIDE DEF pos
    <3> QED
      BY <2>1
  <2> HIDE DEF pos, seq, tri, b
  <2> QED
    BY <1>3, <2>2, <2>3 DEF tri
<1>5. ASSUME p.mode = "fan" PROVE Rotated
  <2>1. pos = << i + 1, i + 2, 0 >>
    BY <1>5
  <2>2. tri = << seq[1], seq[i + 2], seq[i + 3] >>
    BY <1>5 DEF StepTriangle
  <2>3. pos[1] + 1 = i + 2 /\ pos[2] + 1 = i + 3 /\ pos[3] + 1 = 1
    <3> HIDE DEF pos
    <3> QED
      BY <2>1
  <2> HIDE DEF pos, seq, tri, b
  <2> QED
    BY <1>3, <2>2, <2>3 DEF tri
<1>6. ASSUME p.mode = "strip" PROVE Rotated
  <2>1. pos = << i, i + 1 + (i % 2), i + 2 - (i % 2) >>
    BY <1>6
  <2>2. tri = StripTriangle(seq, i)
    BY <1>6 DEF StepTriangle
  <2>3. i % 2 = 0 \/ i % 2 = 1
    OBVIOUS
  <2>4. CASE i % 2 = 0
    <3>1. tri = << seq[i + 1], seq[i + 2], seq[i + 3] >>
      BY <2>2, <2>4 DEF StripTriangle
    <3>2. pos[1] + 1 = i + 1 /\ pos[2] + 1 = i + 2 /\ pos[3] + 1 = i + 3
      <4> HIDE DEF pos
      <4> QED
        BY <2>1, <2>4
    <3> HIDE DEF pos, seq, tri, b
    <3> QED
      BY <1>3, <3>1, <3>2 DEF tri
  <2>5. CASE i % 2 = 1
    <3>1. tri = << seq[i + 2], seq[i + 1], seq[i + 3] >>
      BY <2>2, <2>5 DEF StripTriangle
    <3>2. pos[1] + 1 = i + 1 /\ pos[2] + 1 = i + 3 /\ pos[3] + 1 = i + 2
      <4> HIDE DEF pos
      <4> QED
        BY <2>1, <2>5
    <3> HIDE DEF pos, seq, tri, b
    <3> QED
      BY <1>3, <3>1, <3>2 DEF tri
  <2> QED
    BY <2>3, <2>4, <2>5
<1>7. Rotated
  <2> HIDE DEF Rotated
  <2> QED
    BY <1>2, <1>4, <1>5, <1>6
<1>8. [c \in 1 .. 3 |-> << number, seq[pos[IF "mirrored" \in p.traits THEN 4 - c ELSE c] + 1] >>]
        = [c \in 1 .. 3 |-> << number, b[IF "mirrored" \in p.traits THEN 4 - c ELSE c] >>]
  <2>1. \A c \in 1 .. 3 : (IF "mirrored" \in p.traits THEN 4 - c ELSE c) \in 1 .. 3
    OBVIOUS
  <2>2. \A d \in 1 .. 3 : b[d] = seq[pos[d] + 1]
    OBVIOUS
  <2> HIDE DEF pos, seq, b
  <2> QED
    BY <2>1, <2>2
<1> HIDE DEF pos, seq, tri, b
<1> QED
  BY <1>1, <1>7, <1>8 DEF tri

\* A triangle keeps its face on the way through emitTri(), and is dropped only
\* if the document says it has an index out of range.
LEMMA StepMatches ==
  ASSUME NEW p \in Primitive, ~Skips(p.mode, p.vertexCount), NEW i \in Nat, i < StepCount(p), NEW number
  PROVE  /\ SameFace(AuthoredTriangle(number, p, i), [c \in 1 .. 3 |-> << number, Taken(p, i)[c] >>])
         /\ AuthoredTriangle(number, p, i) \in [1 .. 3 -> {number} \X (0 .. p.vertexCount - 1)]
              <=> \A c \in 1 .. 3 : StepTriangle(p, i)[c] < p.vertexCount
<1> DEFINE tri == StepTriangle(p, i)
           authored == AuthoredTriangle(number, p, i)
           other == [c \in 1 .. 3 |-> << number, Taken(p, i)[c] >>]
           mirrored == "mirrored" \in p.traits
<1>1. PICK b : /\ \/ b[1] = tri[1] /\ b[2] = tri[2] /\ b[3] = tri[3]
                  \/ b[1] = tri[2] /\ b[2] = tri[3] /\ b[3] = tri[1]
               /\ authored = [c \in 1 .. 3 |-> << number, b[IF mirrored THEN 4 - c ELSE c] >>]
  BY AuthoredCorners
<1>2. \A c \in 1 .. 3 : tri[c] \in Nat
  BY StepTriangleType
<1>3. p.vertexCount \in Nat
  BY DEF Primitive
<1>4. /\ other[1] = << number, IF mirrored THEN tri[1] ELSE tri[1] >>
      /\ other[2] = << number, IF mirrored THEN tri[3] ELSE tri[2] >>
      /\ other[3] = << number, IF mirrored THEN tri[2] ELSE tri[3] >>
  <2> HIDE DEF tri
  <2> QED
    BY DEF Taken, Turned, tri
<1>5. /\ authored[1] = << number, IF mirrored THEN b[3] ELSE b[1] >>
      /\ authored[2] = << number, IF mirrored THEN b[2] ELSE b[2] >>
      /\ authored[3] = << number, IF mirrored THEN b[1] ELSE b[3] >>
  <2> HIDE DEF authored, mirrored
  <2> QED
    BY <1>1
<1>6. SameFace(authored, other)
  <2> HIDE DEF authored, other, tri, mirrored
  <2>1. \/ other[1] = authored[1] /\ other[2] = authored[2] /\ other[3] = authored[3]
        \/ other[1] = authored[3] /\ other[2] = authored[1] /\ other[3] = authored[2]
    BY <1>1, <1>4, <1>5
  <2> QED
    BY <2>1, TurnedFace
<1> DEFINE S == 0 .. p.vertexCount - 1
<1>7. authored \in [1 .. 3 -> {number} \X S] <=> b[1] \in S /\ b[2] \in S /\ b[3] \in S
  <2>1. authored \in [1 .. 3 -> {number} \X S]
          <=> \A c \in 1 .. 3 : b[IF mirrored THEN 4 - c ELSE c] \in S
    <3> HIDE DEF authored, mirrored, S
    <3> QED
      BY <1>1
  <2>2. (\A c \in 1 .. 3 : b[IF mirrored THEN 4 - c ELSE c] \in S)
          <=> b[1] \in S /\ b[2] \in S /\ b[3] \in S
    <3>1. 4 - 1 = 3 /\ 4 - 2 = 2 /\ 4 - 3 = 1
      OBVIOUS
    <3>2. \A c \in 1 .. 3 : c = 1 \/ c = 2 \/ c = 3
      OBVIOUS
    <3>3. 1 \in 1 .. 3 /\ 2 \in 1 .. 3 /\ 3 \in 1 .. 3
      OBVIOUS
    <3> HIDE DEF S, mirrored
    <3>4. CASE mirrored
      BY <3>1, <3>2, <3>3, <3>4
    <3>5. CASE ~mirrored
      BY <3>2, <3>3, <3>5
    <3> QED
      BY <3>4, <3>5
  <2> HIDE DEF authored, mirrored, S
  <2> QED
    BY <2>1, <2>2
<1>8. b[1] \in S /\ b[2] \in S /\ b[3] \in S <=> \A c \in 1 .. 3 : tri[c] < p.vertexCount
  <2>1. tri[1] \in Nat /\ tri[2] \in Nat /\ tri[3] \in Nat
    BY <1>2
  <2>2. \A c \in 1 .. 3 : c = 1 \/ c = 2 \/ c = 3
    OBVIOUS
  <2> HIDE DEF tri
  <2> QED
    BY <1>1, <1>3, <2>1, <2>2
<1> QED
  BY <1>6, <1>7, <1>8

(***************************************************************************)
(* What is drawn stays drawn while the document is read on.                *)
(***************************************************************************)
\* Completing normals and tangents (Vertex.cpp) moves no corner.
LEMMA CornersStay ==
  ASSUME NEW vs \in Seq(Vertex), NEW tris, NEW first, NEW v \in 1 .. Len(vs)
  PROVE  /\ computeFlatNormals(vs, tris, first)[v].corner = vs[v].corner
         /\ fillMissingFlatNormals(vs, tris)[v].corner = vs[v].corner
         /\ computeTangents(vs, tris, first)[v].corner = vs[v].corner
<1>1. v \in DOMAIN vs /\ vs[v] \in Vertex
  OBVIOUS
<1>2. [vs[v] EXCEPT !.normal = "flat"].corner = vs[v].corner
  BY <1>1 DEF Vertex
<1>3. [vs[v] EXCEPT !.tangent = TangentOf(vs[v])].corner = vs[v].corner
  BY <1>1 DEF Vertex
<1>4. computeFlatNormals(vs, tris, first)[v].corner = vs[v].corner
  BY <1>1, <1>2 DEF computeFlatNormals
<1>5. fillMissingFlatNormals(vs, tris)[v].corner = vs[v].corner
  BY <1>1, <1>2 DEF fillMissingFlatNormals
<1>6. computeTangents(vs, tris, first)[v].corner = vs[v].corner
  BY <1>1, <1>3 DEF computeTangents
<1> QED
  BY <1>4, <1>5, <1>6

\* The area of a triangle is in its corners.
LEMMA AreaOfCorners ==
  ASSUME NEW vs, NEW tri, NEW ws, NEW other,
         \A c \in 1 .. 3 : vs[tri[c] + 1].corner = ws[other[c] + 1].corner
  PROVE  HasArea(vs, tri) <=> HasArea(ws, other)
<1>1. Positions(vs, tri) = Positions(ws, other)
  BY DEF Positions
<1> QED
  BY <1>1 DEF HasArea

\* The triangles of a range and the places they use.
LEMMA RangeFacts ==
  ASSUME IInv, NEW r \in DOMAIN meshRanges
  PROVE  /\ r \in 1 .. Len(meshRanges) /\ Len(meshRanges) \in Nat
         /\ meshRanges[r] \in MeshRange
         /\ VertexEnd(r) = meshRanges[r].vertexBase + meshRanges[r].vertexCount
         /\ IndexEnd(r) = meshRanges[r].indexStart + meshRanges[r].indexCount
         /\ TriEnd(r) = meshRanges[r].triStart + meshRanges[r].triCount
         /\ meshRanges[r].triCount = meshRanges[r].indexCount
         /\ FitsIn(meshRanges[r], Parsed)
         /\ VertexEnd(r) \in Nat /\ IndexEnd(r) \in Nat /\ TriEnd(r) \in Nat
         /\ VertexEnd(r) <= Len(vertices) /\ IndexEnd(r) <= Len(indices)
         /\ TriEnd(r) <= Len(materialIndex)
         /\ \A t \in 1 .. meshRanges[r].indexCount :
              /\ meshRanges[r].indexStart + t \in 1 .. Len(indices)
              /\ meshRanges[r].triStart + t \in 1 .. Len(materialIndex)
              /\ \A c \in 1 .. 3 :
                   /\ indices[meshRanges[r].indexStart + t][c] \in meshRanges[r].vertexBase .. VertexEnd(r) - 1
                   /\ indices[meshRanges[r].indexStart + t][c] + 1 \in 1 .. Len(vertices)
<1>1. Recorded
  BY Split
<1>2. /\ r \in 1 .. Len(meshRanges) /\ Len(meshRanges) \in Nat /\ meshRanges[r] \in MeshRange
      /\ RangeTiles(r)
  BY <1>1 DEF Recorded
<1>3. /\ VertexEnd(r) = meshRanges[r].vertexBase + meshRanges[r].vertexCount
      /\ IndexEnd(r) = meshRanges[r].indexStart + meshRanges[r].indexCount
      /\ TriEnd(r) = meshRanges[r].triStart + meshRanges[r].triCount
  BY <1>2 DEF VertexEnd, IndexEnd, TriEnd
<1>4. /\ meshRanges[r].indexCount = meshRanges[r].triCount
      /\ FitsIn(meshRanges[r], Parsed)
      /\ \A t \in meshRanges[r].indexStart + 1 .. IndexEnd(r), c \in 1 .. 3 :
           indices[t][c] \in meshRanges[r].vertexBase .. VertexEnd(r) - 1
  BY <1>2 DEF RangeTiles
<1>5. /\ VertexEnd(r) <= Len(vertices) /\ IndexEnd(r) <= Len(indices) /\ TriEnd(r) <= Len(materialIndex)
  BY <1>3, <1>4 DEF FitsIn, Parsed
<1>6. /\ meshRanges[r].vertexBase \in Nat /\ meshRanges[r].vertexCount \in Nat
      /\ meshRanges[r].indexStart \in Nat /\ meshRanges[r].indexCount \in Nat
      /\ meshRanges[r].triStart \in Nat /\ meshRanges[r].triCount \in Nat
  BY <1>2 DEF MeshRange
<1>7. Len(vertices) \in Nat /\ Len(indices) \in Nat /\ Len(materialIndex) \in Nat
  BY <1>1 DEF Recorded
<1>8. VertexEnd(r) \in Nat /\ IndexEnd(r) \in Nat /\ TriEnd(r) \in Nat
  BY <1>3, <1>6
<1>9. ASSUME NEW t \in 1 .. meshRanges[r].indexCount
      PROVE  /\ meshRanges[r].indexStart + t \in 1 .. Len(indices)
             /\ meshRanges[r].triStart + t \in 1 .. Len(materialIndex)
             /\ \A c \in 1 .. 3 :
                  /\ indices[meshRanges[r].indexStart + t][c] \in meshRanges[r].vertexBase .. VertexEnd(r) - 1
                  /\ indices[meshRanges[r].indexStart + t][c] + 1 \in 1 .. Len(vertices)
  <2>1. meshRanges[r].indexStart + t \in 1 .. Len(indices)
    BY <1>3, <1>5, <1>6, <1>7
  <2>2. meshRanges[r].triStart + t \in 1 .. Len(materialIndex)
    BY <1>3, <1>4, <1>5, <1>6, <1>7
  <2>3. meshRanges[r].indexStart + t \in meshRanges[r].indexStart + 1 .. IndexEnd(r)
    BY <1>3, <1>6
  <2>4. ASSUME NEW c \in 1 .. 3
        PROVE  /\ indices[meshRanges[r].indexStart + t][c] \in meshRanges[r].vertexBase .. VertexEnd(r) - 1
               /\ indices[meshRanges[r].indexStart + t][c] + 1 \in 1 .. Len(vertices)
    <3>1. indices[meshRanges[r].indexStart + t][c] \in meshRanges[r].vertexBase .. VertexEnd(r) - 1
      BY <1>4, <2>3
    <3>2. PICK i : i = indices[meshRanges[r].indexStart + t][c]
      OBVIOUS
    <3>3. PICK base \in Nat : base = meshRanges[r].vertexBase
      BY <1>6
    <3>4. i \in base .. VertexEnd(r) - 1
      BY <3>1, <3>2, <3>3
    <3>5. i + 1 \in 1 .. Len(vertices)
      BY ONLY <1>5, <1>7, <1>8, <3>3, <3>4
    <3> QED
      BY <3>1, <3>2, <3>5
  <2> QED
    BY <2>1, <2>2, <2>4
<1> QED
  BY <1>2, <1>3, <1>4, <1>5, <1>8, <1>9

\* A triangle of the arrays shows the same corners after a step.
LEMMA CornersKept ==
  ASSUME ShownKept, NEW t \in 1 .. Len(indices),
         \A c \in 1 .. 3 : indices[t][c] + 1 \in 1 .. Len(vertices)
  PROVE  CornersAt(vertices', indices'[t]) = CornersAt(vertices, indices[t])
<1>1. indices'[t] = indices[t]
  BY DEF ShownKept
<1>2. \A c \in 1 .. 3 : vertices'[indices[t][c] + 1].corner = vertices[indices[t][c] + 1].corner
  BY DEF ShownKept
<1> QED
  BY <1>1, <1>2 DEF CornersAt

\* A range draws the same part after a step.
LEMMA RangeDrawsKept ==
  ASSUME IInv, NEW r \in DOMAIN meshRanges, meshRanges'[r] = meshRanges[r],
         NEW number \in DOMAIN document, document'[number] = document[number], format' = format,
         ShownKept, RangeDraws(r, number)
  PROVE  RangeDraws(r, number)'
<1> DEFINE range == meshRanges[r]
           tris == AuthoredTriangles(number)
           ids == AuthoredMaterials(number)
<1>1. tris' = tris /\ ids' = ids
  BY AuthoredStays
<1>2. Len(tris) = range.indexCount /\ Len(ids) = Len(tris)
  <2>1. TypeOK
    BY Split
  <2> QED
    BY <2>1, AuthoredLengths DEF RangeDraws
<1>3. \A t \in 1 .. range.indexCount :
        /\ range.indexStart + t \in 1 .. Len(indices)
        /\ range.triStart + t \in 1 .. Len(materialIndex)
        /\ \A c \in 1 .. 3 : indices[range.indexStart + t][c] + 1 \in 1 .. Len(vertices)
  BY RangeFacts
<1>4. ASSUME NEW t \in 1 .. Len(tris)
      PROVE  /\ SameFace(tris[t], CornersAt(vertices', indices'[range.indexStart + t]))
             /\ materialIndex'[range.triStart + t] = ids[t]
  <2>1. /\ SameFace(tris[t], CornersAt(vertices, indices[range.indexStart + t]))
        /\ materialIndex[range.triStart + t] = ids[t]
    BY <1>2 DEF RangeDraws, Lists, ListsIds
  <2>2. CornersAt(vertices', indices'[range.indexStart + t])
          = CornersAt(vertices, indices[range.indexStart + t])
    BY <1>2, <1>3, CornersKept
  <2>3. materialIndex'[range.triStart + t] = materialIndex[range.triStart + t]
    BY <1>2, <1>3 DEF ShownKept
  <2> QED
    BY <2>1, <2>2, <2>3
<1>5. range' = range
  OBVIOUS
<1>6. Lists(range.indexStart, tris)'
  <2> HIDE DEF tris, range
  <2> QED
    BY <1>1, <1>4, <1>5 DEF Lists
<1>7. ListsIds(range.triStart, ids)'
  <2> HIDE DEF tris, ids, range
  <2> QED
    BY <1>1, <1>2, <1>4, <1>5 DEF ListsIds
<1>8. range'.indexCount = Len(tris)'
  BY <1>1, <1>2, <1>5
<1> QED
  BY <1>6, <1>7, <1>8 DEF RangeDraws

\* What the invariant says of the parts that ended.
LEMMA EndedFacts ==
  ASSUME IInv
  PROVE  /\ Ended \in Nat /\ Ended <= Len(document) /\ Len(document) \in Nat
         /\ DOMAIN document = 1 .. Len(document)
         /\ EndedParts \in Seq(1 .. Ended) /\ Len(EndedParts) \in Nat
         /\ \A r \in 1 .. Len(EndedParts) : EndedParts[r] \in 1 .. Ended
         /\ phase = "part" => document # <<>> /\ Ended = Len(document) - 1 /\ Len(document) > 0
         /\ phase # "part" => Ended = Len(document)
<1>1. TypeOK /\ (phase = "part" => document # <<>>)
  BY Split DEF Open
<1>2. /\ Ended \in Nat /\ Ended <= Len(document) /\ Len(document) \in Nat
      /\ DOMAIN document = 1 .. Len(document)
      /\ EndedParts \in Seq(1 .. Ended)
  BY <1>1, EndedType
<1>3. Len(EndedParts) \in Nat /\ \A r \in 1 .. Len(EndedParts) : EndedParts[r] \in 1 .. Ended
  BY <1>2
<1>4. phase = "part" => Ended = Len(document) - 1
  BY DEF Ended
<1>5. phase # "part" => Ended = Len(document)
  <2>1. phase # "part" => Ended = Len(document) - 0
    BY DEF Ended
  <2>2. PICK n \in Nat : n = Len(document)
    BY <1>2
  <2>3. n - 0 = n
    OBVIOUS
  <2> QED
    BY <2>1, <2>2, <2>3
<1>6. phase = "part" => Len(document) > 0
  BY <1>2, <1>4
<1> QED
  BY <1>1, <1>2, <1>3, <1>4, <1>5, <1>6

\* No range is recorded, no part ends.
LEMMA DrawingKept ==
  ASSUME IInv, Drawing, ReadOn, ShownKept, meshRanges' = meshRanges, EndedParts' = EndedParts
  PROVE  Drawing'
<1>1. Len(meshRanges') = Len(EndedParts')
  BY DEF Drawing
<1>2. ASSUME NEW r \in DOMAIN meshRanges' PROVE RangeDraws(r, EndedParts[r])'
  <2>1. r \in DOMAIN meshRanges /\ RangeDraws(r, EndedParts[r])
    BY DEF Drawing
  <2>2. r \in 1 .. Len(EndedParts)
    BY <2>1, RangeFacts DEF Drawing
  <2>3. PICK number : number = EndedParts[r]
    OBVIOUS
  <2>4. number \in 1 .. Ended /\ number \in DOMAIN document
    BY <2>2, <2>3, EndedFacts
  <2>5. document'[number] = document[number] /\ format' = format
    BY <2>4 DEF ReadOn
  <2>6. RangeDraws(r, number)'
    BY <2>1, <2>3, <2>4, <2>5, RangeDrawsKept
  <2>7. EndedParts'[r] = number
    BY <2>3
  <2> QED
    BY <2>6, <2>7
<1> QED
  BY <1>1, <1>2 DEF Drawing

\* A range is recorded for the part that ends.
LEMMA DrawingGrows ==
  ASSUME IInv, Drawing, ReadOn, ShownKept, NEW new, meshRanges' = Append(meshRanges, new),
         NEW n, EndedParts' = Append(EndedParts, n),
         NEW last, last = Len(meshRanges) + 1, RangeDraws(last, n)'
  PROVE  Drawing'
<1>1. /\ meshRanges \in Seq(MeshRange) /\ Len(meshRanges) \in Nat
      /\ Len(meshRanges) = Len(EndedParts) /\ EndedParts \in Seq(1 .. Ended)
  BY Split, EndedFacts DEF Recorded, Drawing
<1>2. /\ Len(meshRanges') = last /\ DOMAIN meshRanges' = 1 .. last
      /\ \A r \in 1 .. Len(meshRanges) : meshRanges'[r] = meshRanges[r]
  BY <1>1
<1>3. /\ Len(EndedParts') = last /\ EndedParts'[last] = n
      /\ \A r \in 1 .. Len(meshRanges) : EndedParts'[r] = EndedParts[r]
  BY <1>1
<1>4. ASSUME NEW r \in 1 .. Len(meshRanges) PROVE RangeDraws(r, EndedParts[r])'
  <2>1. r \in DOMAIN meshRanges /\ RangeDraws(r, EndedParts[r]) /\ meshRanges'[r] = meshRanges[r]
    BY <1>1, <1>2 DEF Drawing
  <2>2. PICK number : number = EndedParts[r]
    OBVIOUS
  <2>3. number \in 1 .. Ended /\ number \in DOMAIN document
    BY <1>1, <2>2, EndedFacts
  <2>4. document'[number] = document[number] /\ format' = format
    BY <2>3 DEF ReadOn
  <2>5. RangeDraws(r, number)'
    BY <2>1, <2>2, <2>3, <2>4, RangeDrawsKept
  <2>6. EndedParts'[r] = number
    BY <1>3, <2>2
  <2> QED
    BY <2>5, <2>6
<1>5. RangeDraws(last, EndedParts[last])'
  BY <1>3
<1>6. \A r \in DOMAIN meshRanges' : r = last \/ r \in 1 .. Len(meshRanges)
  BY <1>1, <1>2
<1> QED
  BY <1>2, <1>3, <1>4, <1>5, <1>6 DEF Drawing

(***************************************************************************)
(* Places in the arrays.                                                   *)
(***************************************************************************)
\* Entry t of the n entries after place a.
LEMMA Placed ==
  ASSUME NEW a \in Nat, NEW n \in Nat, NEW m, m - a = n, m \in Nat, NEW t \in 1 .. n
  PROVE  a + t \in 1 .. m /\ a + t \in a + 1 .. m /\ m = a + n
OBVIOUS

\* ... and the one after them.
LEMMA PlacedNext ==
  ASSUME NEW a \in Nat, NEW n \in Nat, NEW m \in Nat, m = a + n
  PROVE  a + (n + 1) = m + 1 /\ (m + 1) - a = n + 1 /\ m + 1 # a
OBVIOUS

\* A vertex counted from 0 is the entry after it.
LEMMA Counted ==
  ASSUME NEW base \in Nat, NEW n \in Nat, NEW i \in base .. n - 1
  PROVE  i + 1 \in 1 .. n
OBVIOUS

(***************************************************************************)
(* What a shape draws.                                                     *)
(***************************************************************************)
\* A shape's triangles and material ids (loadVertices()).
ShapeTriangles(p) == [t \in DOMAIN KeptFaces(p) |-> KeptFaces(p)[t].corners]

ShapeIds(p) ==
  [t \in DOMAIN KeptFaces(p) |-> IF KeptFaces(p)[t].material = None THEN 0 ELSE KeptFaces(p)[t].material]

\* One of each for every face that is kept.
LEMMA ShapeLengths ==
  ASSUME NEW p \in Shape
  PROVE  /\ KeptFaces(p) \in Seq(Faces \ {Bad}) /\ Len(KeptFaces(p)) \in Nat
         /\ Len(ShapeTriangles(p)) = Len(KeptFaces(p)) /\ Len(ShapeIds(p)) = Len(KeptFaces(p))
         /\ \A t \in 1 .. Len(KeptFaces(p)) :
              /\ ShapeTriangles(p)[t] = KeptFaces(p)[t].corners
              /\ ShapeIds(p)[t] = IF KeptFaces(p)[t].material = None THEN 0 ELSE KeptFaces(p)[t].material
<1>1. KeptFaces(p) \in Seq(Faces \ {Bad})
  BY KeptFacesType
<1>2. Len(KeptFaces(p)) \in Nat /\ DOMAIN KeptFaces(p) = 1 .. Len(KeptFaces(p))
  BY <1>1
<1> QED
  BY <1>1, <1>2 DEF ShapeTriangles, ShapeIds

\* The faces a shape keeps after one more.
LEMMA FacesRead ==
  ASSUME NEW p \in Shape, NEW q \in Shape, NEW face \in Faces \cup {Bad}, q.faces = Append(p.faces, face)
  PROVE  KeptFaces(q) = IF face \in Faces \ {Bad} THEN Append(KeptFaces(p), face) ELSE KeptFaces(p)
<1> DEFINE seq == p.faces
           other == q.faces
<1>1. seq \in Seq(Faces \cup {Bad}) /\ other = Append(seq, face)
  BY DEF Shape
<1> HIDE DEF seq, other
<1>2. /\ Len(seq) \in Nat /\ Len(other) = Len(seq) + 1 /\ other[Len(seq) + 1] = face
      /\ \A m \in 1 .. Len(seq) : seq[m] = other[m]
  BY <1>1
<1>3. PICK n \in Nat : n = Len(seq)
  BY <1>2
<1> DEFINE S == Faces \ {Bad}
<1> HIDE DEF S
<1>4. Kept(other, S) = IF other[n + 1] \in S THEN Append(Kept(seq, S), other[n + 1]) ELSE Kept(seq, S)
  BY <1>2, <1>3, KeptOneMore
<1> USE DEF S
<1> QED
  BY <1>2, <1>3, <1>4 DEF KeptFaces, seq, other

\* parseCpu() starts with nothing drawn.
LEMMA ParseCpuDraws ==
  ASSUME IInv, DInv, NEW f \in {"obj", "gltf"}, parseCpu(f)
  PROVE  DInv'
<1>1. phase' = "parsing" /\ meshRanges' = <<>> /\ document' = <<>>
  BY DEF parseCpu
<1>2. Ended' = 0
  BY <1>1 DEF Ended
<1>3. EndedParts' = <<>>
  <2>1. Len([number \in 1 .. 0 |-> number]) = 0
    OBVIOUS
  <2> QED
    BY <1>2, <2>1, KeptEmpty DEF EndedParts
<1>4. Drawing'
  BY <1>1, <1>3 DEF Drawing
<1> QED
  BY <1>1, <1>4 DEF DInv, OpenDraws, Uploaded

\* A shape opens with nothing to draw.
LEMMA BeginShapeDraws ==
  ASSUME IInv, IInv', DInv, BeginShape
  PROVE  DInv'
<1>1. /\ phase = "parsing" /\ phase' = "part" /\ format = "obj" /\ format' = "obj"
      /\ document' = Append(document, [faces |-> <<>>])
      /\ UNCHANGED << vertices, indices, materialIndex, meshRanges >>
      /\ part'.vertexBase = Len(vertices) /\ part'.indexStart = Len(indices)
  BY DEF BeginShape, arrays, Here
<1>2. TypeOK /\ TypeOK' /\ (phase' = "part" => document' # <<>>)
  BY Split DEF IInv
<1>3. document \in Seq(Shape)
  BY <1>1, <1>2 DEF TypeOK
<1>4. PICK n \in Nat : n = Len(document)
  BY <1>3
<1>5. /\ Len(document') = n + 1 /\ document'[n + 1] = [faces |-> <<>>]
      /\ \A number \in 1 .. n : document'[number] = document[number]
  BY <1>1, <1>3, <1>4
<1>6. Ended = n /\ Ended' = n
  BY <1>1, <1>4, <1>5 DEF Ended
<1>7. ReadOn /\ ShownKept
  BY <1>1, <1>5, <1>6 DEF ReadOn, ShownKept
<1>8. EndedParts' = EndedParts
  BY <1>1, <1>2, <1>6, <1>7, EndedStays
<1>9. Drawing'
  BY <1>1, <1>7, <1>8, DrawingKept DEF DInv
<1>10. /\ Len(AuthoredTriangles(Len(document))') = 0
       /\ Len(AuthoredMaterials(Len(document))') = 0
  <2>1. PICK p : p = [faces |-> <<>>]
    OBVIOUS
  <2>2. p \in Shape /\ p.faces = <<>>
    BY <2>1 DEF Shape
  <2>3. Len(p.faces) = 0
    BY <2>2
  <2>4. KeptFaces(p) = <<>>
    BY <2>3, KeptEmpty DEF KeptFaces
  <2>5. Len(ShapeTriangles(p)) = 0 /\ Len(ShapeIds(p)) = 0
    BY <2>2, <2>4, ShapeLengths
  <2>6. document'[Len(document')] = p
    BY <1>5, <2>1
  <2>7. /\ AuthoredTriangles(Len(document))' = ShapeTriangles(p)
        /\ AuthoredMaterials(Len(document))' = ShapeIds(p)
    BY <1>1, <2>6 DEF AuthoredTriangles, AuthoredMaterials, ShapeTriangles, ShapeIds
  <2> QED
    BY <2>5, <2>7
<1>11. Len(indices) \in Nat
  BY <1>2 DEF TypeOK
<1>12. ShapeDraws'
  BY <1>1, <1>10, <1>11 DEF ShapeDraws, Lists, ListsIds
<1> QED
  BY <1>1, <1>9, <1>12 DEF DInv, OpenDraws, Uploaded

\* What a face changes: the last part of the document, and the arrays.
LEMMA FaceChanges ==
  ASSUME IInv, NEW face \in Faces \cup {Bad}, ReadFace(face)
  PROVE  /\ phase = "part" /\ phase' = "part" /\ format = "obj" /\ format' = "obj"
         /\ meshRanges' = meshRanges /\ part' = part
         /\ Ended' = Ended /\ ReadOn
         /\ Len(document') = Len(document)
         /\ document[Len(document)] \in Shape /\ document'[Len(document)] \in Shape
         /\ document'[Len(document)].faces = Append(document[Len(document)].faces, face)
<1>1. /\ phase = "part" /\ phase' = "part" /\ format = "obj" /\ format' = "obj"
      /\ meshRanges' = meshRanges /\ part' = part
      /\ document' = [document EXCEPT ![Len(document)].faces = Append(@, face)]
  BY DEF ReadFace
<1>2. TypeOK /\ document # <<>>
  BY <1>1, Split DEF Open
<1>3. document \in Seq(Shape) /\ Len(document) \in Nat /\ Len(document) \in DOMAIN document
  BY <1>1, <1>2 DEF TypeOK
<1>4. PICK p \in Shape : p = document[Len(document)]
  BY <1>3
<1>5. [p EXCEPT !.faces = Append(@, face)] \in Shape
  BY DEF Shape
<1>6. document' = [document EXCEPT ![Len(document)] = [p EXCEPT !.faces = Append(@, face)]]
  BY <1>1, <1>4
<1>7. document' \in Seq(Shape) /\ Len(document') = Len(document)
  BY <1>3, <1>5, <1>6
<1>8. document'[Len(document)] = [p EXCEPT !.faces = Append(@, face)]
  BY <1>3, <1>6
<1>9. [p EXCEPT !.faces = Append(@, face)].faces = Append(p.faces, face)
  BY DEF Shape
<1>10. \A number \in 1 .. Len(document) - 1 : document'[number] = document[number]
  BY <1>3, <1>6
<1>11. Ended = Len(document) - 1 /\ Ended' = Len(document) - 1
  BY <1>1, <1>7 DEF Ended
<1>12. ReadOn
  BY <1>1, <1>3, <1>7, <1>10, <1>11 DEF ReadOn
<1> QED
  BY <1>1, <1>4, <1>5, <1>7, <1>8, <1>9, <1>11, <1>12

\* A face that is kept is drawn after those before it.
LEMMA ReadFaceDraws ==
  ASSUME IInv, IInv', DInv, NEW face \in Faces \cup {Bad}, ReadFace(face)
  PROVE  DInv'
<1> DEFINE last == Len(document)
           p == document[last]
           q == document'[last]
<1>1. /\ phase = "part" /\ phase' = "part" /\ format = "obj" /\ format' = "obj"
      /\ meshRanges' = meshRanges /\ part' = part
      /\ Ended' = Ended /\ ReadOn /\ Len(document') = last
      /\ p \in Shape /\ q \in Shape /\ q.faces = Append(p.faces, face)
  BY FaceChanges
<1>2. /\ TypeOK /\ TypeOK' /\ OpenPart /\ OpenShape
      /\ (phase = "part" => document # <<>>) /\ (phase' = "part" => document' # <<>>)
  BY <1>1, Split DEF IInv, Open
<1>3. EndedParts' = EndedParts
  BY <1>1, <1>2, EndedStays
<1>4. ShapeDraws
  BY <1>1 DEF DInv, OpenDraws
<1>5. KeptFaces(q) = IF face \in Faces \ {Bad} THEN Append(KeptFaces(p), face) ELSE KeptFaces(p)
  BY <1>1, FacesRead
<1>6. /\ AuthoredTriangles(last) = ShapeTriangles(p) /\ AuthoredMaterials(last) = ShapeIds(p)
      /\ AuthoredTriangles(Len(document))' = ShapeTriangles(q)
      /\ AuthoredMaterials(Len(document))' = ShapeIds(q)
  BY <1>1 DEF AuthoredTriangles, AuthoredMaterials, ShapeTriangles, ShapeIds
<1> HIDE DEF p, q, last
<1>7. CASE face = Bad
  <2>1. UNCHANGED << vertices, indices, materialIndex >>
    BY <1>7 DEF ReadFace
  <2>2. ShownKept
    BY <2>1 DEF ShownKept
  <2>3. Drawing'
    BY <1>1, <1>3, <2>2, DrawingKept DEF DInv
  <2>4. /\ AuthoredTriangles(Len(document))' = AuthoredTriangles(last)
        /\ AuthoredMaterials(Len(document))' = AuthoredMaterials(last)
    BY <1>5, <1>6, <1>7 DEF ShapeTriangles, ShapeIds
  <2>5. ShapeDraws'
    BY <1>1, <1>4, <2>1, <2>4 DEF ShapeDraws, Lists, ListsIds, last
  <2> QED
    BY <1>1, <2>3, <2>5 DEF DInv, OpenDraws, Uploaded
<1>8. CASE face # Bad
  <2>1. face \in Faces
    BY <1>8
  <2> DEFINE v1 == Emplaced(vertices, ObjVertex(face, 1))
             v2 == Emplaced(v1, ObjVertex(face, 2))
             v3 == Emplaced(v2, ObjVertex(face, 3))
             tri == [c \in 1 .. 3 |-> IndexOf(v3, ObjVertex(face, c))]
             id == IF face.material = None THEN 0 ELSE face.material
  <2>2. /\ vertices' = v3 /\ indices' = Append(indices, tri)
        /\ materialIndex' = Append(materialIndex, id)
    BY <1>8 DEF ReadFace
  <2>3. /\ v3 \in Seq(Vertex) /\ Len(vertices) <= Len(v3) /\ part.vertexBase < Len(v3)
        /\ \A i \in 1 .. Len(vertices) : v3[i] = vertices[i]
        /\ \A c \in 1 .. 3 : v3[IndexOf(v3, ObjVertex(face, c)) + 1] = ObjVertex(face, c)
    BY <1>2, <2>1, FaceRead
  <2> HIDE DEF v1, v2, v3, id
  <2>4. /\ indices \in Seq(Triangle) /\ materialIndex \in Seq(Nat)
        /\ Len(indices) \in Nat /\ Len(materialIndex) \in Nat
        /\ part.vertexBase \in Nat /\ part.indexStart \in Nat /\ part.triStart \in Nat
    BY <1>2 DEF TypeOK, Triangle
  <2>5. CornersAt(v3, tri) = [c \in 1 .. 3 |-> face.corners[c]]
    <3>1. \A c \in 1 .. 3 : v3[tri[c] + 1].corner = face.corners[c]
      BY <2>3 DEF ObjVertex
    <3> HIDE DEF tri
    <3> QED
      BY <3>1 DEF CornersAt
  <2> HIDE DEF tri
  <2>6. /\ Len(indices') = Len(indices) + 1 /\ indices'[Len(indices) + 1] = tri
        /\ \A t \in 1 .. Len(indices) : indices'[t] = indices[t]
    BY <2>2, <2>4
  <2>7. /\ Len(materialIndex') = Len(materialIndex) + 1 /\ materialIndex'[Len(materialIndex) + 1] = id
        /\ \A t \in 1 .. Len(materialIndex) : materialIndex'[t] = materialIndex[t]
    BY <2>2, <2>4
  <2>8. ShownKept
    BY <2>2, <2>3, <2>6, <2>7 DEF ShownKept
  <2>9. Drawing'
    BY <1>1, <1>3, <2>8, DrawingKept DEF DInv
  <2>10. PICK n \in Nat : n = Len(KeptFaces(p))
    BY <1>1, ShapeLengths
  <2>11. /\ Len(ShapeTriangles(p)) = n /\ Len(ShapeIds(p)) = n
         /\ Len(ShapeTriangles(q)) = n + 1 /\ Len(ShapeIds(q)) = n + 1
         /\ \A t \in 1 .. n : ShapeTriangles(q)[t] = ShapeTriangles(p)[t] /\ ShapeIds(q)[t] = ShapeIds(p)[t]
         /\ ShapeTriangles(q)[n + 1] = face.corners /\ ShapeIds(q)[n + 1] = id
    <3>1. /\ KeptFaces(p) \in Seq(Faces \ {Bad}) /\ Len(KeptFaces(p)) = n
          /\ KeptFaces(q) = Append(KeptFaces(p), face)
      BY <1>1, <1>5, <1>8, <2>1, <2>10, ShapeLengths
    <3>2. /\ Len(KeptFaces(q)) = n + 1 /\ KeptFaces(q)[n + 1] = face
          /\ \A t \in 1 .. n : KeptFaces(q)[t] = KeptFaces(p)[t]
      BY <3>1
    <3>3. n + 1 \in 1 .. n + 1 /\ \A t \in 1 .. n : t \in 1 .. n + 1
      OBVIOUS
    <3>4. /\ Len(ShapeTriangles(p)) = n /\ Len(ShapeIds(p)) = n
          /\ \A t \in 1 .. n : /\ ShapeTriangles(p)[t] = KeptFaces(p)[t].corners
                              /\ ShapeIds(p)[t] = IF KeptFaces(p)[t].material = None THEN 0
                                                   ELSE KeptFaces(p)[t].material
      BY <1>1, <3>1, ShapeLengths
    <3>5. /\ Len(ShapeTriangles(q)) = n + 1 /\ Len(ShapeIds(q)) = n + 1
          /\ \A t \in 1 .. n + 1 : /\ ShapeTriangles(q)[t] = KeptFaces(q)[t].corners
                                  /\ ShapeIds(q)[t] = IF KeptFaces(q)[t].material = None THEN 0
                                                       ELSE KeptFaces(q)[t].material
      BY <1>1, <3>2, ShapeLengths
    <3> QED
      BY <3>2, <3>3, <3>4, <3>5 DEF id
  <2>12. /\ Len(indices) - part.indexStart = n
         /\ \A t \in 1 .. n : SameFace(ShapeTriangles(p)[t], CornersAt(vertices, indices[part.indexStart + t]))
         /\ \A t \in 1 .. n : materialIndex[part.triStart + t] = ShapeIds(p)[t]
    BY <1>4, <1>6, <2>11 DEF ShapeDraws, Lists, ListsIds, last
  <2>13. /\ Len(indices) = part.indexStart + n /\ Len(materialIndex) = part.triStart + n
         /\ Len(materialIndex) - part.triStart = n
    <3>1. Len(materialIndex) - part.triStart = Len(indices) - part.indexStart
      BY <1>2 DEF OpenShape
    <3>2. Len(indices) - part.indexStart = n /\ Len(materialIndex) - part.triStart = n
      BY <2>12, <3>1
    <3>3. \A a \in Nat, m \in Nat : m - a = n => m = a + n
      OBVIOUS
    <3> QED
      BY <2>4, <3>2, <3>3
  <2>14. ASSUME NEW t \in 1 .. n + 1
         PROVE  /\ SameFace(ShapeTriangles(q)[t], CornersAt(vertices', indices'[part.indexStart + t]))
                /\ materialIndex'[part.triStart + t] = ShapeIds(q)[t]
    <3>1. CASE t \in 1 .. n
      <4>1. part.indexStart + t \in 1 .. Len(indices) /\ part.triStart + t \in 1 .. Len(materialIndex)
        BY <2>4, <2>12, <2>13, <3>1, Placed
      <4>2. part.indexStart + t \in part.indexStart + 1 .. Len(indices)
        BY <2>4, <2>12, <3>1, Placed
      <4>3. \A c \in 1 .. 3 : indices[part.indexStart + t][c] \in part.vertexBase .. Len(vertices) - 1
        BY <1>2, <4>2 DEF OpenPart
      <4>4. \A c \in 1 .. 3 : indices[part.indexStart + t][c] + 1 \in 1 .. Len(vertices)
        <5>1. Len(vertices) \in Nat
          BY <1>2 DEF TypeOK
        <5> QED
          BY <2>4, <4>3, <5>1, Counted
      <4>5. CornersAt(vertices', indices'[part.indexStart + t]) = CornersAt(vertices, indices[part.indexStart + t])
        BY <2>8, <4>1, <4>4, CornersKept
      <4> QED
        BY <2>7, <2>11, <2>12, <3>1, <4>1, <4>5
    <3>2. CASE t = n + 1
      <4>1. part.indexStart + t = Len(indices) + 1 /\ part.triStart + t = Len(materialIndex) + 1
        BY <2>4, <2>13, <3>2, PlacedNext
      <4>2. CornersAt(vertices', indices'[part.indexStart + t]) = [c \in 1 .. 3 |-> face.corners[c]]
        BY <2>2, <2>5, <2>6, <4>1
      <4>3. SameFace(face.corners, [c \in 1 .. 3 |-> face.corners[c]])
        BY TurnedFace
      <4> QED
        BY <2>7, <2>11, <3>2, <4>1, <4>2, <4>3
    <3> QED
      BY <3>1, <3>2
  <2>15. ShapeDraws'
    <3>2. Len(indices') - part.indexStart = n + 1 /\ Len(indices') # part.indexStart
      <4>1. (Len(indices) + 1) - part.indexStart = n + 1 /\ Len(indices) + 1 # part.indexStart
        BY <2>4, <2>13, PlacedNext
      <4> QED
        BY <2>6, <4>1
    <3>3. Lists(part.indexStart, AuthoredTriangles(Len(document)))'
      BY <1>1, <1>6, <2>11, <2>14 DEF Lists
    <3>4. ListsIds(part.triStart, AuthoredMaterials(Len(document)))'
      BY <1>1, <1>6, <2>11, <2>14 DEF ListsIds
    <3> QED
      BY <1>1, <1>6, <2>11, <3>2, <3>3, <3>4 DEF ShapeDraws
  <2> QED
    BY <1>1, <2>9, <2>15 DEF DInv, OpenDraws, Uploaded
<1> QED
  BY <1>7, <1>8

\* A part that ends with a range: what the open part drew, the range draws.
LEMMA PartDrawn ==
  ASSUME IInv, IInv', DInv, ShownKept, phase = "part", phase' # "part",
         UNCHANGED << document, format >>, NEW triEnd, NEW doubleSided,
         meshRanges' = Append(meshRanges, PartRange(triEnd, doubleSided)),
         NEW n, n = Len(document), IsDrawn(n)',
         NEW first, first = part.indexStart, NEW start, start = part.triStart,
         Len(indices) - first = Len(AuthoredTriangles(n)),
         Lists(first, AuthoredTriangles(n))', ListsIds(start, AuthoredMaterials(n))'
  PROVE  Drawing'
<1>1. /\ TypeOK /\ TypeOK' /\ (phase = "part" => document # <<>>) /\ (phase' = "part" => document' # <<>>)
  BY Split DEF IInv, Open
<1>2. /\ Ended \in Nat /\ Ended <= Len(document) /\ Len(document) \in Nat
      /\ Ended = Len(document) - 1 /\ Len(document) > 0
  BY EndedFacts
<1>3. Ended' = Len(document)
  BY EndedFacts, <1>1, EndedPrimed
<1>4. ReadOn
  BY <1>2 DEF ReadOn
<1>5. PICK m \in Nat : m = Ended /\ m + 1 = n
  BY <1>2
<1>6. EndedParts' = Append(EndedParts, n)
  <2>1. IsDrawn(m + 1)'
    BY <1>5
  <2>2. Ended' = m + 1
    BY <1>3, <1>5
  <2> QED
    BY <1>1, <1>4, <1>5, <2>1, <2>2, EndedOneMore
<1>7. PICK last \in Nat : last = Len(meshRanges) + 1
  <2>1. Len(meshRanges) \in Nat
    BY <1>1 DEF TypeOK
  <2> QED
    BY <2>1
<1>8. PICK range : range = PartRange(triEnd, doubleSided)
  OBVIOUS
<1>9. meshRanges'[last] = range
  <2>1. meshRanges \in Seq(MeshRange)
    BY <1>1 DEF TypeOK
  <2> QED
    BY <1>7, <1>8, <2>1
<1>10. /\ range.indexCount = Len(indices) - part.indexStart
       /\ range.indexStart = part.indexStart /\ range.triStart = part.triStart
  BY <1>8 DEF PartRange
<1>11. AuthoredTriangles(n)' = AuthoredTriangles(n)
  BY AuthoredStays
<1>12. RangeDraws(last, n)'
  BY <1>9, <1>10, <1>11 DEF RangeDraws
<1> QED
  BY <1>4, <1>6, <1>7, <1>8, <1>12, DrawingGrows DEF DInv

\* A shape without a face to draw gets no range, and no mesh.
LEMMA EndShapeDraws ==
  ASSUME IInv, IInv', DInv, EndShape
  PROVE  DInv'
<1>1. /\ phase = "part" /\ phase' = "parsing" /\ format = "obj" /\ format' = "obj"
      /\ UNCHANGED << format, vertices, indices, materialIndex, document >>
      /\ meshRanges' = IF Len(vertices) > part.vertexBase
                       THEN Append(meshRanges, PartRange(Len(materialIndex), FALSE))
                       ELSE meshRanges
  BY DEF EndShape
<1>2. /\ TypeOK /\ TypeOK' /\ OpenPart /\ OpenShape /\ ShapeDraws
      /\ (phase = "part" => document # <<>>) /\ (phase' = "part" => document' # <<>>)
  BY <1>1, Split DEF IInv, Open, DInv, OpenDraws
<1>3. /\ Ended \in Nat /\ Len(document) \in Nat /\ DOMAIN document = 1 .. Len(document)
      /\ Ended = Len(document) - 1 /\ Len(document) > 0
  BY <1>1, EndedFacts
<1>4. PICK n \in Nat : n = Len(document) /\ n > 0 /\ n \in DOMAIN document
  <2>1. PICK n \in Nat : n = Len(document)
    BY <1>3
  <2>2. n > 0 /\ n \in 1 .. n
    BY <1>3, <2>1
  <2> QED
    BY <1>3, <2>1, <2>2
<1>5. ShownKept
  BY <1>1 DEF ShownKept
<1>6. /\ AuthoredTriangles(n)' = AuthoredTriangles(n) /\ AuthoredMaterials(n)' = AuthoredMaterials(n)
      /\ IsDrawn(n)' = IsDrawn(n)
  BY <1>1, AuthoredStays
<1>7. IsDrawn(n) <=> Len(AuthoredTriangles(n)) # 0
  <2>1. document[n] \in Shape
    BY <1>1, <1>2, <1>4 DEF TypeOK
  <2>2. KeptFaces(document[n]) \in Seq(Faces \ {Bad})
    BY <2>1, KeptFacesType
  <2>3. AuthoredTriangles(n) \in Seq({ KeptFaces(document[n])[t].corners : t \in DOMAIN KeptFaces(document[n]) })
    <3>1. AuthoredTriangles(n) = [t \in DOMAIN KeptFaces(document[n]) |-> KeptFaces(document[n])[t].corners]
      BY <1>1 DEF AuthoredTriangles
    <3> QED
      BY <2>2, <3>1
  <2>4. AuthoredTriangles(n) # <<>> <=> Len(AuthoredTriangles(n)) # 0
    BY <2>3, EmptySeq
  <2> QED
    BY <1>1, <2>4 DEF IsDrawn
<1>8. /\ Len(indices) - part.indexStart = Len(AuthoredTriangles(n))
      /\ Lists(part.indexStart, AuthoredTriangles(n)) /\ ListsIds(part.triStart, AuthoredMaterials(n))
      /\ Len(indices) = part.indexStart => Len(vertices) = part.vertexBase
      /\ Len(vertices) = part.vertexBase => Len(indices) = part.indexStart
  BY <1>2, <1>4 DEF ShapeDraws, OpenShape
<1>9. /\ Len(vertices) \in Nat /\ part.vertexBase \in Nat /\ part.vertexBase <= Len(vertices)
      /\ Len(indices) \in Nat /\ part.indexStart \in Nat
  BY <1>2 DEF TypeOK, OpenPart
<1>10. Len(AuthoredTriangles(n)) = 0 <=> Len(indices) = part.indexStart
  BY <1>8, <1>9
<1>11. CASE Len(vertices) > part.vertexBase
  <2>1. IsDrawn(n)'
    BY <1>6, <1>7, <1>8, <1>9, <1>10, <1>11
  <2>2. PICK first, start : first = part.indexStart /\ start = part.triStart
    OBVIOUS
  <2>3. Lists(first, AuthoredTriangles(n))'
    BY <1>1, <1>6, <1>8, <2>2 DEF Lists
  <2>4. ListsIds(start, AuthoredMaterials(n))'
    BY <1>1, <1>6, <1>8, <2>2 DEF ListsIds
  <2>5. PICK triEnd, doubleSided : meshRanges' = Append(meshRanges, PartRange(triEnd, doubleSided))
    BY <1>1, <1>11
  <2>6. Drawing'
    BY <1>1, <1>4, <1>5, <1>8, <2>1, <2>2, <2>3, <2>4, <2>5, PartDrawn
  <2> QED
    BY <1>1, <2>6 DEF DInv, OpenDraws, Uploaded
<1>12. CASE ~(Len(vertices) > part.vertexBase)
  <2>1. ~IsDrawn(n)'
    BY <1>6, <1>7, <1>8, <1>9, <1>10, <1>12
  <2>2. ReadOn
    BY <1>1, <1>3 DEF ReadOn
  <2>3. PICK m \in Nat : m = Ended /\ m + 1 = n
    <3>1. Ended = n - 1 /\ Ended \in Nat
      BY <1>3, <1>4
    <3>2. (n - 1) + 1 = n
      OBVIOUS
    <3> QED
      BY <3>1, <3>2
  <2>4. Ended' = n
    BY <1>1, <1>2, <1>4, EndedPrimed
  <2>5. EndedParts' = EndedParts
    <3>1. ~IsDrawn(m + 1)' /\ Ended' = m + 1
      BY <2>1, <2>3, <2>4
    <3> QED
      BY <1>2, <2>2, <2>3, <3>1, EndedOneMore
  <2>6. meshRanges' = meshRanges
    BY <1>1, <1>12
  <2>7. Drawing'
    BY <1>5, <2>2, <2>5, <2>6, DrawingKept DEF DInv
  <2> QED
    BY <1>1, <2>7 DEF DInv, OpenDraws, Uploaded
<1> QED
  BY <1>11, <1>12

\* A document that was read to its end, with vertices, has a range.
LEMMA SomeRange ==
  ASSUME IInv, phase # "part", vertices # <<>>
  PROVE  meshRanges # <<>>
<1>1. RangesCover /\ TypeOK
  BY Split DEF Closed
<1>2. Len(vertices) # 0
  BY <1>1 DEF TypeOK
<1>3. Len(meshRanges) # 0
  BY <1>1, <1>2 DEF RangesCover, VertexEnd
<1> QED
  BY <1>3

\* The document ends: nothing more is drawn.
LEMMA DocumentEnds ==
  ASSUME IInv, IInv', DInv, phase # "part", phase' # "part", UNCHANGED << format, document, meshRanges >>,
         ShownKept, Uploaded'
  PROVE  DInv'
<1>1. /\ TypeOK /\ TypeOK' /\ (phase = "part" => document # <<>>) /\ (phase' = "part" => document' # <<>>)
  BY Split DEF IInv, Open
<1>2. Ended = Len(document) /\ Ended' = Len(document)
  BY <1>1, EndedFacts, EndedPrimed
<1>3. Len(document) \in Nat
  BY EndedFacts
<1>4. ReadOn
  BY <1>2, <1>3 DEF ReadOn
<1>5. EndedParts' = EndedParts
  BY <1>1, <1>2, <1>4, EndedStays
<1>6. Drawing'
  BY <1>4, <1>5, DrawingKept DEF DInv
<1> QED
  BY <1>6 DEF DInv, OpenDraws

\* The end of an OBJ document moves no corner.
LEMMA ObjParsedDraws ==
  ASSUME IInv, IInv', DInv, ObjParsed
  PROVE  DInv'
<1>1. /\ phase = "parsing" /\ phase' = "parsed"
      /\ UNCHANGED << format, indices, materialIndex, meshRanges, document >>
      /\ vertices' = computeTangents(fillMissingFlatNormals(vertices, indices), indices, 0)
  BY DEF ObjParsed
<1>2. vertices \in Seq(Vertex)
  BY Split DEF TypeOK
<1>3. PICK filled \in Seq(Vertex) : filled = fillMissingFlatNormals(vertices, indices) /\ Len(filled) = Len(vertices)
  BY <1>2, AttributesType
<1>4. ASSUME NEW v \in 1 .. Len(vertices) PROVE vertices'[v].corner = vertices[v].corner
  <2>1. filled[v].corner = vertices[v].corner
    BY <1>2, <1>3, CornersStay
  <2>2. computeTangents(filled, indices, 0)[v].corner = filled[v].corner
    BY <1>3, CornersStay
  <2> QED
    BY <1>1, <1>3, <2>1, <2>2
<1>5. ShownKept
  BY <1>1, <1>4 DEF ShownKept
<1>6. Uploaded'
  <2>1. vertices' # <<>> => vertices # <<>>
    <3>1. Len(vertices') = Len(vertices) /\ vertices' \in Seq(Vertex)
      BY <1>1, <1>3, AttributesType
    <3> QED
      BY <1>2, <3>1
  <2> QED
    BY <1>1, <2>1, SomeRange DEF Uploaded
<1> QED
  BY <1>1, <1>5, <1>6, DocumentEnds

\* Nor does that of a glTF document.
LEMMA GltfParsedDraws ==
  ASSUME IInv, IInv', DInv, GltfParsed
  PROVE  DInv'
<1>1. /\ phase = "parsing" /\ phase' \in {"idle", "parsed"}
      /\ UNCHANGED << format, vertices, indices, materialIndex, meshRanges, document >>
  BY DEF GltfParsed, arrays
<1>2. ShownKept
  BY <1>1 DEF ShownKept
<1>3. Uploaded'
  BY <1>1, SomeRange DEF Uploaded
<1> QED
  BY <1>1, <1>2, <1>3, DocumentEnds

\* The upload slices the arrays that were parsed.
LEMMA UploadParsedDraws ==
  ASSUME IInv, IInv', DInv, uploadParsed
  PROVE  DInv'
<1>1. /\ phase = "parsed" /\ phase' \in {"idle", "uploaded"}
      /\ UNCHANGED << format, vertices, indices, materialIndex, meshRanges, document >>
      /\ phase' = "uploaded" => vertices # <<>> /\ meshes' = MeshesForRanges(adoptParsed(Parsed))
  BY DEF uploadParsed, arrays
<1>2. ShownKept
  BY <1>1 DEF ShownKept
<1>3. Parsed' = Parsed
  BY <1>1 DEF Parsed
<1>4. Uploaded'
  BY <1>1, <1>3, SomeRange DEF Uploaded, adoptParsed
<1> QED
  BY <1>1, <1>2, <1>4, DocumentEnds

(***************************************************************************)
(* What a primitive draws.                                                 *)
(***************************************************************************)
\* No step taken, no triangle.
LEMMA NoSteps ==
  ASSUME NEW number, NEW p
  PROVE  Len(AuthoredSteps(number, p, 0)) = 0
<1> DEFINE seq == [i \in 1 .. 0 |-> AuthoredTriangle(number, p, i - 1)]
           S == [1 .. 3 -> {number} \X (0 .. p.vertexCount - 1)]
<1>1. Len(seq) = 0
  OBVIOUS
<1>2. AuthoredSteps(number, p, 0) = Kept(seq, S)
  BY DEF AuthoredSteps
<1> HIDE DEF seq, S
<1>3. Kept(seq, S) = <<>>
  BY <1>1, KeptEmpty
<1> QED
  BY <1>2, <1>3

\* One more step of emitTri().
LEMMA OneMoreStep ==
  ASSUME NEW number, NEW p \in Primitive, ~Skips(p.mode, p.vertexCount), NEW k \in Nat, k < StepCount(p)
  PROVE  /\ \E S : AuthoredSteps(number, p, k) \in Seq(S)
         /\ AuthoredSteps(number, p, k + 1) =
              IF \A c \in 1 .. 3 : StepTriangle(p, k)[c] < p.vertexCount
              THEN Append(AuthoredSteps(number, p, k), AuthoredTriangle(number, p, k))
              ELSE AuthoredSteps(number, p, k)
<1> DEFINE seq == [i \in 1 .. k |-> AuthoredTriangle(number, p, i - 1)]
           longer == [i \in 1 .. k + 1 |-> AuthoredTriangle(number, p, i - 1)]
           S == [1 .. 3 -> {number} \X (0 .. p.vertexCount - 1)]
<1>1. AuthoredSteps(number, p, k) = Kept(seq, S) /\ AuthoredSteps(number, p, k + 1) = Kept(longer, S)
  BY DEF AuthoredSteps
<1>2. Len(seq) = k /\ Len(longer) = k + 1 /\ \A m \in 1 .. k : seq[m] = longer[m]
  OBVIOUS
<1>3. longer[k + 1] = AuthoredTriangle(number, p, k)
  <2>1. (k + 1) - 1 = k /\ k + 1 \in 1 .. k + 1
    OBVIOUS
  <2> QED
    BY <2>1
<1>4. AuthoredTriangle(number, p, k) \in S <=> \A c \in 1 .. 3 : StepTriangle(p, k)[c] < p.vertexCount
  BY StepMatches
<1> HIDE DEF seq, longer, S
<1>5. Kept(longer, S) = IF longer[k + 1] \in S THEN Append(Kept(seq, S), longer[k + 1]) ELSE Kept(seq, S)
  BY <1>2, KeptOneMore
<1>6. Kept(seq, S) \in Seq(S)
  BY <1>2, KeptType
<1> QED
  BY <1>1, <1>3, <1>4, <1>5, <1>6

\* What a primitive that opens changes, or one that is skipped.
LEMMA PrimitiveBegun ==
  ASSUME IInv, IInv', NEW mode \in Modes, NEW vertexCount \in 0 .. MaxVertices,
         NEW traits \in SUBSET Traits, BeginPrimitive(mode, vertexCount, traits)
  PROVE  \E p \in Primitive, n \in Nat, m \in Nat :
           /\ p.mode = mode /\ p.vertexCount = vertexCount /\ vertexCount \in Nat
           /\ n = Len(document) /\ Ended = n /\ m = Len(vertices)
           /\ phase = "parsing" /\ format = "gltf"
           /\ UNCHANGED << format, indices, materialIndex, meshRanges >>
           /\ Len(document') = n + 1 /\ document'[n + 1] = p /\ ReadOn
           /\ Skips(mode, vertexCount) => UNCHANGED << phase, vertices >>
           /\ ~Skips(mode, vertexCount) =>
                /\ phase' = "part" /\ part' = Here
                /\ \A v \in 1 .. m : vertices'[v] = vertices[v]
                /\ \A i \in 1 .. vertexCount : vertices'[m + i] = GltfVertex(p, i - 1)
<1> DEFINE most == MaxDetail - Detail - Weight(vertexCount, traits)
<1>1. PICK accessor \in IndexAccessors(mode, vertexCount, most) :
        LET p == [mode |-> mode, vertexCount |-> vertexCount, indices |-> accessor, traits |-> traits]
        IN  /\ document' = Append(document, p)
            /\ IF Skips(mode, vertexCount)
               THEN UNCHANGED << phase, vertices, part >>
               ELSE /\ phase' = "part"
                    /\ part' = Here
                    /\ vertices' = vertices \o [i \in 1 .. vertexCount |-> GltfVertex(p, i - 1)]
  BY DEF BeginPrimitive
<1> DEFINE p == [mode |-> mode, vertexCount |-> vertexCount, indices |-> accessor, traits |-> traits]
           new == [i \in 1 .. vertexCount |-> GltfVertex(p, i - 1)]
<1>2. p.mode = mode /\ p.vertexCount = vertexCount
  OBVIOUS
<1>3. /\ phase = "parsing" /\ format = "gltf"
      /\ UNCHANGED << format, indices, materialIndex, meshRanges >>
      /\ document' = Append(document, p)
  BY <1>1 DEF BeginPrimitive
<1>4. /\ Skips(mode, vertexCount) => UNCHANGED << phase, vertices >>
      /\ ~Skips(mode, vertexCount) => phase' = "part" /\ part' = Here /\ vertices' = vertices \o new
  BY <1>1
<1> HIDE DEF most
<1>5. TypeOK /\ TypeOK'
  BY Split DEF IInv
<1>6. document \in Seq(Primitive) /\ document' \in Seq(Primitive) /\ vertices \in Seq(Vertex)
  BY <1>3, <1>5 DEF TypeOK
<1>7. PICK n \in Nat : n = Len(document) /\ Ended = n
  <2>1. Len(document) \in Nat /\ Ended = Len(document)
    BY <1>3, EndedFacts
  <2> QED
    BY <2>1
<1>8. /\ Len(document') = n + 1 /\ document'[n + 1] = p
      /\ \A number \in 1 .. n : document'[number] = document[number]
  <2> HIDE DEF p
  <2> QED
    BY <1>3, <1>6, <1>7
<1>9. ReadOn
  BY <1>3, <1>7, <1>8 DEF ReadOn
<1>10. vertexCount \in Nat
  BY MeshRangesAssumption
<1>11. PICK m \in Nat : m = Len(vertices)
  BY <1>6
<1> HIDE DEF p
<1>12. p \in Primitive
  <2>1. n + 1 \in 1 .. Len(document')
    BY <1>8
  <2> QED
    BY <1>6, <1>8, <2>1
<1>13. /\ Len(new) = vertexCount /\ \E S : new \in Seq(S)
       /\ \A i \in 1 .. vertexCount : new[i] = GltfVertex(p, i - 1)
  <2>1. PICK S : S = { GltfVertex(p, i - 1) : i \in 1 .. vertexCount }
    OBVIOUS
  <2>2. new \in [1 .. vertexCount -> S]
    BY <2>1
  <2>3. \A i \in 1 .. vertexCount : new[i] = GltfVertex(p, i - 1)
    OBVIOUS
  <2> HIDE DEF new
  <2>4. new \in Seq(S) /\ Len(new) = vertexCount
    BY ONLY <1>10, <2>2
  <2> QED
    BY <2>3, <2>4
<1> HIDE DEF new
<1>14. ASSUME ~Skips(mode, vertexCount)
       PROVE  /\ \A v \in 1 .. m : vertices'[v] = vertices[v]
              /\ \A i \in 1 .. vertexCount : vertices'[m + i] = GltfVertex(p, i - 1)
  <2>1. PICK S : new \in Seq(S)
    BY <1>13
  <2>2. /\ \A v \in 1 .. m : (vertices \o new)[v] = vertices[v]
        /\ \A i \in 1 .. vertexCount : (vertices \o new)[m + i] = new[i]
    BY <1>6, <1>10, <1>11, <1>13, <2>1
  <2> QED
    BY <1>4, <1>13, <1>14, <2>2
<1> QED
  BY <1>2, <1>3, <1>4, <1>7, <1>8, <1>9, <1>10, <1>11, <1>12, <1>14

\* A primitive opens with its vertices and nothing drawn, or is never drawn.
LEMMA BeginPrimitiveDraws ==
  ASSUME IInv, IInv', DInv, NEW mode \in Modes, NEW vertexCount \in 0 .. MaxVertices,
         NEW traits \in SUBSET Traits, BeginPrimitive(mode, vertexCount, traits)
  PROVE  DInv'
<1>1. PICK p \in Primitive, n \in Nat, m \in Nat :
           /\ p.mode = mode /\ p.vertexCount = vertexCount /\ vertexCount \in Nat
           /\ n = Len(document) /\ Ended = n /\ m = Len(vertices)
           /\ phase = "parsing" /\ format = "gltf"
           /\ UNCHANGED << format, indices, materialIndex, meshRanges >>
           /\ Len(document') = n + 1 /\ document'[n + 1] = p /\ ReadOn
           /\ Skips(mode, vertexCount) => UNCHANGED << phase, vertices >>
           /\ ~Skips(mode, vertexCount) =>
                /\ phase' = "part" /\ part' = Here
                /\ \A v \in 1 .. m : vertices'[v] = vertices[v]
                /\ \A i \in 1 .. vertexCount : vertices'[m + i] = GltfVertex(p, i - 1)
  BY PrimitiveBegun
<1>2. /\ TypeOK /\ TypeOK' /\ (phase = "part" => document # <<>>) /\ (phase' = "part" => document' # <<>>)
  BY Split DEF IInv, Open
<1>3. CASE Skips(mode, vertexCount)
  <2>1. UNCHANGED << phase, vertices >> /\ phase' # "part"
    BY <1>1, <1>3
  <2>2. Ended' = n + 1
    BY <1>1, <1>2, <2>1, EndedPrimed
  <2>3. ~IsDrawn(n + 1)'
    BY <1>1, <1>3 DEF IsDrawn
  <2>4. EndedParts' = EndedParts
    BY <1>1, <1>2, <2>2, <2>3, EndedOneMore
  <2>5. ShownKept
    BY <1>1, <2>1 DEF ShownKept
  <2>6. Drawing'
    BY <1>1, <2>4, <2>5, DrawingKept DEF DInv
  <2> QED
    BY <1>1, <2>1, <2>6 DEF DInv, OpenDraws, Uploaded
<1>4. CASE ~Skips(mode, vertexCount)
  <2>1. /\ phase' = "part" /\ part' = Here
        /\ \A v \in 1 .. m : vertices'[v] = vertices[v]
        /\ \A i \in 1 .. vertexCount : vertices'[m + i] = GltfVertex(p, i - 1)
    BY <1>1, <1>4
  <2>2. Ended' = n
    <3>1. Ended' = (n + 1) - 1
      BY <1>1, <2>1 DEF Ended
    <3> QED
      BY <3>1
  <2>3. EndedParts' = EndedParts
    BY <1>1, <1>2, <2>2, EndedStays
  <2>4. ShownKept
    BY <1>1, <2>1 DEF ShownKept
  <2>5. Drawing'
    BY <1>1, <2>3, <2>4, DrawingKept DEF DInv
  <2>6. /\ part'.vertexBase = m /\ part'.indexStart = Len(indices) /\ part'.step = 0
    BY <1>1, <2>1 DEF Here
  <2>7. primitive' = p
    BY <1>1 DEF primitive
  <2>8. StepCount(p) \in Nat /\ 0 <= StepCount(p)
    BY StepCountType
  <2>9. \A i \in 1 .. vertexCount : vertices'[m + i].corner = << n + 1, i - 1 >>
    <3>1. \A i \in 1 .. vertexCount : GltfVertex(p, i - 1).corner = << n + 1, i - 1 >>
      BY <1>1 DEF GltfVertex
    <3> QED
      BY <2>1, <3>1
  <2>10. Len(indices) \in Nat
    BY <1>2 DEF TypeOK
  <2>11. Len(AuthoredSteps(n + 1, p, 0)) = 0
    BY NoSteps
  <2>12. PrimitiveDraws'
    <3>1. /\ p.vertexCount = vertexCount /\ indices' = indices /\ Len(document') = n + 1
      BY <1>1
    <3>2. \A i \in 1 .. primitive'.vertexCount :
            vertices'[part'.vertexBase + i].corner = << Len(document'), i - 1 >>
      BY <2>6, <2>7, <2>9, <3>1
    <3>3. AuthoredSteps(Len(document), primitive, part.step)' = AuthoredSteps(n + 1, p, 0)
      BY <2>6, <2>7, <3>1
    <3>4. Len(indices') - part'.indexStart = 0
      BY <2>6, <2>10, <3>1
    <3> QED
      BY <2>6, <2>7, <2>8, <2>11, <3>2, <3>3, <3>4 DEF PrimitiveDraws, Lists
  <2> QED
    BY <1>1, <2>1, <2>5, <2>12 DEF DInv, OpenDraws, Uploaded
<1> QED
  BY <1>3, <1>4

\* The triangles an open primitive has emitted use its own vertices.
LEMMA EmittedFacts ==
  ASSUME IInv, DInv, phase = "part", format = "gltf"
  PROVE  /\ primitive \in Primitive /\ ~Skips(primitive.mode, primitive.vertexCount)
         /\ primitive.vertexCount \in Nat /\ part.vertexBase \in Nat /\ part.indexStart \in Nat
         /\ part.step \in Nat /\ Len(indices) \in Nat /\ Len(vertices) \in Nat
         /\ Len(vertices) = part.vertexBase + primitive.vertexCount
         /\ indices \in Seq(Triangle) /\ vertices \in Seq(Vertex)
         /\ PrimitiveDraws
         /\ \A t \in part.indexStart + 1 .. Len(indices) :
              /\ t \in 1 .. Len(indices)
              /\ \A c \in 1 .. 3 : /\ indices[t][c] \in part.vertexBase .. Len(vertices) - 1
                                   /\ indices[t][c] + 1 \in 1 .. Len(vertices)
<1>1. /\ TypeOK /\ document # <<>> /\ OpenPart /\ OpenPrimitive /\ PrimitiveDraws
  BY Split DEF Open, DInv, OpenDraws
<1>2. primitive \in Primitive
  <2>1. document \in Seq(Primitive)
    BY <1>1 DEF TypeOK
  <2> QED
    BY <1>1, <2>1 DEF primitive
<1>3. /\ primitive.vertexCount \in Nat /\ part.vertexBase \in Nat /\ part.indexStart \in Nat
      /\ part.step \in Nat /\ Len(indices) \in Nat /\ Len(vertices) \in Nat
      /\ indices \in Seq(Triangle) /\ vertices \in Seq(Vertex)
  BY <1>1, <1>2 DEF TypeOK, Primitive, Triangle
<1>4. /\ ~Skips(primitive.mode, primitive.vertexCount)
      /\ Len(vertices) = part.vertexBase + primitive.vertexCount
  BY <1>1 DEF OpenPrimitive
<1>5. ASSUME NEW t \in part.indexStart + 1 .. Len(indices)
      PROVE  /\ t \in 1 .. Len(indices)
             /\ \A c \in 1 .. 3 : /\ indices[t][c] \in part.vertexBase .. Len(vertices) - 1
                                  /\ indices[t][c] + 1 \in 1 .. Len(vertices)
  <2>1. \A c \in 1 .. 3 : indices[t][c] \in part.vertexBase .. Len(vertices) - 1
    BY <1>1 DEF OpenPart
  <2>2. \A c \in 1 .. 3 : indices[t][c] + 1 \in 1 .. Len(vertices)
    BY <1>3, <2>1, Counted
  <2>3. t \in 1 .. Len(indices)
    BY <1>3
  <2> QED
    BY <2>1, <2>2, <2>3
<1> QED
  BY <1>1, <1>2, <1>3, <1>4, <1>5

\* A step of a primitive draws the triangle the document says, or drops it.
LEMMA EmitTriangleDraws ==
  ASSUME IInv, IInv', DInv, EmitTriangle
  PROVE  DInv'
<1> DEFINE tri == StepTriangle(primitive, part.step)
           emitted == [c \in 1 .. 3 |->
                         part.vertexBase + IF "mirrored" \in primitive.traits THEN tri[Turned[c]] ELSE tri[c]]
<1>1. /\ phase = "part" /\ phase' = "part" /\ format = "gltf" /\ format' = "gltf"
      /\ UNCHANGED << vertices, materialIndex, meshRanges, document >>
      /\ part.step < StepCount(primitive)
      /\ indices' = IF \E c \in 1 .. 3 : tri[c] >= primitive.vertexCount THEN indices
                    ELSE Append(indices, emitted)
      /\ part' = [part EXCEPT !.step = @ + 1]
  BY DEF EmitTriangle
<1>2. /\ TypeOK /\ TypeOK' /\ (phase = "part" => document # <<>>) /\ (phase' = "part" => document' # <<>>)
  BY <1>1, Split DEF IInv, Open
<1>3. /\ part'.vertexBase = part.vertexBase /\ part'.indexStart = part.indexStart
      /\ part'.step = part.step + 1
  <2>1. part \in [vertexBase : Nat, indexStart : Nat, triStart : Nat, step : Nat]
    BY <1>2 DEF TypeOK
  <2> QED
    BY ONLY <1>1, <2>1
<1> DEFINE p == primitive
           base == part.vertexBase
           first == part.indexStart
           k == part.step
           n == Len(document)
<1>4. /\ p \in Primitive /\ ~Skips(p.mode, p.vertexCount) /\ p.vertexCount \in Nat
      /\ base \in Nat /\ first \in Nat /\ k \in Nat /\ Len(indices) \in Nat
      /\ indices \in Seq(Triangle)
      /\ Len(vertices) = base + p.vertexCount
      /\ \A i \in 1 .. p.vertexCount : vertices[base + i].corner = << n, i - 1 >>
      /\ Len(indices) - first = Len(AuthoredSteps(n, p, k))
      /\ Lists(first, AuthoredSteps(n, p, k))
      /\ \A t \in first + 1 .. Len(indices) :
           t \in 1 .. Len(indices) /\ \A c \in 1 .. 3 : indices[t][c] + 1 \in 1 .. Len(vertices)
  BY <1>1, EmittedFacts DEF PrimitiveDraws
<1>5. \A c \in 1 .. 3 : tri[c] \in Nat
  BY <1>1, <1>4, StepTriangleType
<1>6. Ended' = Ended /\ ReadOn
  <2>1. Ended' = Ended
    BY <1>1 DEF Ended
  <2> QED
    BY <1>1, <2>1, EndedFacts DEF ReadOn
<1>7. EndedParts' = EndedParts
  BY <1>2, <1>6, EndedStays
<1>8. primitive' = p
  BY <1>1 DEF primitive
<1>9. StepCount(p) \in Nat /\ k + 1 <= StepCount(p)
  <2>1. StepCount(p) \in Nat
    BY <1>4, StepCountType
  <2> QED
    BY <1>1, <1>4, <2>1
<1> DEFINE before == AuthoredSteps(n, p, k)
           after == AuthoredSteps(n, p, k + 1)
<1>10. /\ \E S : before \in Seq(S)
       /\ after = IF \A c \in 1 .. 3 : tri[c] < p.vertexCount
                  THEN Append(before, AuthoredTriangle(n, p, k)) ELSE before
  BY <1>1, <1>4, OneMoreStep
<1>11. AuthoredSteps(Len(document), primitive, part.step)' = after
  BY <1>1, <1>3, <1>8
<1>12. CASE \E c \in 1 .. 3 : tri[c] >= p.vertexCount
  <2>1. indices' = indices
    BY <1>1, <1>12
  <2>2. after = before
    <3> HIDE DEF tri, before, after
    <3>1. ~(\A c \in 1 .. 3 : tri[c] < p.vertexCount)
      BY <1>4, <1>5, <1>12
    <3> QED
      BY <1>10, <3>1
  <2>3. ShownKept
    BY <1>1, <2>1 DEF ShownKept
  <2>4. Drawing'
    BY <1>1, <1>6, <1>7, <2>3, DrawingKept DEF DInv
  <2>5. \A t \in 1 .. Len(after) : SameFace(after[t], CornersAt(vertices', indices'[first + t]))
    <3>1. \A t \in 1 .. Len(before) : SameFace(before[t], CornersAt(vertices, indices[first + t]))
      BY <1>4 DEF Lists
    <3> QED
      BY <1>1, <2>1, <2>2, <3>1
  <2>6. PrimitiveDraws'
    <3>1. /\ part'.step <= StepCount(primitive')
          /\ Len(indices') - part'.indexStart = Len(after)
          /\ \A i \in 1 .. primitive'.vertexCount :
               vertices'[part'.vertexBase + i].corner = << Len(document'), i - 1 >>
      BY <1>1, <1>3, <1>4, <1>8, <1>9, <2>1, <2>2
    <3>2. Lists(part.indexStart, AuthoredSteps(Len(document), primitive, part.step))'
      BY <1>3, <1>11, <2>5 DEF Lists
    <3> QED
      BY <1>11, <3>1, <3>2 DEF PrimitiveDraws
  <2> QED
    BY <1>1, <2>4, <2>6 DEF DInv, OpenDraws, Uploaded
<1>13. CASE \A c \in 1 .. 3 : tri[c] < p.vertexCount
  <2>1. indices' = Append(indices, emitted)
    <3>1. ~(\E c \in 1 .. 3 : tri[c] >= p.vertexCount)
      BY <1>4, <1>5, <1>13
    <3> QED
      BY <1>1, <3>1
  <2>2. \A c \in 1 .. 3 : Taken(p, k)[c] \in Nat /\ Taken(p, k)[c] < p.vertexCount
                          /\ emitted[c] = base + Taken(p, k)[c]
    <3>1. \A c \in 1 .. 3 : Turned[c] \in 1 .. 3
      BY DEF Turned
    <3> QED
      BY <1>5, <1>13, <3>1 DEF Taken
  <2> HIDE DEF tri, emitted
  <2> HIDE DEF p, base, first, k, n
  <2>3. CornersAt(vertices, emitted) = [c \in 1 .. 3 |-> << n, Taken(p, k)[c] >>]
    <3>1. ASSUME NEW c \in 1 .. 3
          PROVE  vertices[emitted[c] + 1].corner = << n, Taken(p, k)[c] >>
      <4>1. PICK x \in Nat : x = Taken(p, k)[c] /\ x < p.vertexCount /\ emitted[c] = base + x
        BY <2>2
      <4>2. x + 1 \in 1 .. p.vertexCount /\ (x + 1) - 1 = x /\ emitted[c] + 1 = base + (x + 1)
        <5>1. base \in Nat /\ p.vertexCount \in Nat
          BY <1>4
        <5>2. x + 1 \in 1 .. p.vertexCount
          BY <4>1, <5>1
        <5>3. (base + x) + 1 = base + (x + 1) /\ (x + 1) - 1 = x
          BY <5>1
        <5> QED
          BY <4>1, <5>2, <5>3
      <4> QED
        BY <1>4, <4>1, <4>2
    <3> QED
      BY <3>1 DEF CornersAt
  <2>4. SameFace(AuthoredTriangle(n, p, k), CornersAt(vertices, emitted))
    <3>1. k < StepCount(p)
      BY <1>1 DEF k, p
    <3> QED
      BY <1>4, <2>3, <3>1, StepMatches
  <2>5. /\ Len(indices') = Len(indices) + 1 /\ indices'[Len(indices) + 1] = emitted
        /\ \A t \in 1 .. Len(indices) : indices'[t] = indices[t]
    BY <1>4, <2>1
  <2>6. ShownKept
    BY <1>1, <2>5 DEF ShownKept
  <2>7. Drawing'
    BY <1>1, <1>6, <1>7, <2>6, DrawingKept DEF DInv
  <2>8. PICK m \in Nat : m = Len(before)
    BY <1>10
  <2>9. after = Append(before, AuthoredTriangle(n, p, k))
    BY <1>10, <1>13
  <2>10. /\ Len(after) = m + 1 /\ after[m + 1] = AuthoredTriangle(n, p, k)
         /\ \A t \in 1 .. m : after[t] = before[t]
    <3> HIDE DEF before, after
    <3> QED
      BY <1>10, <2>8, <2>9
  <2>11. Len(indices) - first = m /\ Len(indices) = first + m
    <3>1. Len(indices) - first = m
      BY <1>4, <2>8
    <3> QED
      BY <1>4, <3>1
  <2> HIDE DEF before, after
  <2>12. ASSUME NEW t \in 1 .. m + 1
         PROVE  SameFace(after[t], CornersAt(vertices', indices'[first + t]))
    <3>1. CASE t \in 1 .. m
      <4>1. first + t \in 1 .. Len(indices) /\ first + t \in first + 1 .. Len(indices)
        BY <1>4, <2>11, <3>1, Placed
      <4>2. CornersAt(vertices', indices'[first + t]) = CornersAt(vertices, indices[first + t])
        BY <1>4, <2>6, <4>1, CornersKept
      <4>3. SameFace(before[t], CornersAt(vertices, indices[first + t]))
        BY <1>4, <2>8, <3>1 DEF Lists, before
      <4> QED
        BY <2>10, <3>1, <4>2, <4>3
    <3>2. CASE t = m + 1
      <4>1. first + t = Len(indices) + 1
        BY <1>4, <2>11, <3>2, PlacedNext
      <4> QED
        BY <1>1, <2>4, <2>5, <2>10, <3>2, <4>1
    <3> QED
      BY <3>1, <3>2
  <2>13. PrimitiveDraws'
    <3>1. Len(indices') - first = Len(after)
      <4>1. (Len(indices) + 1) - first = m + 1
        BY <1>4, <2>11, PlacedNext
      <4> QED
        BY <2>5, <2>10, <4>1
    <3>2. /\ part'.step <= StepCount(primitive')
          /\ Len(indices') - part'.indexStart = Len(after)
          /\ \A i \in 1 .. primitive'.vertexCount :
               vertices'[part'.vertexBase + i].corner = << Len(document'), i - 1 >>
      BY <1>1, <1>3, <1>4, <1>8, <1>9, <3>1 DEF base, first, n, k
    <3>3. Lists(part.indexStart, AuthoredSteps(Len(document), primitive, part.step))'
      BY <1>3, <1>11, <2>10, <2>12 DEF Lists, first
    <3> QED
      BY <1>11, <3>2, <3>3 DEF PrimitiveDraws
  <2> QED
    BY <1>1, <2>7, <2>13 DEF DInv, OpenDraws, Uploaded
<1>14. (\E c \in 1 .. 3 : tri[c] >= p.vertexCount) \/ (\A c \in 1 .. 3 : tri[c] < p.vertexCount)
  <2> HIDE DEF tri
  <2> QED
    BY <1>4, <1>5
<1> QED
  BY <1>12, <1>13, <1>14

\* A primitive that ends has every triangle of the document, and one material.
LEMMA EndPrimitiveDraws ==
  ASSUME IInv, IInv', DInv, EndPrimitive
  PROVE  DInv'
<1> DEFINE p == primitive
           id == IF HasMaterial(p) THEN 0 ELSE fallbackMaterial
           ids == [t \in 1 .. emittedTriangles |-> id]
<1>1. /\ phase = "part" /\ phase' = "parsing" /\ format = "gltf" /\ format' = "gltf"
      /\ UNCHANGED << format, indices, document >> /\ part.step = StepCount(p)
      /\ materialIndex' = materialIndex \o ids
      /\ meshRanges' = Append(meshRanges, PartRange(Len(materialIndex'), "doubleSided" \in p.traits))
  BY DEF EndPrimitive
<1>2. /\ TypeOK /\ OpenPart /\ OpenPrimitive /\ PrimitiveDraws
  BY <1>1, Split DEF Open, DInv, OpenDraws
<1>3. PICK n \in Nat : n = Len(document) /\ document[n] = p
  <2>1. Len(document) \in Nat
    BY EndedFacts
  <2> QED
    BY <2>1 DEF primitive
<1>4. /\ p \in Primitive /\ ~Skips(p.mode, p.vertexCount) /\ Len(indices) \in Nat
      /\ vertices \in Seq(Vertex) /\ part.indexStart \in Nat
      /\ \A t \in part.indexStart + 1 .. Len(indices) :
           t \in 1 .. Len(indices) /\ \A c \in 1 .. 3 : indices[t][c] + 1 \in 1 .. Len(vertices)
  BY <1>1, EmittedFacts
<1>5. AuthoredTriangles(n) = AuthoredSteps(n, p, part.step)
  BY <1>1, <1>3, <1>4 DEF AuthoredTriangles, Skips
<1>6. IsDrawn(n) /\ AuthoredMaterials(n) = [t \in DOMAIN AuthoredTriangles(n) |-> id]
  BY <1>1, <1>3, <1>4 DEF IsDrawn, AuthoredMaterials
<1>7. /\ AuthoredTriangles(n)' = AuthoredTriangles(n) /\ AuthoredMaterials(n)' = AuthoredMaterials(n)
      /\ IsDrawn(n)' = IsDrawn(n)
  BY <1>1, AuthoredStays
<1>8. /\ Len(indices) - part.indexStart = Len(AuthoredTriangles(n))
      /\ Lists(part.indexStart, AuthoredTriangles(n))
  BY <1>2, <1>3, <1>5 DEF PrimitiveDraws
<1>9. PICK m \in Nat : m = Len(AuthoredTriangles(n)) /\ DOMAIN AuthoredTriangles(n) = 1 .. m
  <2>1. n \in DOMAIN document
    BY <1>1, <1>3, EndedFacts
  <2> QED
    BY <1>2, <2>1, AuthoredLengths
<1>10. emittedTriangles = m
  BY <1>8, <1>9 DEF emittedTriangles
<1>11. /\ Len(ids) = m /\ ids \in Seq({id}) /\ \A t \in 1 .. m : ids[t] = id
  <2> HIDE DEF id
  <2>1. ids \in [1 .. m -> {id}] /\ \A t \in 1 .. m : ids[t] = id
    BY <1>10
  <2> HIDE DEF ids
  <2> QED
    BY <2>1
<1>12. /\ materialIndex \in Seq(Nat) /\ Len(materialIndex) = part.triStart
  BY <1>2 DEF TypeOK, OpenPrimitive
<1> HIDE DEF ids, id
<1>13. /\ \A t \in 1 .. Len(materialIndex) : materialIndex'[t] = materialIndex[t]
       /\ \A t \in 1 .. m : materialIndex'[part.triStart + t] = id
  <2>1. /\ \A t \in 1 .. Len(materialIndex) : (materialIndex \o ids)[t] = materialIndex[t]
        /\ \A t \in 1 .. Len(ids) : (materialIndex \o ids)[Len(materialIndex) + t] = ids[t]
    BY <1>11, <1>12
  <2> QED
    BY <1>1, <1>11, <1>12, <2>1
<1>14. ASSUME NEW v \in 1 .. Len(vertices) PROVE vertices'[v].corner = vertices[v].corner
  <2> DEFINE flat == IF "normals" \in p.traits THEN vertices
                     ELSE computeFlatNormals(vertices, indices, part.indexStart)
  <2>1. flat \in Seq(Vertex) /\ Len(flat) = Len(vertices)
    BY <1>4, AttributesType
  <2>2. flat[v].corner = vertices[v].corner
    BY <1>4, CornersStay
  <2>3. vertices' = IF "tangents" \in p.traits THEN flat
                    ELSE computeTangents(flat, indices, part.indexStart)
    BY DEF EndPrimitive
  <2> HIDE DEF flat, p
  <2>4. computeTangents(flat, indices, part.indexStart)[v].corner = flat[v].corner
    BY <2>1, CornersStay
  <2> QED
    BY <2>2, <2>3, <2>4
<1>15. ShownKept
  BY <1>1, <1>13, <1>14 DEF ShownKept
<1>16. PICK first, start : first = part.indexStart /\ start = part.triStart
  OBVIOUS
<1>17. ASSUME NEW t \in 1 .. m
       PROVE  SameFace(AuthoredTriangles(n)[t], CornersAt(vertices', indices'[first + t]))
  <2>1. first + t \in 1 .. Len(indices) /\ first + t \in first + 1 .. Len(indices)
    <3>1. Len(indices) - first = m /\ first \in Nat
      BY <1>4, <1>8, <1>9, <1>16
    <3> QED
      BY <1>4, <3>1, Placed
  <2>2. CornersAt(vertices', indices'[first + t]) = CornersAt(vertices, indices[first + t])
    BY <1>4, <1>15, <1>16, <2>1, CornersKept
  <2>3. SameFace(AuthoredTriangles(n)[t], CornersAt(vertices, indices[first + t]))
    BY <1>8, <1>9, <1>16 DEF Lists
  <2> QED
    BY <2>2, <2>3
<1>18. Lists(first, AuthoredTriangles(n))'
  BY <1>7, <1>9, <1>17 DEF Lists
<1>19. ListsIds(start, AuthoredMaterials(n))'
  <2>1. Len(AuthoredMaterials(n)) = m /\ \A t \in 1 .. m : AuthoredMaterials(n)[t] = id
    <3>1. AuthoredMaterials(n) = [t \in 1 .. m |-> id]
      BY <1>6, <1>9
    <3> QED
      BY <3>1
  <2> QED
    BY <1>7, <1>13, <1>16, <2>1 DEF ListsIds
<1>20. PICK triEnd, doubleSided : meshRanges' = Append(meshRanges, PartRange(triEnd, doubleSided))
  BY <1>1
<1>21. Drawing'
  <2>1. IsDrawn(n)' /\ Len(indices) - first = Len(AuthoredTriangles(n)) /\ phase' # "part" /\ n = Len(document)
    BY <1>1, <1>3, <1>6, <1>7, <1>8, <1>16
  <2> QED
    BY <1>1, <1>15, <1>16, <1>18, <1>19, <1>20, <2>1, PartDrawn
<1> QED
  BY <1>1, <1>21 DEF DInv, OpenDraws, Uploaded

\* A step that changes none of the variables draws nothing new.
LEMMA StutteringDraws ==
  ASSUME DInv, UNCHANGED vars
  PROVE  DInv'
<1>1. /\ UNCHANGED << phase, format, vertices, indices, materialIndex, meshRanges >>
      /\ UNCHANGED << part, document, meshes >>
  BY DEF vars, arrays
<1>2. UNCHANGED << Ended, Drawn >>
  BY <1>1 DEF Ended, Drawn, IsDrawn, AuthoredTriangles
<1>3. EndedParts' = EndedParts
  BY <1>2 DEF EndedParts
<1>4. ASSUME NEW r \in DOMAIN meshRanges' PROVE RangeDraws(r, EndedParts[r])'
  <2>1. PICK number : number = EndedParts[r]
    OBVIOUS
  <2>2. RangeDraws(r, number)
    BY <1>1, <2>1 DEF DInv, Drawing
  <2>3. RangeDraws(r, number)'
    BY <1>1, <2>2, AuthoredStays DEF RangeDraws, Lists, ListsIds
  <2> QED
    BY <1>3, <2>1, <2>3
<1>5. Drawing'
  BY <1>1, <1>3, <1>4 DEF DInv, Drawing
<1>6. PICK n : n = Len(document)
  OBVIOUS
<1>7. AuthoredTriangles(n)' = AuthoredTriangles(n) /\ AuthoredMaterials(n)' = AuthoredMaterials(n)
  BY <1>1, AuthoredStays
<1>8. ShapeDraws => ShapeDraws'
  <2>1. AuthoredTriangles(Len(document))' = AuthoredTriangles(n)' /\ AuthoredMaterials(Len(document))' = AuthoredMaterials(n)'
    BY <1>1, <1>6 DEF AuthoredTriangles, AuthoredMaterials
  <2> QED
    BY <1>1, <1>6, <1>7, <2>1 DEF ShapeDraws, Lists, ListsIds
<1>9. PrimitiveDraws => PrimitiveDraws'
  BY <1>1 DEF PrimitiveDraws, Lists, primitive
<1>10. OpenDraws'
  BY <1>1, <1>8, <1>9 DEF DInv, OpenDraws
<1>11. Uploaded'
  BY <1>1 DEF DInv, Uploaded, Parsed
<1> QED
  BY <1>5, <1>10, <1>11 DEF DInv

\* Every step keeps what is drawn in step with what is read.
LEMMA NextDInv == IInv /\ DInv /\ [Next]_vars => DInv'
<1> SUFFICES ASSUME IInv, DInv, [Next]_vars PROVE DInv'
  OBVIOUS
<1>0. IInv'
  BY NextIInv
<1>1. ASSUME NEW f \in {"obj", "gltf"}, parseCpu(f) PROVE DInv'
  BY <1>1, ParseCpuDraws
<1>2. CASE BeginShape
  BY <1>0, <1>2, BeginShapeDraws
<1>3. ASSUME NEW face \in Faces \cup {Bad}, ReadFace(face) PROVE DInv'
  BY <1>0, <1>3, ReadFaceDraws
<1>4. CASE EndShape
  BY <1>0, <1>4, EndShapeDraws
<1>5. CASE ObjParsed
  BY <1>0, <1>5, ObjParsedDraws
<1>6. ASSUME NEW mode \in Modes, NEW vertexCount \in 0 .. MaxVertices, NEW traits \in SUBSET Traits,
             BeginPrimitive(mode, vertexCount, traits)
      PROVE  DInv'
  BY <1>0, <1>6, BeginPrimitiveDraws
<1>7. CASE EmitTriangle
  BY <1>0, <1>7, EmitTriangleDraws
<1>8. CASE EndPrimitive
  BY <1>0, <1>8, EndPrimitiveDraws
<1>9. CASE GltfParsed
  BY <1>0, <1>9, GltfParsedDraws
<1>10. CASE uploadParsed
  BY <1>0, <1>10, UploadParsedDraws
<1>11. CASE UNCHANGED vars
  BY <1>11, StutteringDraws
<1> QED
  BY <1>1, <1>2, <1>3, <1>4, <1>5, <1>6, <1>7, <1>8, <1>9, <1>10, <1>11 DEF Next

\* A loader that has not read anything draws nothing.
LEMMA InitDInv == Init => DInv
<1> SUFFICES ASSUME Init PROVE DInv
  OBVIOUS
<1>1. Ended = 0
  BY DEF Init, Ended
<1>2. Len([number \in 1 .. 0 |-> number]) = 0
  OBVIOUS
<1>3. EndedParts = <<>>
  BY <1>1, <1>2, KeptEmpty DEF EndedParts
<1> QED
  BY <1>3 DEF Init, DInv, Drawing, OpenDraws, Uploaded

\* What sliceMeshRange() returns for a range that fits.
LEMMA SliceFields ==
  ASSUME NEW range, NEW own, FitsIn(range, own), NEW slice, slice = sliceMeshRange(range, own)
  PROVE  /\ slice.vertices = SubSeq(own.vertices, range.vertexBase + 1, range.vertexBase + range.vertexCount)
         /\ slice.indices = [t \in 1 .. range.indexCount |->
                              [c \in 1 .. 3 |-> own.indices[range.indexStart + t][c] - range.vertexBase]]
         /\ slice.materialIndex = SubSeq(own.materialIndex, range.triStart + 1, range.triStart + range.triCount)
<1>1. PICK vs : vs = SubSeq(own.vertices, range.vertexBase + 1, range.vertexBase + range.vertexCount)
  OBVIOUS
<1>2. PICK tris : tris = [t \in 1 .. range.indexCount |->
                           [c \in 1 .. 3 |-> own.indices[range.indexStart + t][c] - range.vertexBase]]
  OBVIOUS
<1>3. PICK ids : ids = SubSeq(own.materialIndex, range.triStart + 1, range.triStart + range.triCount)
  OBVIOUS
<1>4. PICK sided : sided = range.doubleSided
  OBVIOUS
<1>5. slice = [vertices |-> vs, indices |-> tris, materialIndex |-> ids, doubleSided |-> sided]
  BY <1>1, <1>2, <1>3, <1>4, Zenon DEF sliceMeshRange
<1>6. slice.vertices = vs /\ slice.indices = tris /\ slice.materialIndex = ids
  BY ONLY <1>5
<1> QED
  BY ONLY <1>1, <1>2, <1>3, <1>6, Zenon

\* There is a mesh per range, and a range per part that is drawn
\* (addMeshesForRanges()).
LEMMA MeshesOfRanges ==
  ASSUME IInv, DInv, phase = "uploaded"
  PROVE  /\ DOMAIN meshes = DOMAIN meshRanges /\ Len(meshes) = Len(meshRanges)
         /\ DrawnParts = EndedParts /\ Len(DrawnParts) = Len(meshes)
         /\ \A k \in DOMAIN meshRanges : meshes[k] = sliceMeshRange(meshRanges[k], Parsed)
<1>1. TypeOK /\ meshRanges # <<>> /\ meshes = MeshesForRanges(Parsed)
  BY Split DEF DInv, Uploaded
<1>2. meshes = [r \in DOMAIN meshRanges |-> sliceMeshRange(meshRanges[r], Parsed)]
  BY <1>1 DEF MeshesForRanges, Parsed
<1>3. DOMAIN meshes = DOMAIN meshRanges /\ Len(meshes) = Len(meshRanges)
  <2>1. meshRanges \in Seq(MeshRange)
    BY <1>1 DEF TypeOK
  <2> QED
    BY <1>2, <2>1
<1>4. DrawnParts = EndedParts
  <2>1. Ended = Len(document) /\ DOMAIN document = 1 .. Len(document)
    BY EndedFacts
  <2> QED
    BY <2>1 DEF DrawnParts, EndedParts, Drawn
<1>5. Len(DrawnParts) = Len(meshes)
  BY <1>3, <1>4 DEF DInv, Drawing
<1> QED
  BY <1>2, <1>3, <1>4, <1>5

\* A mesh is the slice of the arrays its range covers (sliceMeshRange()).
LEMMA MeshFacts ==
  ASSUME IInv, DInv, phase = "uploaded", NEW k \in DOMAIN meshes
  PROVE  /\ k \in DOMAIN meshRanges
         /\ Len(meshes[k].vertices) = meshRanges[k].vertexCount
         /\ DOMAIN meshes[k].vertices = 1 .. meshRanges[k].vertexCount
         /\ \A v \in 1 .. meshRanges[k].vertexCount :
              /\ meshes[k].vertices[v] = vertices[meshRanges[k].vertexBase + v]
              /\ meshRanges[k].vertexBase + v \in meshRanges[k].vertexBase + 1 .. VertexEnd(k)
         /\ Len(meshes[k].indices) = meshRanges[k].indexCount
         /\ DOMAIN meshes[k].indices = 1 .. meshRanges[k].indexCount
         /\ \A t \in 1 .. meshRanges[k].indexCount, c \in 1 .. 3 :
              meshes[k].vertices[meshes[k].indices[t][c] + 1]
                = vertices[indices[meshRanges[k].indexStart + t][c] + 1]
         /\ meshes[k].materialIndex =
              [t \in 1 .. meshRanges[k].triCount |-> materialIndex[meshRanges[k].triStart + t]]
<1> DEFINE range == meshRanges[k]
           mesh == meshes[k]
<1>3. k \in DOMAIN meshRanges
  BY MeshesOfRanges
<1>6. mesh = sliceMeshRange(range, Parsed) /\ FitsIn(range, Parsed)
  BY <1>3, MeshesOfRanges, RangeFacts
<1>7. /\ range.vertexBase \in Nat /\ range.vertexCount \in Nat /\ range.indexStart \in Nat
      /\ range.indexCount \in Nat /\ range.triStart \in Nat /\ range.triCount \in Nat
      /\ VertexEnd(k) = range.vertexBase + range.vertexCount
  <2>1. range \in MeshRange /\ VertexEnd(k) = range.vertexBase + range.vertexCount
    BY <1>3, RangeFacts
  <2> QED
    BY <2>1 DEF MeshRange
<1>8. /\ mesh.vertices = SubSeq(vertices, range.vertexBase + 1, range.vertexBase + range.vertexCount)
      /\ mesh.indices = [t \in 1 .. range.indexCount |->
                           [c \in 1 .. 3 |-> indices[range.indexStart + t][c] - range.vertexBase]]
      /\ mesh.materialIndex = SubSeq(materialIndex, range.triStart + 1, range.triStart + range.triCount)
  <2>1. /\ Parsed.vertices = vertices /\ Parsed.indices = indices
        /\ Parsed.materialIndex = materialIndex
    BY DEF Parsed
  <2> HIDE DEF range, mesh
  <2> QED
    BY <1>6, <2>1, SliceFields
<1> HIDE DEF range, mesh
<1>9. ASSUME NEW s, NEW a \in Nat, NEW n \in Nat
      PROVE  SubSeq(s, a + 1, a + n) = [i \in 1 .. n |-> s[a + i]]
  <2>1. SubSeq(s, a + 1, a + n) = [i \in 1 .. (a + n) - (a + 1) + 1 |-> s[i + (a + 1) - 1]]
    OBVIOUS
  <2>2. (a + n) - (a + 1) + 1 = n /\ \A i \in 1 .. n : i + (a + 1) - 1 = a + i
    OBVIOUS
  <2> QED
    BY <2>1, <2>2
<1>10. mesh.vertices = [v \in 1 .. range.vertexCount |-> vertices[range.vertexBase + v]]
  <2>1. PICK a \in Nat, n \in Nat : a = range.vertexBase /\ n = range.vertexCount
    BY <1>7
  <2>2. SubSeq(vertices, a + 1, a + n) = [i \in 1 .. n |-> vertices[a + i]]
    BY <1>9
  <2>3. mesh.vertices = SubSeq(vertices, a + 1, a + n)
    BY ONLY <1>8, <2>1
  <2> QED
    BY ONLY <2>1, <2>2, <2>3
<1>11. mesh.materialIndex = [t \in 1 .. range.triCount |-> materialIndex[range.triStart + t]]
  <2>1. PICK a \in Nat, n \in Nat : a = range.triStart /\ n = range.triCount
    BY <1>7
  <2>2. SubSeq(materialIndex, a + 1, a + n) = [i \in 1 .. n |-> materialIndex[a + i]]
    BY <1>9
  <2>3. mesh.materialIndex = SubSeq(materialIndex, a + 1, a + n)
    BY ONLY <1>8, <2>1
  <2> QED
    BY ONLY <2>1, <2>2, <2>3
<1>12. /\ Len(mesh.vertices) = range.vertexCount /\ DOMAIN mesh.vertices = 1 .. range.vertexCount
       /\ \A v \in 1 .. range.vertexCount : mesh.vertices[v] = vertices[range.vertexBase + v]
  BY <1>7, <1>10
<1>13. /\ Len(mesh.indices) = range.indexCount /\ DOMAIN mesh.indices = 1 .. range.indexCount
  BY <1>7, <1>8
<1>14. ASSUME NEW t \in 1 .. range.indexCount, NEW c \in 1 .. 3
       PROVE  mesh.vertices[mesh.indices[t][c] + 1] = vertices[indices[range.indexStart + t][c] + 1]
  <2>1. PICK i : i = indices[range.indexStart + t][c]
    OBVIOUS
  <2>2. i \in range.vertexBase .. VertexEnd(k) - 1
    BY <1>3, <2>1, RangeFacts DEF range
  <2>3. mesh.indices[t][c] = i - range.vertexBase
    BY <1>8, <2>1
  <2>4. PICK base \in Nat, count \in Nat : base = range.vertexBase /\ count = range.vertexCount
    BY <1>7
  <2>5. i \in base .. base + count - 1
    BY <1>7, <2>2, <2>4
  <2>6. (i - base) + 1 \in 1 .. count /\ base + ((i - base) + 1) = i + 1
    BY <2>5
  <2> QED
    BY <1>12, <2>1, <2>3, <2>4, <2>6
<1>15. ASSUME NEW v \in 1 .. range.vertexCount
       PROVE  range.vertexBase + v \in range.vertexBase + 1 .. VertexEnd(k)
  <2>1. PICK base \in Nat, count \in Nat : base = range.vertexBase /\ count = range.vertexCount
    BY <1>7
  <2>2. base + v \in base + 1 .. base + count
    BY <2>1
  <2> QED
    BY <1>7, <2>1, <2>2
<1> QED
  BY <1>3, <1>11, <1>12, <1>13, <1>14, <1>15 DEF range, mesh

\* Every mesh draws the triangles of its part, in their order and with their
\* orientation and materials.
LEMMA DInvDraws == IInv /\ DInv => MeshesDrawTheirParts
<1> SUFFICES ASSUME IInv, DInv, phase = "uploaded", NEW k \in DOMAIN meshes
             PROVE  /\ Len(meshes[k].indices) = Len(AuthoredTriangles(DrawnParts[k]))
                    /\ \A t \in DOMAIN AuthoredTriangles(DrawnParts[k]) :
                         SameFace(AuthoredTriangles(DrawnParts[k])[t],
                                  CornersAt(meshes[k].vertices, meshes[k].indices[t]))
                    /\ meshes[k].materialIndex = AuthoredMaterials(DrawnParts[k])
  BY MeshesOfRanges DEF MeshesDrawTheirParts
<1>1. PICK number, range, mesh : number = DrawnParts[k] /\ range = meshRanges[k] /\ mesh = meshes[k]
  OBVIOUS
<1>2. PICK tris, ids : tris = AuthoredTriangles(number) /\ ids = AuthoredMaterials(number)
  OBVIOUS
<1>3. k \in DOMAIN meshRanges /\ k \in 1 .. Len(EndedParts) /\ number = EndedParts[k]
  <2>1. k \in DOMAIN meshRanges /\ DrawnParts = EndedParts /\ Len(meshRanges) = Len(EndedParts)
    BY MeshesOfRanges DEF DInv, Drawing
  <2>2. k \in 1 .. Len(meshRanges)
    BY <2>1, RangeFacts
  <2> QED
    BY <1>1, <2>1, <2>2
<1>4. /\ range.indexCount = Len(tris) /\ range.triCount = Len(tris)
      /\ \A t \in 1 .. Len(tris) : SameFace(tris[t], CornersAt(vertices, indices[range.indexStart + t]))
      /\ \A t \in 1 .. Len(ids) : materialIndex[range.triStart + t] = ids[t]
  <2>1. RangeDraws(k, number)
    BY <1>3 DEF DInv, Drawing
  <2>2. range.triCount = range.indexCount
    BY <1>1, <1>3, RangeFacts
  <2> QED
    BY <1>1, <1>2, <2>1, <2>2 DEF RangeDraws, Lists, ListsIds
<1>5. Len(ids) = Len(tris) /\ DOMAIN tris = 1 .. Len(tris) /\ DOMAIN ids = 1 .. Len(tris)
  <2>1. number \in DOMAIN document /\ TypeOK
    <3>1. Ended \in Nat /\ Len(document) \in Nat /\ Ended <= Len(document) /\ number \in 1 .. Ended
          /\ DOMAIN document = 1 .. Len(document)
      BY <1>3, EndedFacts
    <3> QED
      BY <3>1, Split
  <2> QED
    BY <1>2, <2>1, AuthoredLengths
<1>6. /\ Len(mesh.indices) = range.indexCount
      /\ \A t \in 1 .. range.indexCount, c \in 1 .. 3 :
           mesh.vertices[mesh.indices[t][c] + 1] = vertices[indices[range.indexStart + t][c] + 1]
      /\ mesh.materialIndex = [t \in 1 .. range.triCount |-> materialIndex[range.triStart + t]]
  BY <1>1, MeshFacts
<1>7. ASSUME NEW t \in DOMAIN tris
      PROVE  SameFace(tris[t], CornersAt(mesh.vertices, mesh.indices[t]))
  <2>1. t \in 1 .. Len(tris) /\ t \in 1 .. range.indexCount
    BY <1>4, <1>5
  <2>2. CornersAt(mesh.vertices, mesh.indices[t]) = CornersAt(vertices, indices[range.indexStart + t])
    BY <1>6, <2>1 DEF CornersAt
  <2> QED
    BY <1>4, <2>1, <2>2
<1>8. mesh.materialIndex = ids
  <2>1. ids = [t \in 1 .. Len(tris) |-> ids[t]]
    <3>1. ids = [t \in DOMAIN ids |-> ids[t]]
      <4>1. CASE format = "obj"
        BY <1>2, <4>1 DEF AuthoredMaterials
      <4>2. CASE format # "obj"
        BY <1>2, <4>2 DEF AuthoredMaterials
      <4> QED
        BY <4>1, <4>2
    <3> QED
      BY <1>5, <3>1
  <2>2. \A t \in 1 .. Len(tris) : materialIndex[range.triStart + t] = ids[t]
    BY <1>4, <1>5
  <2>3. mesh.materialIndex = [t \in 1 .. Len(tris) |-> materialIndex[range.triStart + t]]
    BY <1>4, <1>6
  <2> QED
    BY <2>1, <2>2, <2>3
<1> QED
  BY <1>1, <1>2, <1>4, <1>6, <1>7, <1>8

(***************************************************************************)
(* What is shaded stays shaded.                                            *)
(***************************************************************************)
\* The parts that ended stay, and one more may have ended.
LEMMA EndedGoesOn ==
  ASSUME IInv, IInv', ReadOn, Ended' = Ended \/ Ended' = Ended + 1
  PROVE  /\ \A r \in 1 .. Len(EndedParts) : EndedParts'[r] = EndedParts[r]
         /\ EndedParts' = EndedParts \/ EndedParts' = Append(EndedParts, Ended + 1)
<1>1. TypeOK /\ TypeOK' /\ (phase = "part" => document # <<>>) /\ (phase' = "part" => document' # <<>>)
  BY Split DEF IInv, Open
<1>2. PICK n \in Nat : n = Ended
  BY EndedFacts
<1>3. EndedParts \in Seq(1 .. Ended)
  BY EndedFacts
<1>4. CASE Ended' = Ended
  <2>1. EndedParts' = EndedParts
    BY <1>1, <1>4, EndedStays
  <2> QED
    BY <2>1
<1>5. CASE Ended' = Ended + 1
  <2>1. Ended' = n + 1
    BY <1>2, <1>5
  <2>2. EndedParts' = IF IsDrawn(n + 1)' THEN Append(EndedParts, n + 1) ELSE EndedParts
    BY <1>1, <1>2, <2>1, EndedOneMore
  <2>3. EndedParts' = EndedParts \/ EndedParts' = Append(EndedParts, n + 1)
    BY <2>2
  <2>4. \A r \in 1 .. Len(EndedParts) : Append(EndedParts, n + 1)[r] = EndedParts[r]
    BY <1>3
  <2> QED
    BY <1>2, <2>3, <2>4
<1> QED
  BY <1>4, <1>5

\* A range keeps what it has while its triangles and vertices stay.
LEMMA RangeShadedKept ==
  ASSUME IInv, NEW r \in DOMAIN meshRanges, meshRanges'[r] = meshRanges[r],
         NEW number, document'[number] = document[number],
         \A v \in 1 .. VertexEnd(r) : vertices'[v] = vertices[v],
         \A t \in 1 .. Len(indices) : indices'[t] = indices[t],
         RangeShaded(r, number)
  PROVE  RangeShaded(r, number)'
<1>1. PICK base \in Nat, vertexCount \in Nat, first \in Nat, indexCount \in Nat :
        /\ base = meshRanges[r].vertexBase /\ vertexCount = meshRanges[r].vertexCount
        /\ first = meshRanges[r].indexStart /\ indexCount = meshRanges[r].indexCount
        /\ VertexEnd(r) = base + vertexCount
  <2>1. meshRanges[r] \in MeshRange /\ VertexEnd(r) = meshRanges[r].vertexBase + meshRanges[r].vertexCount
    BY RangeFacts
  <2> QED
    BY <2>1 DEF MeshRange
<1>2. ASSUME NEW t \in 1 .. indexCount, Shaded(first + t)
      PROVE  Shaded(first + t)'
  <2>1. PICK tri : tri = indices[first + t] /\ tri = indices'[first + t]
    <3>1. first + t \in 1 .. Len(indices)
      BY <1>1, RangeFacts
    <3> QED
      BY <3>1
  <2>2. \A c \in 1 .. 3 : vertices'[tri[c] + 1] = vertices[tri[c] + 1]
    <3> TAKE c \in 1 .. 3
    <3>1. PICK i : i = tri[c]
      OBVIOUS
    <3>2. i \in base .. (base + vertexCount) - 1
      BY <1>1, <2>1, <3>1, RangeFacts
    <3>3. i + 1 \in 1 .. base + vertexCount
      BY <3>2
    <3> QED
      BY <1>1, <3>1, <3>3
  <2>3. HasArea(vertices, tri) <=> HasArea(vertices', tri)
    BY <2>2, AreaOfCorners
  <2>4. HasArea(vertices, tri) => \A c \in 1 .. 3 : ShadedCorner(vertices[tri[c] + 1])
    BY <1>2, <2>1 DEF Shaded
  <2> QED
    BY <2>1, <2>2, <2>3, <2>4 DEF Shaded
<1>3. ASSUME NEW v \in 1 .. vertexCount
      PROVE  vertices'[base + v] = vertices[base + v]
  <2>1. base + v \in 1 .. base + vertexCount
    OBVIOUS
  <2> QED
    BY <1>1, <2>1
<1> QED
  BY <1>1, <1>2, <1>3 DEF RangeShaded, TrianglesShaded

\* ... and so does every range.
LEMMA RangesShadedKept ==
  ASSUME IInv, IInv', DInv, ReadOn, Ended' = Ended \/ Ended' = Ended + 1,
         \A r \in DOMAIN meshRanges : /\ meshRanges'[r] = meshRanges[r]
                                      /\ \A v \in 1 .. VertexEnd(r) : vertices'[v] = vertices[v],
         \A t \in 1 .. Len(indices) : indices'[t] = indices[t],
         PrimitivesShaded, NEW r \in DOMAIN meshRanges
  PROVE  RangeShaded(r, EndedParts[r])'
<1>1. PICK number : number = EndedParts[r]
  OBVIOUS
<1>2. r \in 1 .. Len(EndedParts)
  BY RangeFacts DEF DInv, Drawing
<1>3. number \in 1 .. Ended /\ EndedParts'[r] = number
  BY <1>1, <1>2, EndedFacts, EndedGoesOn
<1>4. document'[number] = document[number] /\ RangeShaded(r, number)
  BY <1>1, <1>3 DEF ReadOn, PrimitivesShaded
<1>5. RangeShaded(r, number)'
  BY <1>4, RangeShadedKept
<1> QED
  BY <1>3, <1>5

(***************************************************************************)
(* Normals and tangents (Vertex.cpp).                                      *)
(***************************************************************************)
\* What the two passes over the triangles do to a vertex.
LEMMA NormalsOf ==
  ASSUME NEW vs \in Seq(Vertex), NEW tris, NEW first, NEW v \in 1 .. Len(vs)
  PROVE  /\ v - 1 \in Flattened(vs, tris, first) => computeFlatNormals(vs, tris, first)[v].normal = "flat"
         /\ v - 1 \notin Flattened(vs, tris, first) => computeFlatNormals(vs, tris, first)[v] = vs[v]
         /\ computeFlatNormals(vs, tris, first)[v].tangent = vs[v].tangent
         /\ vs[v].normal = "zero" /\ v - 1 \in Flattened(vs, tris, 0) =>
              fillMissingFlatNormals(vs, tris)[v].normal = "flat"
         /\ vs[v].normal # "zero" => fillMissingFlatNormals(vs, tris)[v] = vs[v]
<1>1. v \in DOMAIN vs /\ vs[v] \in Vertex
  OBVIOUS
<1>2. [vs[v] EXCEPT !.normal = "flat"].normal = "flat" /\ [vs[v] EXCEPT !.normal = "flat"].tangent = vs[v].tangent
  BY <1>1 DEF Vertex
<1>3. computeFlatNormals(vs, tris, first)[v] =
        IF v - 1 \in Flattened(vs, tris, first) THEN [vs[v] EXCEPT !.normal = "flat"] ELSE vs[v]
  BY <1>1 DEF computeFlatNormals
<1>4. fillMissingFlatNormals(vs, tris)[v] =
        IF vs[v].normal = "zero" /\ v - 1 \in Flattened(vs, tris, 0)
        THEN [vs[v] EXCEPT !.normal = "flat"] ELSE vs[v]
  BY <1>1 DEF fillMissingFlatNormals
<1> QED
  BY <1>2, <1>3, <1>4

\* ... and the pass for the tangents.
LEMMA TangentsOf ==
  ASSUME NEW vs \in Seq(Vertex), NEW tris, NEW first, NEW v \in 1 .. Len(vs)
  PROVE  /\ v - 1 \in Referenced(tris, first) => computeTangents(vs, tris, first)[v].tangent = TangentOf(vs[v])
         /\ v - 1 \notin Referenced(tris, first) => computeTangents(vs, tris, first)[v] = vs[v]
         /\ computeTangents(vs, tris, first)[v].normal = vs[v].normal
<1>1. v \in DOMAIN vs /\ vs[v] \in Vertex
  OBVIOUS
<1>2. PICK tangent : tangent = TangentOf(vs[v])
  OBVIOUS
<1>3. [vs[v] EXCEPT !.tangent = tangent].tangent = tangent /\ [vs[v] EXCEPT !.tangent = tangent].normal = vs[v].normal
  BY <1>1 DEF Vertex
<1>4. computeTangents(vs, tris, first)[v] =
        IF v - 1 \in Referenced(tris, first) THEN [vs[v] EXCEPT !.tangent = tangent] ELSE vs[v]
  BY <1>1, <1>2 DEF computeTangents
<1> QED
  BY <1>2, <1>3, <1>4

\* A triangle's corners are visited for tangents, and for normals if it has area.
LEMMA CornersVisited ==
  ASSUME NEW vs, NEW tris, NEW first \in Nat, Len(tris) \in Nat,
         NEW t \in first + 1 .. Len(tris), NEW c \in 1 .. 3, NEW i \in Nat, i = tris[t][c],
         NEW v, v = i + 1
  PROVE  /\ v - 1 \in Referenced(tris, first)
         /\ HasArea(vs, tris[t]) => v - 1 \in Flattened(vs, tris, first)
<1>1. v - 1 = i /\ i \in CornersOf(tris[t])
  BY DEF CornersOf
<1>2. i \in Referenced(tris, first)
  BY <1>1 DEF Referenced
<1>3. HasArea(vs, tris[t]) => i \in Flattened(vs, tris, first)
  BY <1>1 DEF Flattened
<1> QED
  BY <1>1, <1>2, <1>3

(***************************************************************************)
(* The steps of an OBJ document keep AInv.                                 *)
(***************************************************************************)
\* An empty loader has nothing to shade.
LEMMA NothingShaded ==
  ASSUME phase' = "parsing", vertices' = <<>>, meshRanges' = <<>>
  PROVE  AInv'
BY DEF AInv, ShapesShaded, PrimitivesShaded

\* A face appends vertices with a normal of the document or none.
LEMMA ReadFaceShades ==
  ASSUME IInv, IInv', AInv, NEW face \in Faces \cup {Bad}, ReadFace(face)
  PROVE  AInv'
<1>1. /\ phase = "part" /\ phase' = "part" /\ format = "obj" /\ format' = "obj"
  BY DEF ReadFace
<1>2. \A v \in 1 .. Len(vertices) : vertices[v].normal \in {"authored", "zero"}
  BY <1>1 DEF AInv, ShapesShaded
<1>3. ASSUME NEW v \in 1 .. Len(vertices')
      PROVE  vertices'[v].normal \in {"authored", "zero"}
  <2>1. CASE face = Bad
    BY <1>2, <2>1 DEF ReadFace
  <2>2. CASE face # Bad
    <3> DEFINE v1 == Emplaced(vertices, ObjVertex(face, 1))
               v2 == Emplaced(v1, ObjVertex(face, 2))
               v3 == Emplaced(v2, ObjVertex(face, 3))
    <3>1. vertices' = v3
      BY <2>2 DEF ReadFace
    <3>2. TypeOK /\ OpenPart
      BY <1>1, Split DEF Open
    <3>3. /\ \A i \in 1 .. Len(vertices) : v3[i] = vertices[i]
          /\ \A i \in 1 .. Len(v3) : i \in 1 .. Len(vertices) \/ \E c \in 1 .. 3 : v3[i] = ObjVertex(face, c)
      BY <2>2, <3>2, FaceRead
    <3> HIDE DEF v3
    <3>4. v \in 1 .. Len(vertices) \/ \E c \in 1 .. 3 : vertices'[v] = ObjVertex(face, c)
      BY <3>1, <3>3
    <3>5. \A c \in 1 .. 3 : ObjVertex(face, c).normal \in {"authored", "zero"}
      BY DEF ObjVertex
    <3> QED
      BY <1>2, <3>1, <3>3, <3>4, <3>5
  <2> QED
    BY <2>1, <2>2
<1> QED
  BY <1>1, <1>3 DEF AInv, ShapesShaded

\* The end of an OBJ document completes the normals, then the tangents.
LEMMA ObjParsedShades ==
  ASSUME IInv, IInv', AInv, ObjParsed
  PROVE  AInv'
<1>1. /\ phase = "parsing" /\ phase' = "parsed" /\ format = "obj" /\ format' = "obj"
      /\ UNCHANGED << indices, meshRanges >>
      /\ vertices' = computeTangents(fillMissingFlatNormals(vertices, indices), indices, 0)
  BY DEF ObjParsed
<1>2. vertices \in Seq(Vertex) /\ Len(indices) \in Nat
  BY Split DEF TypeOK
<1>3. \A v \in 1 .. Len(vertices) : vertices[v].normal \in {"authored", "zero"}
  BY <1>1 DEF AInv, ShapesShaded
<1>4. PICK filled : filled = fillMissingFlatNormals(vertices, indices)
  OBVIOUS
<1>5. filled \in Seq(Vertex) /\ Len(filled) = Len(vertices) /\ vertices' = computeTangents(filled, indices, 0)
  BY <1>1, <1>2, <1>4, AttributesType
<1>6. ASSUME NEW r \in DOMAIN meshRanges, NEW t \in 1 .. meshRanges[r].indexCount
      PROVE  Shaded(meshRanges[r].indexStart + t)'
  <2>1. PICK at : at = meshRanges[r].indexStart + t
    OBVIOUS
  <2>2. /\ at \in 1 .. Len(indices) /\ at \in 0 + 1 .. Len(indices)
        /\ \A c \in 1 .. 3 : indices[at][c] + 1 \in 1 .. Len(vertices) /\ indices[at][c] \in Nat
    <3>1. at \in 1 .. Len(indices) /\ \A c \in 1 .. 3 : indices[at][c] + 1 \in 1 .. Len(vertices)
      BY <2>1, RangeFacts
    <3>2. indices \in Seq(Triangle)
      BY Split DEF Recorded
    <3> QED
      BY <3>1, <3>2 DEF Triangle
  <2>3. \A c \in 1 .. 3 : vertices'[indices[at][c] + 1].corner = vertices[indices[at][c] + 1].corner
    <3> TAKE c \in 1 .. 3
    <3>1. PICK v \in 1 .. Len(vertices) : v = indices[at][c] + 1
      BY <2>2
    <3>2. filled[v].corner = vertices[v].corner
      BY <1>2, <1>4, CornersStay
    <3>3. vertices'[v].corner = filled[v].corner
      <4>1. v \in 1 .. Len(filled)
        BY <1>5
      <4>2. PICK first : first = 0
        OBVIOUS
      <4>3. computeTangents(filled, indices, first)[v].corner = filled[v].corner
        <5>1. filled \in Seq(Vertex)
          BY <1>5
        <5>2. PICK tris : tris = indices
          OBVIOUS
        <5>3. computeTangents(filled, tris, first)[v].corner = filled[v].corner
          BY <4>1, <5>1, CornersStay
        <5> QED
          BY <5>2, <5>3
      <4> QED
        BY <1>5, <4>2, <4>3
    <3> QED
      BY <3>1, <3>2, <3>3
  <2>4. HasArea(vertices', indices[at]) => HasArea(vertices, indices[at])
    BY <2>3, AreaOfCorners
  <2>5. ASSUME HasArea(vertices, indices[at]), NEW c \in 1 .. 3
        PROVE  ShadedCorner(vertices'[indices[at][c] + 1])
    <3>1. PICK i \in Nat, v \in 1 .. Len(vertices) : i = indices[at][c] /\ v = i + 1
      BY <2>2
    <3>2. v - 1 \in Referenced(indices, 0) /\ v - 1 \in Flattened(vertices, indices, 0)
      BY <1>2, <2>2, <2>5, <3>1, CornersVisited
    <3>3. filled[v].normal \in {"authored", "flat"}
      BY <1>2, <1>3, <1>4, <3>2, NormalsOf
    <3>4. vertices'[v].normal = filled[v].normal /\ vertices'[v].tangent = TangentOf(filled[v])
      BY <1>5, <3>2, TangentsOf
    <3>5. TangentOf(filled[v]) = "computed"
      BY <3>3 DEF TangentOf
    <3> QED
      BY <3>1, <3>3, <3>4, <3>5 DEF ShadedCorner
  <2>6. indices'[at] = indices[at]
    BY <1>1
  <2>7. Shaded(at)'
    BY <2>4, <2>5, <2>6 DEF Shaded
  <2>8. at = meshRanges'[r].indexStart + t
    BY <1>1, <2>1
  <2> QED
    BY <2>7, <2>8
<1>7. \A r \in DOMAIN meshRanges' : TrianglesShaded(r)'
  BY <1>1, <1>6 DEF TrianglesShaded
<1> QED
  BY <1>1, <1>7 DEF AInv, ShapesShaded

\* The other steps of an OBJ document change no vertex.
LEMMA ShapesStayShaded ==
  ASSUME AInv, format = "obj", UNCHANGED << format, vertices, indices >>,
         \/ phase \in {"parsing", "part"} /\ phase' \in {"parsing", "part"}
         \/ phase = "parsed" /\ phase' \in {"idle", "uploaded"} /\ UNCHANGED meshRanges
         \/ UNCHANGED << phase, meshRanges >>
  PROVE  AInv'
<1>1. (\A r \in DOMAIN meshRanges : TrianglesShaded(r)) /\ UNCHANGED meshRanges
        => \A r \in DOMAIN meshRanges' : TrianglesShaded(r)'
  BY DEF TrianglesShaded, Shaded
<1>2. ShapesShaded
  BY DEF AInv
<1>3. phase' \in {"parsing", "part"} => \A v \in 1 .. Len(vertices') : vertices'[v].normal \in {"authored", "zero"}
  BY <1>2 DEF ShapesShaded
<1>4. phase' \in {"parsed", "uploaded"} => \A r \in DOMAIN meshRanges' : TrianglesShaded(r)'
  <2>1. phase' \in {"parsed", "uploaded"} => phase \in {"parsed", "uploaded"} /\ UNCHANGED meshRanges
    OBVIOUS
  <2> QED
    BY <1>1, <1>2, <2>1 DEF ShapesShaded
<1> QED
  BY <1>3, <1>4 DEF AInv, ShapesShaded

(***************************************************************************)
(* The steps of a glTF document keep AInv.                                 *)
(***************************************************************************)
\* A primitive opens behind the ranges, with what it brings (GltfVertex).
LEMMA BeginPrimitiveShades ==
  ASSUME IInv, IInv', DInv, AInv, NEW mode \in Modes, NEW vertexCount \in 0 .. MaxVertices,
         NEW traits \in SUBSET Traits, BeginPrimitive(mode, vertexCount, traits)
  PROVE  AInv'
<1>1. PICK p \in Primitive, n \in Nat, m \in Nat :
           /\ p.mode = mode /\ p.vertexCount = vertexCount /\ vertexCount \in Nat
           /\ n = Len(document) /\ Ended = n /\ m = Len(vertices)
           /\ phase = "parsing" /\ format = "gltf"
           /\ UNCHANGED << format, indices, materialIndex, meshRanges >>
           /\ Len(document') = n + 1 /\ document'[n + 1] = p /\ ReadOn
           /\ Skips(mode, vertexCount) => UNCHANGED << phase, vertices >>
           /\ ~Skips(mode, vertexCount) =>
                /\ phase' = "part" /\ part' = Here
                /\ \A v \in 1 .. m : vertices'[v] = vertices[v]
                /\ \A i \in 1 .. vertexCount : vertices'[m + i] = GltfVertex(p, i - 1)
  BY PrimitiveBegun
<1>2. PrimitivesShaded /\ TypeOK'
  BY <1>1 DEF AInv, IInv
<1>3. Ended' = Ended \/ Ended' = Ended + 1
  <2>1. CASE phase' = "part"
    <3>1. Ended' = (n + 1) - 1
      BY <1>1, <2>1 DEF Ended
    <3> QED
      BY <1>1, <3>1
  <2>2. CASE phase' # "part"
    BY <1>1, <1>2, <2>2, EndedPrimed
  <2> QED
    BY <2>1, <2>2
<1>4. \A v \in 1 .. m : vertices'[v] = vertices[v]
  BY <1>1
<1>5. ASSUME NEW r \in DOMAIN meshRanges
      PROVE  /\ meshRanges'[r] = meshRanges[r] /\ VertexEnd(r)' = VertexEnd(r) /\ VertexEnd(r) <= m
             /\ \A v \in 1 .. VertexEnd(r) : vertices'[v] = vertices[v]
  <2>1. meshRanges' = meshRanges /\ VertexEnd(r) \in Nat /\ VertexEnd(r) <= m
    BY <1>1, RangeFacts
  <2>2. VertexEnd(r)' = VertexEnd(r)
    BY <2>1 DEF VertexEnd
  <2>3. \A v \in 1 .. VertexEnd(r) : v \in 1 .. m
    BY <2>1
  <2> QED
    BY <1>4, <2>1, <2>2, <2>3
<1>6. \A t \in 1 .. Len(indices) : indices'[t] = indices[t]
  BY <1>1
<1>7. \A r \in DOMAIN meshRanges : RangeShaded(r, EndedParts[r])'
  BY <1>1, <1>2, <1>3, <1>5, <1>6, RangesShadedKept
<1>8. \A r \in DOMAIN meshRanges' : RangeShaded(r, EndedParts[r])'
  BY <1>1, <1>7
<1>9. ASSUME phase' = "part"
      PROVE  /\ \A i \in 1 .. primitive'.vertexCount : Brings(primitive', vertices'[part'.vertexBase + i])
             /\ \A r \in DOMAIN meshRanges' : VertexEnd(r)' <= part'.vertexBase
  <2>1. primitive' = p
    BY <1>1 DEF primitive
  <2>2. ~Skips(mode, vertexCount)
    BY <1>1, <1>9
  <2>3. part'.vertexBase = m
    BY <1>1, <2>2 DEF Here
  <2>4. \A i \in 1 .. vertexCount : Brings(p, GltfVertex(p, i - 1))
    BY DEF Brings, GltfVertex
  <2>5. \A i \in 1 .. vertexCount : vertices'[m + i] = GltfVertex(p, i - 1)
    BY <1>1, <2>2
  <2>6. p.vertexCount = vertexCount /\ DOMAIN meshRanges' = DOMAIN meshRanges
    BY <1>1
  <2> QED
    BY <1>5, <2>1, <2>3, <2>4, <2>5, <2>6
<1> QED
  BY <1>1, <1>8, <1>9 DEF AInv, PrimitivesShaded

\* A triangle is appended, no vertex touched.
LEMMA EmitTriangleShades ==
  ASSUME IInv, IInv', DInv, AInv, EmitTriangle
  PROVE  AInv'
<1>1. /\ phase = "part" /\ phase' = "part" /\ format = "gltf" /\ format' = "gltf"
      /\ UNCHANGED << vertices, meshRanges, document >>
  BY DEF EmitTriangle
<1>2. part'.vertexBase = part.vertexBase
  <2>1. part \in [vertexBase : Nat, indexStart : Nat, triStart : Nat, step : Nat]
    BY Split DEF TypeOK
  <2> QED
    BY <2>1 DEF EmitTriangle
<1>3. \A t \in 1 .. Len(indices) : indices'[t] = indices[t]
  <2>1. indices \in Seq(Triangle)
    BY Split DEF Recorded
  <2>2. PICK tri : indices' = indices \/ indices' = Append(indices, tri)
    BY DEF EmitTriangle
  <2> QED
    BY <2>1, <2>2
<1>4. Ended' = Ended /\ ReadOn
  <2>1. Ended' = Ended
    BY <1>1 DEF Ended
  <2> QED
    BY <1>1, <2>1, EndedFacts DEF ReadOn
<1>5. PrimitivesShaded
  BY <1>1 DEF AInv
<1>6. \A r \in DOMAIN meshRanges' : RangeShaded(r, EndedParts[r])'
  BY <1>1, <1>3, <1>4, <1>5, RangesShadedKept
<1>7. primitive' = primitive /\ \A r \in DOMAIN meshRanges : VertexEnd(r)' = VertexEnd(r)
  BY <1>1 DEF primitive, VertexEnd
<1> QED
  BY <1>1, <1>2, <1>5, <1>6, <1>7 DEF AInv, PrimitivesShaded

\* Once no part is open, nothing is touched.
LEMMA PrimitivesStayShaded ==
  ASSUME IInv, IInv', DInv, AInv, format = "gltf", UNCHANGED << format, document, vertices, indices, meshRanges >>,
         phase # "part", phase' # "part"
  PROVE  AInv'
<1>1. Ended' = Ended /\ ReadOn
  <2>1. Ended' = Ended
    BY DEF Ended
  <2> QED
    BY <2>1, EndedFacts DEF ReadOn
<1>2. PrimitivesShaded
  BY DEF AInv
<1>3. \A r \in DOMAIN meshRanges' : RangeShaded(r, EndedParts[r])'
  BY <1>1, <1>2, RangesShadedKept
<1> QED
  BY <1>3 DEF AInv, PrimitivesShaded

\* The vertices before an open primitive are no corner of its triangles.
LEMMA VerticesBefore ==
  ASSUME IInv, DInv, phase = "part", format = "gltf", NEW v \in 1 .. part.vertexBase, NEW vs
  PROVE  v - 1 \notin Referenced(indices, part.indexStart) /\ v - 1 \notin Flattened(vs, indices, part.indexStart)
<1>1. PICK base \in Nat, first \in Nat, m \in Nat, n \in Nat :
        base = part.vertexBase /\ first = part.indexStart /\ m = Len(vertices) /\ n = Len(indices)
  BY EmittedFacts
<1>2. ASSUME NEW t \in first + 1 .. n PROVE v - 1 \notin CornersOf(indices[t])
  <2>1. \A c \in 1 .. 3 : indices[t][c] \in base .. m - 1
    BY <1>1, EmittedFacts
  <2>2. \A i \in base .. m - 1 : i # v - 1
    BY <1>1
  <2> QED
    BY <2>1, <2>2 DEF CornersOf
<1> QED
  BY <1>1, <1>2 DEF Referenced, Flattened

\* A corner of an open primitive is one of its vertices.
LEMMA CornerIn ==
  ASSUME NEW base \in Nat, NEW count \in Nat, NEW i \in base .. (base + count) - 1
  PROVE  i \in Nat /\ i + 1 \in 1 .. base + count /\ \E j \in 1 .. count : i + 1 = base + j
<1>1. (i + 1) - base \in 1 .. count /\ i + 1 = base + ((i + 1) - base)
  OBVIOUS
<1>2. i \in Nat /\ i + 1 \in 1 .. base + count
  OBVIOUS
<1> QED
  BY <1>1, <1>2

\* What the end of a primitive does to the vertices: those before it stay, its
\* own keep what it brings, and its triangles are shaded (processPrimitive()).
LEMMA EndPrimitiveVertices ==
  ASSUME IInv, DInv, AInv, EndPrimitive,
         NEW base \in Nat, base = part.vertexBase, NEW first \in Nat, first = part.indexStart
  PROVE  /\ \A v \in 1 .. base : vertices'[v] = vertices[v]
         /\ \A i \in 1 .. primitive.vertexCount : Brings(primitive, vertices'[base + i])
         /\ \A t \in first + 1 .. Len(indices) : Shaded(t)'
<1> DEFINE p == primitive
<1>1. phase = "part" /\ format = "gltf" /\ indices' = indices
  BY DEF EndPrimitive
<1>2. PICK flat : flat = IF "normals" \in p.traits THEN vertices
                         ELSE computeFlatNormals(vertices, indices, first)
  OBVIOUS
<1>3. vertices' = IF "tangents" \in p.traits THEN flat ELSE computeTangents(flat, indices, first)
  BY <1>2 DEF EndPrimitive
<1>4. PICK count \in Nat : count = p.vertexCount /\ Len(vertices) = base + count
  BY <1>1, EmittedFacts
<1>5. vertices \in Seq(Vertex) /\ Len(indices) \in Nat
  BY <1>1, EmittedFacts
<1>6. flat \in Seq(Vertex) /\ Len(flat) = Len(vertices)
  <2>1. PICK tris : tris = indices
    OBVIOUS
  <2>2. computeFlatNormals(vertices, tris, first) \in Seq(Vertex)
        /\ Len(computeFlatNormals(vertices, tris, first)) = Len(vertices)
    BY <1>5, AttributesType
  <2> QED
    BY <1>2, <1>5, <2>1, <2>2
<1>7. \A i \in 1 .. count : Brings(p, vertices[base + i])
  BY <1>1, <1>4 DEF AInv, PrimitivesShaded
<1> HIDE DEF p
<1>8. ASSUME NEW v \in 1 .. Len(vertices)
      PROVE  /\ "normals" \in p.traits => flat[v] = vertices[v]
             /\ v - 1 \in Flattened(vertices, indices, first) /\ "normals" \notin p.traits => flat[v].normal = "flat"
             /\ v - 1 \notin Flattened(vertices, indices, first) => flat[v] = vertices[v]
             /\ flat[v].tangent = vertices[v].tangent
             /\ flat[v].corner = vertices[v].corner
  <2>1. CASE "normals" \in p.traits
    BY <1>2, <2>1
  <2>2. CASE "normals" \notin p.traits
    <3>1. flat = computeFlatNormals(vertices, indices, first)
      BY <1>2, <2>2
    <3>2. PICK tris : tris = indices
      OBVIOUS
    <3>3. computeFlatNormals(vertices, tris, first)[v].corner = vertices[v].corner
      BY <1>5, CornersStay
    <3>4. /\ v - 1 \in Flattened(vertices, tris, first) => flat[v].normal = "flat"
          /\ v - 1 \notin Flattened(vertices, tris, first) => flat[v] = vertices[v]
          /\ flat[v].tangent = vertices[v].tangent
      BY <1>5, <3>1, <3>2, NormalsOf
    <3> QED
      BY <2>2, <3>1, <3>2, <3>3, <3>4
  <2> QED
    BY <2>1, <2>2
<1>9. ASSUME NEW v \in 1 .. Len(vertices)
      PROVE  /\ "tangents" \in p.traits => vertices'[v] = flat[v]
             /\ v - 1 \in Referenced(indices, first) /\ "tangents" \notin p.traits =>
                  vertices'[v].tangent = TangentOf(flat[v])
             /\ v - 1 \notin Referenced(indices, first) => vertices'[v] = flat[v]
             /\ vertices'[v].normal = flat[v].normal
             /\ vertices'[v].corner = flat[v].corner
  <2>1. CASE "tangents" \in p.traits
    BY <1>3, <2>1
  <2>2. CASE "tangents" \notin p.traits
    <3>1. PICK tris : tris = indices
      OBVIOUS
    <3>2. vertices' = computeTangents(flat, tris, first)
      BY <1>3, <2>2, <3>1
    <3>0. v \in 1 .. Len(flat)
      BY <1>6
    <3>3. computeTangents(flat, tris, first)[v].corner = flat[v].corner
      BY <1>6, <3>0, CornersStay
    <3>4. /\ v - 1 \in Referenced(tris, first) =>
               computeTangents(flat, tris, first)[v].tangent = TangentOf(flat[v])
          /\ v - 1 \notin Referenced(tris, first) => computeTangents(flat, tris, first)[v] = flat[v]
          /\ computeTangents(flat, tris, first)[v].normal = flat[v].normal
      BY <1>6, <3>0, TangentsOf
    <3> QED
      BY <2>2, <3>1, <3>2, <3>3, <3>4
  <2> QED
    BY <2>1, <2>2
<1>10. ASSUME NEW v \in 1 .. base
       PROVE  vertices'[v] = vertices[v]
  <2>1. v \in 1 .. Len(vertices)
    BY <1>4
  <2>2. v - 1 \notin Referenced(indices, first) /\ v - 1 \notin Flattened(vertices, indices, first)
    BY <1>1, VerticesBefore
  <2> QED
    BY <1>8, <1>9, <2>1, <2>2
<1>11. ASSUME NEW i \in 1 .. count
       PROVE  Brings(p, vertices'[base + i])
  <2>1. PICK v \in 1 .. Len(vertices) : v = base + i
    BY <1>4
  <2>2. Brings(p, vertices[v])
    BY <1>7, <2>1
  <2> QED
    BY <1>8, <1>9, <2>1, <2>2 DEF Brings
<1>12. ASSUME NEW t \in first + 1 .. Len(indices)
       PROVE  Shaded(t)'
  <2>1. t \in 1 .. Len(indices) /\ \A c \in 1 .. 3 : indices[t][c] \in base .. Len(vertices) - 1
    BY <1>1, <1>4, EmittedFacts
  <2>2. ASSUME NEW c \in 1 .. 3
        PROVE  \E i \in 1 .. count, v \in 1 .. Len(vertices) :
                 /\ v = base + i /\ v = indices[t][c] + 1 /\ indices[t][c] \in Nat
    <3>1. PICK i \in base .. (base + count) - 1 : i = indices[t][c]
      BY <1>4, <2>1
    <3>2. i \in Nat /\ i + 1 \in 1 .. base + count /\ \E j \in 1 .. count : i + 1 = base + j
      BY CornerIn
    <3> QED
      BY <1>4, <3>1, <3>2
  <2>3. \A c \in 1 .. 3 : vertices'[indices[t][c] + 1].corner = vertices[indices[t][c] + 1].corner
    <3> TAKE c \in 1 .. 3
    <3>1. PICK v \in 1 .. Len(vertices) : v = indices[t][c] + 1
      BY <2>2
    <3> QED
      BY <1>8, <1>9, <3>1
  <2>4. HasArea(vertices', indices[t]) => HasArea(vertices, indices[t])
    BY <2>3, AreaOfCorners
  <2>5. ASSUME HasArea(vertices, indices[t]), NEW c \in 1 .. 3
        PROVE  ShadedCorner(vertices'[indices[t][c] + 1])
    <3>1. PICK j \in 1 .. count, v \in 1 .. Len(vertices), i \in Nat : v = base + j /\ i = indices[t][c] /\ v = i + 1
      BY <2>2
    <3>2. v - 1 \in Referenced(indices, first) /\ v - 1 \in Flattened(vertices, indices, first)
      BY <1>5, <2>5, <3>1, CornersVisited
    <3>3. Brings(p, vertices[v])
      BY <1>7, <3>1
    <3>4. flat[v].normal \in {"authored", "flat"}
      BY <1>8, <3>2, <3>3 DEF Brings
    <3>5. TangentOf(flat[v]) = "computed"
      BY <3>4 DEF TangentOf
    <3>6. "tangents" \in p.traits => flat[v].tangent = "authored"
      BY <1>8, <3>3 DEF Brings
    <3>7. vertices'[v].normal = flat[v].normal
      BY <1>9
    <3>8. vertices'[v].tangent \in {"authored", "computed"}
      BY <1>9, <3>2, <3>5, <3>6
    <3> QED
      BY <3>1, <3>4, <3>7, <3>8 DEF ShadedCorner
  <2> QED
    BY <1>1, <2>4, <2>5 DEF Shaded
<1> QED
  BY <1>4, <1>10, <1>11, <1>12 DEF p

\* The range a primitive is recorded with is done with.
LEMMA EndPrimitiveShades ==
  ASSUME IInv, IInv', DInv, DInv', AInv, EndPrimitive
  PROVE  AInv'
<1> DEFINE p == primitive
<1>1. /\ phase = "part" /\ phase' = "parsing" /\ format = "gltf" /\ format' = "gltf"
      /\ UNCHANGED << indices, document >>
  BY DEF EndPrimitive
<1>2. PICK new : /\ meshRanges' = Append(meshRanges, new)
                 /\ new.vertexBase = part.vertexBase /\ new.vertexCount = Len(vertices) - part.vertexBase
                 /\ new.indexStart = part.indexStart /\ new.indexCount = Len(indices) - part.indexStart
  <2>1. PICK triEnd, doubleSided : meshRanges' = Append(meshRanges, PartRange(triEnd, doubleSided))
    BY DEF EndPrimitive
  <2> QED
    BY <2>1 DEF PartRange
<1>3. PICK base \in Nat, first \in Nat, count \in Nat, n \in Nat :
        /\ base = part.vertexBase /\ first = part.indexStart /\ count = p.vertexCount
        /\ Len(vertices) = base + count /\ n = Len(indices)
  BY <1>1, EmittedFacts
<1>4. /\ \A v \in 1 .. base : vertices'[v] = vertices[v]
      /\ \A i \in 1 .. count : Brings(p, vertices'[base + i])
      /\ \A t \in first + 1 .. n : Shaded(t)'
  BY <1>3, EndPrimitiveVertices
<1>5. PICK last \in Nat, number \in Nat :
        /\ last = Len(meshRanges) + 1 /\ number = Len(document) /\ document'[number] = p
        /\ Ended' = Ended + 1 /\ ReadOn /\ number = Ended + 1
  <2>1. TypeOK' /\ meshRanges \in Seq(MeshRange)
    BY Split DEF IInv, Recorded
  <2>2. Ended \in Nat /\ Len(document) \in Nat /\ Ended = Len(document) - 1
    BY <1>1, EndedFacts
  <2>3. Ended' = Len(document)
    BY <1>1, <2>1, EndedPrimed
  <2>4. ReadOn
    BY <1>1, <2>2 DEF ReadOn
  <2> QED
    BY <1>1, <2>1, <2>2, <2>3, <2>4 DEF primitive
<1>6. /\ Len(meshRanges') = last /\ DOMAIN meshRanges' = 1 .. last /\ meshRanges'[last] = new
      /\ DOMAIN meshRanges = 1 .. last - 1
      /\ \A r \in DOMAIN meshRanges : meshRanges'[r] = meshRanges[r]
  <2>1. meshRanges \in Seq(MeshRange)
    BY Split DEF Recorded
  <2> QED
    BY <1>2, <1>5, <2>1
<1>7. PrimitivesShaded
  BY <1>1 DEF AInv
<1>8. \A r \in DOMAIN meshRanges : RangeShaded(r, EndedParts[r])'
  <2>1. ASSUME NEW r \in DOMAIN meshRanges, NEW v \in 1 .. VertexEnd(r) PROVE vertices'[v] = vertices[v]
    <3>1. VertexEnd(r) \in Nat /\ VertexEnd(r) <= base
      BY <1>1, <1>3, <1>7, RangeFacts DEF PrimitivesShaded
    <3>2. v \in 1 .. base
      BY <3>1
    <3> QED
      BY <1>4, <3>2
  <2> QED
    BY <1>1, <1>5, <1>6, <1>7, <2>1, RangesShadedKept
<1>9. EndedParts'[last] = number
  <2>1. Len(EndedParts') = last /\ Len(EndedParts) = Len(meshRanges) /\ EndedParts \in Seq(1 .. Ended)
    BY <1>6, EndedFacts DEF DInv, Drawing
  <2>2. EndedParts' # EndedParts
    BY <1>5, <2>1
  <2>3. EndedParts' = Append(EndedParts, number)
    BY <1>5, <2>2, EndedGoesOn
  <2> QED
    BY <1>5, <2>1, <2>3
<1>10. RangeShaded(last, number)'
  <2>1. new.vertexCount = count /\ new.indexCount = n - first /\ new.vertexBase = base /\ new.indexStart = first
    BY <1>2, <1>3
  <2>2. \A t \in 1 .. n - first : first + t \in first + 1 .. n
    OBVIOUS
  <2>3. \A t \in 1 .. n - first : Shaded(first + t)'
    BY <1>4, <2>2
  <2> HIDE DEF p
  <2> QED
    BY <1>4, <1>5, <1>6, <2>1, <2>3 DEF RangeShaded, TrianglesShaded
<1>11. \A r \in DOMAIN meshRanges' : RangeShaded(r, EndedParts[r])'
  <2>1. RangeShaded(last, EndedParts[last])'
    BY <1>9, <1>10
  <2>2. \A r \in DOMAIN meshRanges' : r = last \/ r \in DOMAIN meshRanges
    BY <1>6
  <2> QED
    BY <1>8, <2>1, <2>2
<1> QED
  BY <1>1, <1>11 DEF AInv, PrimitivesShaded

\* Every step keeps AInv.
LEMMA NextAInv == IInv /\ DInv /\ AInv /\ [Next]_vars => AInv'
<1> SUFFICES ASSUME IInv, DInv, AInv, [Next]_vars PROVE AInv'
  OBVIOUS
<1>0. IInv' /\ DInv' /\ format \in {"obj", "gltf"}
  BY NextIInv, NextDInv, Split DEF TypeOK
<1>1. ASSUME NEW f \in {"obj", "gltf"}, parseCpu(f) PROVE AInv'
  BY <1>1, NothingShaded DEF parseCpu
<1>2. CASE BeginShape
  BY <1>2, ShapesStayShaded DEF BeginShape, arrays
<1>3. ASSUME NEW face \in Faces \cup {Bad}, ReadFace(face) PROVE AInv'
  BY <1>0, <1>3, ReadFaceShades
<1>4. CASE EndShape
  BY <1>4, ShapesStayShaded DEF EndShape
<1>5. CASE ObjParsed
  BY <1>0, <1>5, ObjParsedShades
<1>6. ASSUME NEW mode \in Modes, NEW vertexCount \in 0 .. MaxVertices, NEW traits \in SUBSET Traits,
             BeginPrimitive(mode, vertexCount, traits)
      PROVE  AInv'
  BY <1>0, <1>6, BeginPrimitiveShades
<1>7. CASE EmitTriangle
  BY <1>0, <1>7, EmitTriangleShades
<1>8. CASE EndPrimitive
  BY <1>0, <1>8, EndPrimitiveShades
<1>9. CASE GltfParsed
  <2>1. /\ format = "gltf" /\ UNCHANGED << format, document, vertices, indices, meshRanges >>
        /\ phase # "part" /\ phase' # "part"
    BY <1>9 DEF GltfParsed, arrays
  <2> QED
    BY <1>0, <2>1, PrimitivesStayShaded
<1>10. CASE uploadParsed
  <2>1. /\ UNCHANGED << format, document, vertices, indices, meshRanges >>
        /\ phase = "parsed" /\ phase' \in {"idle", "uploaded"}
    BY <1>10 DEF uploadParsed, arrays
  <2> QED
    BY <1>0, <2>1, PrimitivesStayShaded, ShapesStayShaded
<1>11. CASE UNCHANGED vars
  <2>1. UNCHANGED << phase, format, vertices, indices, meshRanges, part, document >>
    BY <1>11 DEF vars, arrays
  <2>2. CASE format = "obj"
    BY <2>1, <2>2, ShapesStayShaded
  <2>3. CASE format = "gltf" /\ phase # "part"
    BY <1>0, <2>1, <2>3, PrimitivesStayShaded
  <2>4. CASE format = "gltf" /\ phase = "part"
    <3>1. Ended' = Ended /\ ReadOn
      <4>1. Ended' = Ended
        BY <2>1 DEF Ended
      <4> QED
        BY <2>1, <4>1, EndedFacts DEF ReadOn
    <3>2. PrimitivesShaded
      BY <2>4 DEF AInv
    <3>3. \A r \in DOMAIN meshRanges' : RangeShaded(r, EndedParts[r])'
      BY <1>0, <2>1, <3>1, <3>2, RangesShadedKept
    <3>4. primitive' = primitive /\ \A r \in DOMAIN meshRanges : VertexEnd(r)' = VertexEnd(r)
      BY <2>1 DEF primitive, VertexEnd
    <3> QED
      BY <2>1, <2>4, <3>2, <3>3, <3>4 DEF AInv, PrimitivesShaded
  <2> QED
    BY <1>0, <2>2, <2>3, <2>4
<1> QED
  BY <1>1, <1>2, <1>3, <1>4, <1>5, <1>6, <1>7, <1>8, <1>9, <1>10, <1>11 DEF Next

\* A loader that has not read anything has nothing to shade.
LEMMA InitAInv == Init => AInv
BY DEF Init, AInv, ShapesShaded

\* The meshes keep what their parts bring, and their triangles with area are
\* shaded.
LEMMA AInvKeeps == IInv /\ DInv /\ AInv => AuthoredAttributesAreKept
<1> SUFFICES ASSUME IInv, DInv, AInv, phase = "uploaded", NEW k \in DOMAIN meshes
             PROVE  /\ format = "gltf" =>
                         \A v \in DOMAIN meshes[k].vertices :
                           Brings(document[DrawnParts[k]], meshes[k].vertices[v])
                    /\ \A t \in DOMAIN meshes[k].indices :
                         HasArea(meshes[k].vertices, meshes[k].indices[t]) =>
                           \A c \in 1 .. 3 :
                             ShadedCorner(meshes[k].vertices[meshes[k].indices[t][c] + 1])
  BY DEF AuthoredAttributesAreKept, Brings, ShadedCorner
<1>1. PICK range, mesh : range = meshRanges[k] /\ mesh = meshes[k]
  OBVIOUS
<1>2. /\ k \in DOMAIN meshRanges /\ DrawnParts = EndedParts
      /\ DOMAIN mesh.vertices = 1 .. range.vertexCount
      /\ \A v \in 1 .. range.vertexCount : mesh.vertices[v] = vertices[range.vertexBase + v]
      /\ DOMAIN mesh.indices = 1 .. range.indexCount
      /\ \A t \in 1 .. range.indexCount, c \in 1 .. 3 :
           mesh.vertices[mesh.indices[t][c] + 1] = vertices[indices[range.indexStart + t][c] + 1]
  BY <1>1, MeshFacts, MeshesOfRanges
<1>3. TrianglesShaded(k) /\ (format = "gltf" => RangeShaded(k, EndedParts[k]))
  <2>1. format \in {"obj", "gltf"}
    BY Split DEF TypeOK
  <2>2. CASE format = "obj"
    BY <1>2, <2>2 DEF AInv, ShapesShaded
  <2>3. CASE format = "gltf"
    BY <1>2, <2>3 DEF AInv, PrimitivesShaded, RangeShaded
  <2> QED
    BY <2>1, <2>2, <2>3
<1>4. ASSUME format = "gltf", NEW v \in DOMAIN mesh.vertices
      PROVE  Brings(document[DrawnParts[k]], mesh.vertices[v])
  BY <1>1, <1>2, <1>3, <1>4 DEF RangeShaded
<1>5. ASSUME NEW t \in DOMAIN mesh.indices, HasArea(mesh.vertices, mesh.indices[t]), NEW c \in 1 .. 3
      PROVE  ShadedCorner(mesh.vertices[mesh.indices[t][c] + 1])
  <2>1. PICK tri : tri = indices[range.indexStart + t]
    OBVIOUS
  <2>2. \A e \in 1 .. 3 : mesh.vertices[mesh.indices[t][e] + 1] = vertices[tri[e] + 1]
    BY <1>2, <2>1
  <2>3. \A e \in 1 .. 3 : mesh.vertices[mesh.indices[t][e] + 1].corner = vertices[tri[e] + 1].corner
    BY <2>2
  <2>4. HasArea(vertices, tri)
    BY <1>5, <2>3, AreaOfCorners
  <2>5. Shaded(range.indexStart + t)
    BY <1>1, <1>2, <1>3 DEF TrianglesShaded
  <2>6. ShadedCorner(vertices[tri[c] + 1])
    BY <2>1, <2>4, <2>5 DEF Shaded
  <2> QED
    BY <2>2, <2>6
<1> QED
  BY <1>1, <1>4, <1>5

\* Both invariants hold of every behaviour.
LEMMA SpecDInvAInv == Spec => [](IInv /\ DInv /\ AInv)
<1>1. Init => IInv /\ DInv /\ AInv
  BY InitIInv, InitDInv, InitAInv
<1>2. IInv /\ DInv /\ AInv /\ [Next]_vars => (IInv /\ DInv /\ AInv)'
  BY NextIInv, NextDInv, NextAInv
<1> QED
  BY <1>1, <1>2, PTL DEF Spec

\* For every document: a mesh per part that has triangles, and it draws the
\* part's triangles in the order, with the orientation and with the materials of
\* the document, although the loader drops faces, shares vertices, turns and
\* renumbers triangles and the meshes are cut out of the arrays it leaves
\* (loadVertices(), processPrimitive(), sliceMeshRange()).
THEOREM MeshesAlwaysDrawTheirParts == Spec => []MeshesDrawTheirParts
<1>1. IInv /\ DInv /\ AInv => MeshesDrawTheirParts
  BY DInvDraws
<1> QED
  BY <1>1, SpecDInvAInv, PTL

\* For every document: the passes for normals and tangents replace nothing the
\* document brings, and leave no triangle with area without either
\* (computeFlatNormals(), fillMissingFlatNormals(), computeTangents()).
THEOREM AttributesAlwaysKept == Spec => []AuthoredAttributesAreKept
<1>1. IInv /\ DInv /\ AInv => AuthoredAttributesAreKept
  BY AInvKeeps
<1> QED
  BY <1>1, SpecDInvAInv, PTL
==============================================================================

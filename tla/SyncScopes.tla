----------------------------- MODULE SyncScopes -----------------------------
(***************************************************************************)
(* What a Vulkan queue guarantees about the order of the accesses to an    *)
(* image, as far as the render stages rely on it.  Commands run in any     *)
(* order that the dependencies recorded between them leave open, so the    *)
(* state of an image keeps its last write and the reads since then, each   *)
(* with the stages of later commands that are known to come after it.      *)
(*                                                                         *)
(* Abstractions: BY_REGION dependencies count as whole-image ones, and the *)
(* accesses one subpass makes to one attachment are in order (the raster   *)
(* order of the specification).                                            *)
(***************************************************************************)
EXTENDS Naturals, SequencesExt

\* The stages of a draw, in their logical order, and the other stages used.
DrawStages ==
  << "EarlyFragmentTests", "FragmentShader", "LateFragmentTests", "ColorAttachmentOutput" >>

AllCommands ==
  Range(DrawStages) \cup {"ComputeShader", "RayTracingShader", "Transfer", "BottomOfPipe"}

Stages == AllCommands \cup {"Host"}

AttachmentAccesses == {"InputRead", "ColorRead", "ColorWrite", "DepthRead", "DepthWrite"}
Writing == {"ShaderWrite", "ColorWrite", "DepthWrite"}

\* The stages logically earlier than stage t.
Earlier == [t \in Stages |->
  {s \in AllCommands : \/ t = "BottomOfPipe" /\ s # t
                       \/ \E i, j \in DOMAIN DrawStages :
                            i < j /\ DrawStages[i] = s /\ DrawStages[j] = t}]
Later == [s \in Stages |-> {t \in Stages : s \in Earlier[t]}]

\* The first and the second synchronization scope that a stage mask stands for.
FirstScope(mask) == mask \cup UNION {Earlier[t] : t \in mask}
SecondScope(mask) == mask \cup UNION {Later[s] : s \in mask}

\* The stage and access masks of a barrier or a subpass dependency, with the
\* synchronization scopes its two stage masks stand for.
Dependency(src, srcAccess, dst, dstAccess) ==
  [src |-> src, srcAccess |-> srcAccess, dst |-> dst, dstAccess |-> dstAccess,
   first |-> FirstScope(src), second |-> SecondScope(dst), makesVisible |-> dst \X dstAccess]

-----------------------------------------------------------------------------
(* Accesses and images *)

WriteBy(stage, access) ==
  [stage |-> stage, access |-> access, transition |-> FALSE,
   after |-> {}, available |-> FALSE, visible |-> {}, age |-> 0]

\* A layout transition writes the image between the two scopes of dependency d.
TransitionBy(d) ==
  [stage |-> "Transition", access |-> "Transition", transition |-> TRUE,
   after |-> d.second, available |-> TRUE,
   visible |-> d.makesVisible, age |-> 0]

ReadBy(stage) == [stage |-> stage, after |-> {}, age |-> 0]

\* x happens before the second scope of d: d covers it, or continues a chain from it.
Chained(x, d) == ({x.stage} \cup x.after) \cap d.first # {}

\* The memory dependency of d makes write w available, or it already was.
MadeAvailable(w, d) == w.available \/ (w.stage \in d.src /\ w.access \in d.srcAccess)

\* Dependency d is recorded after read r.
ReadThen(r, d) == IF Chained(r, d) THEN [r EXCEPT !.after = @ \cup d.second] ELSE r

\* Dependency d is recorded after write w; memory says whether it covers w's image.
WriteThen(w, d, memory) ==
  IF ~Chained(w, d) THEN w
  ELSE [w EXCEPT
         !.after = @ \cup d.second,
         !.available = @ \/ (memory /\ MadeAvailable(w, d)),
         !.visible = @ \cup IF memory /\ MadeAvailable(w, d) THEN d.makesVisible ELSE {}]

ImageThen(image, d, memory) ==
  [image EXCEPT !.writes = {WriteThen(w, d, memory) : w \in @},
                !.reads = {ReadThen(r, d) : r \in @}]

\* A transition guarded by d must follow every access; two transitions on one
\* queue are ordered without any dependency.
TransitionHazards(image, d) ==
  {"write after write" : w \in {x \in image.writes : /\ ~x.transition
                                                     /\ ~(Chained(x, d) /\ MadeAvailable(x, d))}}
  \cup {"write after read" : r \in {x \in image.reads : ~Chained(x, d)}}

Transitioned(d, layout) == [layout |-> layout, writes |-> {TransitionBy(d)}, reads |-> {}]

\* A use of an image by the commands of one pass: the stage that touches it
\* first, the one that touches it last, the access, and the layout it names.
Use(image, layout, first, last, access) ==
  [image |-> image, layout |-> layout, first |-> first, last |-> last, access |-> access]

Reads(image, layout, stage, access) == Use(image, layout, stage, stage, access)
Writes(image, layout, stage, access) == Use(image, layout, stage, stage, access)

UseHazards(image, u) ==
  {IF u.access \in Writing THEN "write after write" ELSE "read after write" :
     w \in {x \in image.writes : << u.first, u.access >> \notin x.visible}}
  \cup {"write after read" : r \in {x \in image.reads : /\ u.access \in Writing
                                                        /\ u.first \notin x.after}}

\* The image after the uses of one pass.
Used(image, uses) ==
  IF \E u \in uses : u.access \in Writing
    THEN [image EXCEPT !.writes = {WriteBy(u.last, u.access) :
                                     u \in {v \in uses : v.access \in Writing}},
                       !.reads = {}]
    ELSE [image EXCEPT !.reads = @ \cup {ReadBy(u.last) : u \in uses}]

-----------------------------------------------------------------------------
(* Steps of a command buffer: a dependency whose memory half covers the     *)
(* images in memory, the layout transitions it guards, and then the uses.   *)

Move(image, from, to) == [image |-> image, from |-> from, to |-> to]

Step(d, memory, moves, uses) ==
  [dependency |-> d, memory |-> memory, moves |-> moves, uses |-> uses]

MovesOf(step, i) == {m \in step.moves : m.image = i}
UsesOf(step, i)  == {u \in step.uses : u.image = i}

\* Image i when the uses of the step begin.
Ready(run, step, i) ==
  IF MovesOf(step, i) # {}
    THEN Transitioned(step.dependency, (CHOOSE m \in MovesOf(step, i) : TRUE).to)
    ELSE ImageThen(run.images[i], step.dependency, i \in step.memory)

\* run is [images, hazards, mislaid]: hazards holds << pass, image, kind >>, and
\* mislaid the << pass, image >> that named a layout the image is not in.
PerformStep(pass, run, step) ==
  [images |-> [i \in DOMAIN run.images |->
                 IF UsesOf(step, i) = {} THEN Ready(run, step, i)
                 ELSE Used(Ready(run, step, i), UsesOf(step, i))],
   hazards |-> run.hazards
     \cup (UNION {{<< pass, m.image, h >> :
                     h \in TransitionHazards(run.images[m.image], step.dependency)} :
                    m \in step.moves})
     \cup (UNION {{<< pass, u.image, h >> : h \in UseHazards(Ready(run, step, u.image), u)} :
                    u \in step.uses}),
   mislaid |-> run.mislaid
     \cup {<< pass, m.image >> : m \in {x \in step.moves :
             x.from \notin {"Undefined", run.images[x.image].layout}}}
     \cup {<< pass, u.image >> : u \in {x \in step.uses :
             x.layout # Ready(run, step, x.image).layout}}]

Perform(pass, run, steps) ==
  LET after[n \in 0 .. Len(steps)] ==
        IF n = 0 THEN run ELSE PerformStep(pass, after[n - 1], steps[n])
  IN  after[Len(steps)]

=============================================================================

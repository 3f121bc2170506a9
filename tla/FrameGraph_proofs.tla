-------------------------- MODULE FrameGraph_proofs --------------------------
(***************************************************************************)
(* Proofs about FrameGraph: the images of the frames in flight never race, *)
(* but for the one sampling a run of the model shows, and every image is   *)
(* in the layout that is named, for any number of frames in flight.        *)
(*                                                                         *)
(* Dependencies and age only let an access grow: more stages are known to  *)
(* follow it, it is visible to more of them, or it is forgotten.  What a   *)
(* pass needs of an image is a lower bound of that kind, so it survives    *)
(* all passes that leave the image alone, and the invariant keeps one such *)
(* bound per image.  Each pass is walked through once, from the bounds it  *)
(* needs to those it leaves.  The ages play no part in this: no access has *)
(* to be forgotten for the next frame to be in order.                      *)
(***************************************************************************)
EXTENDS FrameGraph, TLAPS

(***************************************************************************)
(* Dependencies.  All that the proofs need of a scope is that it holds the *)
(* stages of its mask.                                                     *)
(***************************************************************************)
\* Stages and accesses, and what stands for them outside a command.
Accesses == {"InputRead", "ColorRead", "ColorWrite", "DepthRead", "DepthWrite",
             "ShaderRead", "ShaderWrite", "TransferRead", "MemoryRead", "Transition"}

\* What an access can come from: a command, the presentation engine or a
\* transition.
Sources  == Stages \cup {"Presentation", "Transition"}

\* The layouts the stages, the barriers and the present name.
Layouts  == {"Undefined", "General", "ColorAttachment", "DepthAttachment", "ShaderReadOnly",
             "TransferSrc", "PresentSrc"}

\* The stage and access masks of a dependency.
Dependencies ==
  [src : SUBSET Stages, srcAccess : SUBSET Accesses, dst : SUBSET Stages, dstAccess : SUBSET Accesses,
   first : SUBSET Stages, second : SUBSET Stages, makesVisible : SUBSET (Stages \X Accesses)]

\* What is used of a dependency.
Covers(d, src, srcAccess, dst, dstAccess) ==
  /\ d \in Dependencies /\ d.src = src /\ d.srcAccess = srcAccess
  /\ src \subseteq d.first /\ dst \subseteq d.second /\ d.makesVisible = dst \X dstAccess

\* A dependency (Dependency in SyncScopes) keeps its masks, and its scopes hold
\* them.
LEMMA Scopes ==
  ASSUME NEW src, NEW srcAccess, NEW dst, NEW dstAccess,
         src \subseteq Stages, srcAccess \subseteq Accesses,
         dst \subseteq Stages, dstAccess \subseteq Accesses
  PROVE  Covers(Dependency(src, srcAccess, dst, dstAccess), src, srcAccess, dst, dstAccess)
<1>1. \A t \in Stages : Earlier[t] \subseteq Stages /\ Later[t] \subseteq Stages
  BY DEF Earlier, Later, Stages
<1>2. FirstScope(src) \subseteq Stages /\ SecondScope(dst) \subseteq Stages
  BY <1>1 DEF FirstScope, SecondScope
<1>3. src \subseteq FirstScope(src) /\ dst \subseteq SecondScope(dst)
  BY DEF FirstScope, SecondScope
<1>4. dst \X dstAccess \in SUBSET (Stages \X Accesses)
  OBVIOUS
<1> QED
  BY <1>2, <1>3, <1>4 DEF Dependency, Dependencies, Covers

\* The stages and accesses the dependencies name are among those of a queue.
LEMMA Masks ==
  /\ {"EarlyFragmentTests", "FragmentShader", "LateFragmentTests", "ColorAttachmentOutput"} \subseteq AllCommands
  /\ {"ComputeShader", "RayTracingShader", "Transfer", "BottomOfPipe"} \subseteq AllCommands
  /\ AllCommands \subseteq Stages /\ "Host" \in Stages
  /\ AttachmentAccesses \subseteq Accesses
<1>1. {"EarlyFragmentTests", "FragmentShader", "LateFragmentTests", "ColorAttachmentOutput"} = Range(DrawStages)
  BY DEF Range, DrawStages
<1>2. AllCommands = {"EarlyFragmentTests", "FragmentShader", "LateFragmentTests", "ColorAttachmentOutput",
                      "ComputeShader", "RayTracingShader", "Transfer", "BottomOfPipe"}
  BY <1>1 DEF AllCommands
<1> QED
  BY <1>2 DEF Stages, AttachmentAccesses, Accesses

(***************************************************************************)
(* Images.                                                                 *)
(***************************************************************************)
\* The accesses an image remembers, and an image.
WriteRecords ==
  [stage : Sources, access : Accesses, transition : BOOLEAN, after : SUBSET Stages,
   available : BOOLEAN, visible : SUBSET (Stages \X Accesses), age : Nat]

\* A read keeps less: nothing has to be made visible to what follows it.
ReadRecords == [stage : Sources, after : SUBSET Stages, age : Nat]

\* An image: its layout, the writes nothing has replaced, and the reads since.
ImageRecords == [layout : Layouts, writes : SUBSET WriteRecords, reads : SUBSET ReadRecords]

\* Later is what a write or a read has become: more is known to follow it.
WriteGrew(w, later) ==
  /\ later.stage = w.stage /\ later.access = w.access /\ later.transition = w.transition
  /\ w.after \subseteq later.after /\ w.visible \subseteq later.visible
  /\ w.available => later.available

\* The same of a read.
ReadGrew(r, later) == later.stage = r.stage /\ r.after \subseteq later.after

\* Nothing was added to the accesses of an image: they grew or were forgotten.
Grew(old, new) ==
  /\ new.layout = old.layout
  /\ \A x \in new.writes : \E w \in old.writes : WriteGrew(w, x)
  /\ \A x \in new.reads : \E r \in old.reads : ReadGrew(r, x)

\* A dependency lets every access grow.
LEMMA DependencyGrows ==
  ASSUME NEW image \in ImageRecords, NEW d \in Dependencies, NEW memory \in BOOLEAN
  PROVE  ImageThen(image, d, memory) \in ImageRecords /\ Grew(image, ImageThen(image, d, memory))
<1> DEFINE now == ImageThen(image, d, memory)
<1>1. ASSUME NEW w \in WriteRecords
      PROVE  WriteThen(w, d, memory) \in WriteRecords /\ WriteGrew(w, WriteThen(w, d, memory))
  BY DEF WriteThen, WriteRecords, WriteGrew, Dependencies, MadeAvailable
<1>2. ASSUME NEW r \in ReadRecords PROVE ReadThen(r, d) \in ReadRecords /\ ReadGrew(r, ReadThen(r, d))
  BY DEF ReadThen, ReadRecords, ReadGrew, Dependencies
<1>3. /\ now.layout = image.layout
      /\ now.writes = { WriteThen(w, d, memory) : w \in image.writes }
      /\ now.reads = { ReadThen(r, d) : r \in image.reads }
      /\ now = [image EXCEPT !.writes = now.writes, !.reads = now.reads]
  BY DEF ImageThen, ImageRecords
<1>4. image.layout \in Layouts /\ image.writes \subseteq WriteRecords /\ image.reads \subseteq ReadRecords
  BY DEF ImageRecords
<1>5. now.writes \subseteq WriteRecords /\ now.reads \subseteq ReadRecords
  BY <1>1, <1>2, <1>3, <1>4
<1>6. now \in ImageRecords
  BY <1>3, <1>4, <1>5 DEF ImageRecords
<1>7. Grew(image, now)
  BY <1>1, <1>2, <1>3, <1>4 DEF Grew
<1> QED
  BY <1>6, <1>7

\* So does the age of a frame that was submitted since.
LEMMA AgedGrows ==
  ASSUME NEW image \in ImageRecords
  PROVE  Aged(image) \in ImageRecords /\ Grew(image, Aged(image))
<1> DEFINE old(xs) == { y \in xs : y.age + 1 < FramesInFlight }
           older(x) == [x EXCEPT !.age = @ + 1]
<1>1. /\ Aged(image).layout = image.layout
      /\ Aged(image).writes = { older(x) : x \in old(image.writes) }
      /\ Aged(image).reads = { older(x) : x \in old(image.reads) }
      /\ Aged(image) = [image EXCEPT !.writes = Aged(image).writes, !.reads = Aged(image).reads]
  BY DEF Aged, ImageRecords
<1>2. image.layout \in Layouts /\ image.writes \subseteq WriteRecords /\ image.reads \subseteq ReadRecords
  BY DEF ImageRecords
<1>3. \A w \in WriteRecords : older(w) \in WriteRecords /\ WriteGrew(w, older(w))
  BY DEF WriteRecords, WriteGrew
<1>4. \A r \in ReadRecords : older(r) \in ReadRecords /\ ReadGrew(r, older(r))
  BY DEF ReadRecords, ReadGrew
<1> HIDE DEF older
<1>5. \A x \in Aged(image).writes : x \in WriteRecords /\ \E w \in image.writes : WriteGrew(w, x)
  BY <1>1, <1>2, <1>3
<1>6. \A x \in Aged(image).reads : x \in ReadRecords /\ \E r \in image.reads : ReadGrew(r, x)
  BY <1>1, <1>2, <1>4
<1>7. Aged(image) \in ImageRecords
  BY <1>1, <1>2, <1>5, <1>6 DEF ImageRecords
<1> QED
  BY <1>1, <1>5, <1>6, <1>7 DEF Grew

\* To grow twice is to grow, ...
LEMMA GrewTwice ==
  ASSUME NEW a, NEW b, NEW c, Grew(a, b), Grew(b, c)
  PROVE  Grew(a, c)
<1>1. \A x \in c.writes : \E w \in a.writes : WriteGrew(w, x)
  BY DEF Grew, WriteGrew
<1>2. \A x \in c.reads : \E w \in a.reads : ReadGrew(w, x)
  BY DEF Grew, ReadGrew
<1> QED
  BY <1>1, <1>2 DEF Grew

\* ... and so is to stay.
LEMMA GrewNot == ASSUME NEW a PROVE Grew(a, a)
BY DEF Grew, WriteGrew, ReadGrew

(***************************************************************************)
(* One step of a command buffer (PerformStep).                             *)
(***************************************************************************)
\* The steps the stages record.
Moves == [image : Images, from : Layouts, to : Layouts]

\* The uses of the passes, ...
Uses  == [image : Images, layout : Layouts, first : Stages, last : Stages, access : Accesses]

\* ... and the steps of a command buffer made of both.
Steps == [dependency : Dependencies, memory : SUBSET Images, moves : SUBSET Moves, uses : SUBSET Uses]

\* A transition and a use that nothing races with, in the layout they name.
SafeMove(image, m, d) ==
  /\ m.from \in {"Undefined", image.layout}
  /\ \A w \in image.writes : w.transition \/ (Chained(w, d) /\ MadeAvailable(w, d))
  /\ \A r \in image.reads : Chained(r, d)

\* A use finds its layout, what it touches visible to it, and what it
\* overwrites read.
SafeUse(image, u) ==
  /\ u.layout = image.layout
  /\ \A w \in image.writes : << u.first, u.access >> \in w.visible
  /\ u.access \in Writing => \A r \in image.reads : u.first \in r.after

\* A safe step adds no hazard and finds every image in its layout.
SafeStep(run, step) ==
  /\ \A m \in step.moves : SafeMove(run.images[m.image], m, step.dependency)
  /\ \A u \in step.uses : SafeUse(Ready(run, step, u.image), u)

\* PerformStep then finds no hazard and no image mislaid.
LEMMA SafeSteps ==
  ASSUME NEW p, NEW run, NEW step, SafeStep(run, step)
  PROVE  /\ PerformStep(p, run, step).hazards = run.hazards
         /\ PerformStep(p, run, step).mislaid = run.mislaid
<1>1. \A m \in step.moves : TransitionHazards(run.images[m.image], step.dependency) = {}
  BY DEF SafeStep, SafeMove, TransitionHazards
<1>2. \A u \in step.uses : UseHazards(Ready(run, step, u.image), u) = {}
  BY DEF SafeStep, SafeUse, UseHazards
<1>3. PerformStep(p, run, step).hazards = run.hazards
  BY <1>1, <1>2 DEF PerformStep
<1>4. {x \in step.moves : x.from \notin {"Undefined", run.images[x.image].layout}} = {}
  BY DEF SafeStep, SafeMove
<1>5. {x \in step.uses : x.layout # Ready(run, step, x.image).layout} = {}
  BY DEF SafeStep, SafeUse
<1>6. PerformStep(p, run, step).mislaid = run.mislaid
  BY <1>4, <1>5 DEF PerformStep
<1> QED
  BY <1>3, <1>6

\* An image after a transition, and after the writes of a pass.
Moved(image, d, layout) ==
  /\ image.layout = layout /\ image.reads = {}
  /\ \A w \in image.writes : /\ w.transition /\ w.available
                             /\ d.second \subseteq w.after /\ d.makesVisible \subseteq w.visible

\* An image all of whose writes are by one stage and one access.
Written(image, layout, stage, access) ==
  /\ image.layout = layout /\ image.reads = {}
  /\ \A w \in image.writes : w.stage = stage /\ w.access = access

\* What a step does to an image it neither moves nor uses, ...
LEMMA StepKeeps ==
  ASSUME NEW p, NEW run, run.images \in [Images -> ImageRecords], NEW step \in Steps, NEW i \in Images,
         MovesOf(step, i) = {}, UsesOf(step, i) = {}
  PROVE  LET now == PerformStep(p, run, step).images[i]
         IN  /\ now \in ImageRecords /\ Grew(run.images[i], now)
             /\ now = ImageThen(run.images[i], step.dependency, i \in step.memory)
<1>1. PerformStep(p, run, step).images[i] = ImageThen(run.images[i], step.dependency, i \in step.memory)
  BY DEF PerformStep, Ready
<1>2. run.images[i] \in ImageRecords /\ step.dependency \in Dependencies /\ (i \in step.memory) \in BOOLEAN
  BY DEF Steps
<1> QED
  BY <1>1, <1>2, DependencyGrows

\* ... the moment it is ready for the uses, whether it kept its layout ...
LEMMA ReadyKept ==
  ASSUME NEW run, run.images \in [Images -> ImageRecords], NEW step \in Steps, NEW i \in Images,
         MovesOf(step, i) = {}
  PROVE  /\ Ready(run, step, i) = ImageThen(run.images[i], step.dependency, i \in step.memory)
         /\ Ready(run, step, i) \in ImageRecords /\ Grew(run.images[i], Ready(run, step, i))
<1>1. Ready(run, step, i) = ImageThen(run.images[i], step.dependency, i \in step.memory)
  BY DEF Ready
<1>2. run.images[i] \in ImageRecords /\ step.dependency \in Dependencies /\ (i \in step.memory) \in BOOLEAN
  BY DEF Steps
<1> QED
  BY <1>1, <1>2, DependencyGrows

\* ... or was moved to another, ...
LEMMA ReadyMoved ==
  ASSUME NEW run, NEW step \in Steps, NEW i \in Images, NEW m, MovesOf(step, i) = {m}
  PROVE  /\ Ready(run, step, i) \in ImageRecords
         /\ Moved(Ready(run, step, i), step.dependency, m.to)
<1>1. m \in step.moves /\ (CHOOSE n \in MovesOf(step, i) : TRUE) = m
  BY DEF MovesOf
<1>2. Ready(run, step, i) = Transitioned(step.dependency, m.to)
  BY <1>1 DEF Ready
<1>3. m.to \in Layouts /\ step.dependency \in Dependencies
  BY <1>1 DEF Steps, Moves
<1>4. TransitionBy(step.dependency) \in WriteRecords
  BY <1>3 DEF TransitionBy, WriteRecords, Dependencies, Sources, Accesses
<1>5. Ready(run, step, i) \in ImageRecords
  BY <1>2, <1>3, <1>4 DEF Transitioned, ImageRecords
<1>6. Moved(Ready(run, step, i), step.dependency, m.to)
  BY <1>2 DEF Moved, Transitioned, TransitionBy
<1> QED
  BY <1>5, <1>6

\* ... when it is moved and not used, ...
LEMMA StepMoves ==
  ASSUME NEW p, NEW run, run.images \in [Images -> ImageRecords], NEW step \in Steps, NEW i \in Images,
         NEW m, MovesOf(step, i) = {m}, UsesOf(step, i) = {}
  PROVE  /\ PerformStep(p, run, step).images[i] \in ImageRecords
         /\ Moved(PerformStep(p, run, step).images[i], step.dependency, m.to)
<1>1. PerformStep(p, run, step).images[i] = Ready(run, step, i)
  BY DEF PerformStep
<1> QED
  BY <1>1, ReadyMoved

\* ... when all that writes it is one stage by one access, ...
LEMMA StepWrites ==
  ASSUME NEW p, NEW run, run.images \in [Images -> ImageRecords], NEW step \in Steps, NEW i \in Images,
         Ready(run, step, i) \in ImageRecords,
         NEW u \in UsesOf(step, i), u.access \in Writing,
         \A v \in UsesOf(step, i) : v.access \in Writing => v.last = u.last /\ v.access = u.access
  PROVE  /\ PerformStep(p, run, step).images[i] \in ImageRecords
         /\ Written(PerformStep(p, run, step).images[i], Ready(run, step, i).layout, u.last, u.access)
<1> DEFINE ready == Ready(run, step, i)
           now   == PerformStep(p, run, step).images[i]
           W     == {WriteBy(v.last, v.access) : v \in {x \in UsesOf(step, i) : x.access \in Writing}}
<1>1. now = [ready EXCEPT !.writes = W, !.reads = {}]
  BY DEF PerformStep, Used
<1>2. W = {WriteBy(u.last, u.access)}
  OBVIOUS
<1>3. u.last \in Stages /\ u.access \in Accesses
  BY DEF UsesOf, Steps, Uses
<1>4. WriteBy(u.last, u.access) \in WriteRecords
  BY <1>3 DEF WriteBy, WriteRecords, Sources
<1>5. \A w \in W : w.stage = u.last /\ w.access = u.access
  BY <1>2 DEF WriteBy
<1> HIDE DEF W
<1>6. W \in SUBSET WriteRecords
  BY <1>2, <1>4
<1>7. now \in ImageRecords
  BY <1>1, <1>6 DEF ImageRecords
<1>8. now.layout = ready.layout /\ now.writes = W /\ now.reads = {}
  BY <1>1 DEF ImageRecords
<1> QED
  BY <1>5, <1>7, <1>8 DEF Written

\* ... and when it is only read.
LEMMA StepReads ==
  ASSUME NEW p, NEW run, run.images \in [Images -> ImageRecords], NEW step \in Steps, NEW i \in Images,
         Ready(run, step, i) \in ImageRecords, NEW u, UsesOf(step, i) = {u}, u.access \notin Writing
  PROVE  LET now == PerformStep(p, run, step).images[i]
         IN  /\ now \in ImageRecords
             /\ now.layout = Ready(run, step, i).layout /\ now.writes = Ready(run, step, i).writes
             /\ now.reads = Ready(run, step, i).reads \cup {ReadBy(u.last)} /\ ReadBy(u.last).stage = u.last
<1> DEFINE ready == Ready(run, step, i)
           now   == PerformStep(p, run, step).images[i]
           R     == ready.reads \cup {ReadBy(v.last) : v \in UsesOf(step, i)}
<1>1. now = [ready EXCEPT !.reads = R]
  BY DEF PerformStep, Used
<1>2. R = ready.reads \cup {ReadBy(u.last)}
  OBVIOUS
<1>3. u.last \in Stages
  BY DEF UsesOf, Steps, Uses
<1>4. ReadBy(u.last) \in ReadRecords /\ ReadBy(u.last).stage = u.last
  BY <1>3 DEF ReadBy, ReadRecords, Sources
<1>5. ready.reads \in SUBSET ReadRecords
  BY DEF ImageRecords
<1> HIDE DEF R
<1>6. R \in SUBSET ReadRecords
  BY <1>2, <1>4, <1>5
<1>7. now \in ImageRecords
  BY <1>1, <1>6 DEF ImageRecords
<1>8. now.layout = ready.layout /\ now.writes = ready.writes /\ now.reads = R
  BY <1>1 DEF ImageRecords
<1> QED
  BY <1>2, <1>4, <1>7, <1>8

\* Images stay images.
LEMMA StepTypes ==
  ASSUME NEW p, NEW run, run.images \in [Images -> ImageRecords], NEW step \in Steps
  PROVE  PerformStep(p, run, step).images \in [Images -> ImageRecords]
<1>1. ASSUME NEW i \in Images PROVE Ready(run, step, i) \in ImageRecords
  <2>1. CASE MovesOf(step, i) = {}
    BY <2>1, ReadyKept
  <2>2. CASE MovesOf(step, i) # {}
    <3>1. PICK m : m = CHOOSE n \in MovesOf(step, i) : TRUE
      OBVIOUS
    <3>2. m \in step.moves /\ Ready(run, step, i) = Transitioned(step.dependency, m.to)
      BY <2>2, <3>1 DEF MovesOf, Ready
    <3>3. m.to \in Layouts /\ step.dependency \in Dependencies
      BY <3>2 DEF Steps, Moves
    <3>4. TransitionBy(step.dependency) \in WriteRecords
      BY <3>3 DEF TransitionBy, WriteRecords, Dependencies, Sources, Accesses
    <3> QED
      BY <3>2, <3>3, <3>4 DEF Transitioned, ImageRecords
  <2> QED
    BY <2>1, <2>2
<1>2. ASSUME NEW i \in Images PROVE Used(Ready(run, step, i), UsesOf(step, i)) \in ImageRecords
  <2> DEFINE uses == UsesOf(step, i)
             W    == {WriteBy(v.last, v.access) : v \in {x \in uses : x.access \in Writing}}
             R    == {ReadBy(v.last) : v \in uses}
  <2>1. \A u \in uses : u.last \in Stages /\ u.access \in Accesses
    BY DEF UsesOf, Steps, Uses
  <2>2. \A s \in Stages, a \in Accesses : WriteBy(s, a) \in WriteRecords /\ ReadBy(s) \in ReadRecords
    BY DEF WriteBy, ReadBy, WriteRecords, ReadRecords, Sources
  <2>3. W \in SUBSET WriteRecords /\ R \in SUBSET ReadRecords
    BY <2>1, <2>2
  <2>4. PICK ready \in ImageRecords : ready = Ready(run, step, i)
    BY <1>1
  <2>5. Used(ready, uses) = IF \E u \in uses : u.access \in Writing
                            THEN [ready EXCEPT !.writes = W, !.reads = {}]
                            ELSE [ready EXCEPT !.reads = @ \cup R]
    BY DEF Used
  <2> HIDE DEF W, R, uses
  <2>6. [ready EXCEPT !.writes = W, !.reads = {}] \in ImageRecords
    BY <2>3 DEF ImageRecords
  <2>7. [ready EXCEPT !.reads = @ \cup R] \in ImageRecords
    BY <2>3 DEF ImageRecords
  <2> QED
    BY <2>4, <2>5, <2>6, <2>7 DEF uses
<1>3. PerformStep(p, run, step).images
        = [i \in Images |-> IF UsesOf(step, i) = {} THEN Ready(run, step, i)
                            ELSE Used(Ready(run, step, i), UsesOf(step, i))]
  BY DEF PerformStep
<1> QED
  BY <1>1, <1>2, <1>3

\* The runs between the steps of a pass, of which there are at most four.
LEMMA StepByStep ==
  ASSUME NEW p, NEW run, NEW steps, Len(steps) \in 0 .. 4
  PROVE  \E g : /\ g[0] = run /\ g[Len(steps)] = Perform(p, run, steps)
                /\ \A n \in 1 .. Len(steps) : g[n] = PerformStep(p, g[n - 1], steps[n])
<1> DEFINE N == Len(steps)
           next(r, n) == PerformStep(p, r, steps[n])
           body(f) == [n \in 0 .. N |-> IF n = 0 THEN run ELSE next(f[n - 1], n)]
<1>1. Perform(p, run, steps) = (CHOOSE f : f = body(f))[N]
  BY DEF Perform
<1> HIDE DEF next, N
<1> DEFINE r1 == next(run, 1)
           r2 == next(r1, 2)
           r3 == next(r2, 3)
           r4 == next(r3, 4)
           after(n) == CASE n = 0 -> run [] n = 1 -> r1 [] n = 2 -> r2 [] n = 3 -> r3 [] n = 4 -> r4
           f  == [n \in 0 .. N |-> after(n)]
<1>2. ASSUME NEW n \in 0 .. N
      PROVE  f[n] = IF n = 0 THEN run ELSE next(f[n - 1], n)
  <2>1. N \in 0 .. 4
    BY DEF N
  <2>2. n \in 0 .. 4 /\ (n # 0 => n - 1 \in 0 .. N)
    BY <2>1
  <2>3. n = 0 \/ n = 1 \/ n = 2 \/ n = 3 \/ n = 4
    BY <2>2
  <2> HIDE DEF r1, r2, r3, r4
  <2>4. CASE n = 0
    BY <2>4
  <2>5. CASE n = 1
    BY <2>2, <2>5 DEF r1
  <2>6. CASE n = 2
    BY <2>2, <2>6 DEF r2
  <2>7. CASE n = 3
    BY <2>2, <2>7 DEF r3
  <2>8. CASE n = 4
    BY <2>2, <2>8 DEF r4
  <2> QED
    BY <2>3, <2>4, <2>5, <2>6, <2>7, <2>8
<1>3. f = body(f)
  <2> HIDE DEF after
  <2>1. DOMAIN f = 0 .. N /\ f = [n \in 0 .. N |-> f[n]]
    OBVIOUS
  <2> HIDE DEF f
  <2> QED
    BY <1>2, <2>1
<1>4. PICK g : g = body(g) /\ Perform(p, run, steps) = g[N]
  <2> HIDE DEF f, body
  <2> QED
    BY <1>1, <1>3
<1>5. N \in 0 .. 4 /\ 0 \in 0 .. N
  BY DEF N
<1>6. \A n \in 0 .. N : g[n] = IF n = 0 THEN run ELSE next(g[n - 1], n)
  BY <1>4
<1>7. g[0] = run /\ \A n \in 1 .. N : g[n] = next(g[n - 1], n)
  BY <1>5, <1>6
<1> QED
  BY <1>4, <1>7 DEF next, N

\* A stage that is switched off records nothing.
LEMMA NoSteps == ASSUME NEW p, NEW run PROVE Perform(p, run, << >>) = run
<1>1. PICK steps : steps = << >>
  OBVIOUS
<1>2. Len(steps) = 0
  BY <1>1
<1>3. PICK g : /\ g[0] = run /\ g[Len(steps)] = Perform(p, run, steps)
               /\ \A n \in 1 .. Len(steps) : g[n] = PerformStep(p, g[n - 1], steps[n])
  <2>1. Len(steps) \in 0 .. 4
    BY <1>2
  <2> QED
    BY <2>1, StepByStep
<1> QED
  BY <1>1, <1>2, <1>3

\* A pass of one step, ...
LEMMA OneStep ==
  ASSUME NEW p, NEW run, NEW a
  PROVE  Perform(p, run, << a >>) = PerformStep(p, run, a)
<1>1. PICK steps : steps = << a >>
  OBVIOUS
<1>2. Len(steps) = 1 /\ steps[1] = a
  BY <1>1
<1>3. PICK g : /\ g[0] = run /\ g[Len(steps)] = Perform(p, run, steps)
               /\ \A n \in 1 .. Len(steps) : g[n] = PerformStep(p, g[n - 1], steps[n])
  <2>1. Len(steps) \in 0 .. 4
    BY <1>2
  <2> QED
    BY <2>1, StepByStep
<1>4. g[1] = PerformStep(p, g[0], a)
  BY <1>2, <1>3
<1> QED
  BY <1>1, <1>2, <1>3, <1>4

\* ... of two, ...
LEMMA TwoSteps ==
  ASSUME NEW p, NEW run, NEW a, NEW b
  PROVE  Perform(p, run, << a, b >>) = PerformStep(p, PerformStep(p, run, a), b)
<1>1. PICK steps : steps = << a, b >>
  OBVIOUS
<1>2. Len(steps) = 2 /\ steps[1] = a /\ steps[2] = b
  BY <1>1
<1>3. PICK g : /\ g[0] = run /\ g[Len(steps)] = Perform(p, run, steps)
               /\ \A n \in 1 .. Len(steps) : g[n] = PerformStep(p, g[n - 1], steps[n])
  <2>1. Len(steps) \in 0 .. 4
    BY <1>2
  <2> QED
    BY <2>1, StepByStep
<1>4. g[1] = PerformStep(p, g[0], a) /\ g[2] = PerformStep(p, g[1], b)
  BY <1>2, <1>3
<1> QED
  BY <1>1, <1>2, <1>3, <1>4

\* ... of three ...
LEMMA ThreeSteps ==
  ASSUME NEW p, NEW run, NEW a, NEW b, NEW c
  PROVE  Perform(p, run, << a, b, c >>) = PerformStep(p, PerformStep(p, PerformStep(p, run, a), b), c)
<1>1. PICK steps : steps = << a, b, c >>
  OBVIOUS
<1>2. Len(steps) = 3 /\ steps[1] = a /\ steps[2] = b /\ steps[3] = c
  BY <1>1
<1>3. PICK g : /\ g[0] = run /\ g[Len(steps)] = Perform(p, run, steps)
               /\ \A n \in 1 .. Len(steps) : g[n] = PerformStep(p, g[n - 1], steps[n])
  <2>1. Len(steps) \in 0 .. 4
    BY <1>2
  <2> QED
    BY <2>1, StepByStep
<1>4. g[1] = PerformStep(p, g[0], a) /\ g[2] = PerformStep(p, g[1], b) /\ g[3] = PerformStep(p, g[2], c)
  BY <1>2, <1>3
<1> QED
  BY <1>1, <1>2, <1>3, <1>4

\* ... and of four.
LEMMA FourSteps ==
  ASSUME NEW p, NEW run, NEW a, NEW b, NEW c, NEW e
  PROVE  Perform(p, run, << a, b, c, e >>)
           = PerformStep(p, PerformStep(p, PerformStep(p, PerformStep(p, run, a), b), c), e)
<1>1. PICK steps : steps = << a, b, c, e >>
  OBVIOUS
<1>2. /\ Len(steps) = 4
      /\ steps[1] = a /\ steps[2] = b /\ steps[3] = c /\ steps[4] = e
  BY <1>1
<1>3. PICK g : /\ g[0] = run /\ g[Len(steps)] = Perform(p, run, steps)
               /\ \A n \in 1 .. Len(steps) : g[n] = PerformStep(p, g[n - 1], steps[n])
  <2>1. Len(steps) \in 0 .. 4
    BY <1>2
  <2> QED
    BY <2>1, StepByStep
<1>4. /\ g[1] = PerformStep(p, g[0], a) /\ g[2] = PerformStep(p, g[1], b)
      /\ g[3] = PerformStep(p, g[2], c) /\ g[4] = PerformStep(p, g[3], e)
  BY <1>2, <1>3
<1> QED
  BY <1>1, <1>2, <1>3, <1>4

\* A stretch of a command buffer without a hazard, that leaves alone all images
\* but these.
Clean(before, after, touched) ==
  /\ after.hazards = before.hazards /\ after.mislaid = before.mislaid
  /\ after.images \in [Images -> ImageRecords]
  /\ \A i \in Images \ touched : Grew(before.images[i], after.images[i])

\* A safe step is clean outside of what it moves or uses.
LEMMA StepClean ==
  ASSUME NEW p, NEW run, run.images \in [Images -> ImageRecords], NEW step \in Steps,
         SafeStep(run, step), NEW touched,
         \A m \in step.moves : m.image \in touched, \A u \in step.uses : u.image \in touched
  PROVE  Clean(run, PerformStep(p, run, step), touched)
<1>1. ASSUME NEW i \in Images \ touched
      PROVE  Grew(run.images[i], PerformStep(p, run, step).images[i])
  <2>1. MovesOf(step, i) = {} /\ UsesOf(step, i) = {}
    BY DEF MovesOf, UsesOf
  <2> QED
    BY <2>1, StepKeeps
<1> QED
  BY <1>1, StepTypes, SafeSteps DEF Clean

\* Clean stretches follow each other.
LEMMA CleanTwice ==
  ASSUME NEW a, NEW b, NEW c, NEW touched, Clean(a, b, touched), Clean(b, c, touched)
  PROVE  Clean(a, c, touched)
<1>1. ASSUME NEW i \in Images \ touched PROVE Grew(a.images[i], c.images[i])
  <2>1. PICK x, y, z : x = a.images[i] /\ y = b.images[i] /\ z = c.images[i]
    OBVIOUS
  <2>2. Grew(x, y) /\ Grew(y, z)
    BY <2>1 DEF Clean
  <2> QED
    BY <2>1, <2>2, GrewTwice
<1> QED
  BY <1>1 DEF Clean

\* A dependency that covers the memory of an image orders what it follows.
Followed(old, new, d) ==
  /\ new.layout = old.layout
  /\ \A x \in new.writes : \E w \in old.writes :
       /\ WriteGrew(w, x)
       /\ Chained(w, d) => d.second \subseteq x.after
       /\ Chained(w, d) /\ MadeAvailable(w, d) => x.available /\ d.makesVisible \subseteq x.visible
  /\ \A x \in new.reads : \E r \in old.reads :
       ReadGrew(r, x) /\ (Chained(r, d) => d.second \subseteq x.after)

\* ImageThen, with the memory half: the image a step does not move follows its
\* dependency.
LEMMA ReadyFollows ==
  ASSUME NEW run, run.images \in [Images -> ImageRecords], NEW step \in Steps, NEW i \in step.memory,
         MovesOf(step, i) = {}
  PROVE  Followed(run.images[i], Ready(run, step, i), step.dependency)
<1>1. PICK image, d, now : /\ image = run.images[i] /\ d = step.dependency /\ now = Ready(run, step, i)
                           /\ image \in ImageRecords /\ d \in Dependencies
  BY DEF Steps
<1>2. now = ImageThen(image, d, TRUE)
  <2>1. (i \in step.memory) = TRUE
    OBVIOUS
  <2> QED
    BY <1>1, <2>1 DEF Ready
<1>3. ASSUME NEW w \in WriteRecords
      PROVE  LET x == WriteThen(w, d, TRUE)
             IN  /\ WriteGrew(w, x)
                 /\ Chained(w, d) => d.second \subseteq x.after
                 /\ Chained(w, d) /\ MadeAvailable(w, d) => x.available /\ d.makesVisible \subseteq x.visible
  BY <1>1 DEF WriteThen, WriteRecords, WriteGrew, Dependencies
<1>4. ASSUME NEW r \in ReadRecords
      PROVE  LET x == ReadThen(r, d)
             IN  ReadGrew(r, x) /\ (Chained(r, d) => d.second \subseteq x.after)
  BY <1>1 DEF ReadThen, ReadRecords, ReadGrew, Dependencies
<1>5. /\ now.layout = image.layout
      /\ now.writes = { WriteThen(w, d, TRUE) : w \in image.writes }
      /\ now.reads = { ReadThen(r, d) : r \in image.reads }
  BY <1>1, <1>2 DEF ImageThen, ImageRecords
<1>6. image.writes \subseteq WriteRecords /\ image.reads \subseteq ReadRecords
  BY <1>1 DEF ImageRecords
<1>7. Followed(image, now, d)
  BY <1>3, <1>4, <1>5, <1>6 DEF Followed
<1> QED
  BY <1>1, <1>7

\* What is not used is as ready as it stays.
LEMMA StepUnused ==
  ASSUME NEW p, NEW run, run.images \in [Images -> ImageRecords], NEW step, NEW i \in Images,
         UsesOf(step, i) = {}
  PROVE  PerformStep(p, run, step).images[i] = Ready(run, step, i)
BY DEF PerformStep

\* A step that turns one run into the next.
Typed(run) == run.images \in [Images -> ImageRecords]

\* One step from a run to the next.
Runs(p, before, step, after) == Typed(before) /\ step \in Steps /\ after = PerformStep(p, before, step)

\* All images that a step moves or uses.
Only(step, touched) ==
  (\A m \in step.moves : m.image \in touched) /\ (\A u \in step.uses : u.image \in touched)

\* The next run is one too.
LEMMA RunsTyped ==
  ASSUME NEW p, NEW a, NEW step, NEW b, Runs(p, a, step, b)
  PROVE  Typed(b)
BY StepTypes DEF Runs, Typed

\* Perform as runs: one step, ...
LEMMA RunsOne ==
  ASSUME NEW p, NEW run, Typed(run), NEW a \in Steps
  PROVE  Runs(p, run, a, Perform(p, run, << a >>))
BY OneStep DEF Runs

\* ... two, ...
LEMMA RunsTwo ==
  ASSUME NEW p, NEW run, Typed(run), NEW a \in Steps, NEW b \in Steps
  PROVE  \E r : Runs(p, run, a, r) /\ Runs(p, r, b, Perform(p, run, << a, b >>))
<1>1. PICK r, s : r = PerformStep(p, run, a) /\ s = PerformStep(p, r, b)
  OBVIOUS
<1>2. Runs(p, run, a, r)
  BY <1>1 DEF Runs
<1>3. Runs(p, r, b, s)
  BY <1>1, <1>2, RunsTyped DEF Runs
<1>4. s = Perform(p, run, << a, b >>)
  BY <1>1, TwoSteps
<1> QED
  BY <1>2, <1>3, <1>4

\* ... three ...
LEMMA RunsThree ==
  ASSUME NEW p, NEW run, Typed(run), NEW a \in Steps, NEW b \in Steps, NEW c \in Steps
  PROVE  \E r, s : /\ Runs(p, run, a, r) /\ Runs(p, r, b, s)
                   /\ Runs(p, s, c, Perform(p, run, << a, b, c >>))
<1>1. PICK r, s, t : /\ r = PerformStep(p, run, a) /\ s = PerformStep(p, r, b)
                     /\ t = PerformStep(p, s, c)
  OBVIOUS
<1>2. Runs(p, run, a, r)
  BY <1>1 DEF Runs
<1>3. Runs(p, r, b, s)
  BY <1>1, <1>2, RunsTyped DEF Runs
<1>4. Runs(p, s, c, t)
  BY <1>1, <1>3, RunsTyped DEF Runs
<1>5. t = Perform(p, run, << a, b, c >>)
  BY <1>1, ThreeSteps
<1> QED
  BY <1>2, <1>3, <1>4, <1>5

\* ... and four.
LEMMA RunsFour ==
  ASSUME NEW p, NEW run, Typed(run),
         NEW a \in Steps, NEW b \in Steps, NEW c \in Steps, NEW e \in Steps
  PROVE  \E r, s, t : /\ Runs(p, run, a, r) /\ Runs(p, r, b, s) /\ Runs(p, s, c, t)
                      /\ Runs(p, t, e, Perform(p, run, << a, b, c, e >>))
<1>1. PICK r, s, t, v : /\ r = PerformStep(p, run, a) /\ s = PerformStep(p, r, b)
                        /\ t = PerformStep(p, s, c) /\ v = PerformStep(p, t, e)
  OBVIOUS
<1>2. Runs(p, run, a, r)
  BY <1>1 DEF Runs
<1>3. Runs(p, r, b, s)
  BY <1>1, <1>2, RunsTyped DEF Runs
<1>4. Runs(p, s, c, t)
  BY <1>1, <1>3, RunsTyped DEF Runs
<1>5. Runs(p, t, e, v)
  BY <1>1, <1>4, RunsTyped DEF Runs
<1>6. v = Perform(p, run, << a, b, c, e >>)
  BY <1>1, FourSteps
<1> QED
  BY <1>2, <1>3, <1>4, <1>5, <1>6

\* A safe step of the run disturbs nothing but what it touches.
LEMMA RunsClean ==
  ASSUME NEW p, NEW a, NEW step, NEW b, Runs(p, a, step, b), SafeStep(a, step),
         NEW touched, Only(step, touched)
  PROVE  Clean(a, b, touched)
BY StepClean DEF Runs, Typed, Only

\* What a step of the run does to an image it moves or uses, or covers only.
LEMMA RunsFollows ==
  ASSUME NEW p, NEW a, NEW step, NEW b, Runs(p, a, step, b),
         NEW i \in Images, i \in step.memory, MovesOf(step, i) = {}, UsesOf(step, i) = {}
  PROVE  Followed(a.images[i], b.images[i], step.dependency)
BY ReadyFollows, StepUnused DEF Runs, Typed

\* An image it leaves alone grew, ...
LEMMA RunsGrows ==
  ASSUME NEW p, NEW a, NEW step, NEW b, Runs(p, a, step, b),
         NEW i \in Images, MovesOf(step, i) = {}, UsesOf(step, i) = {}
  PROVE  Grew(a.images[i], b.images[i])
BY StepKeeps DEF Runs, Typed

\* ... one it moves only holds the transition, ...
LEMMA RunsMoves ==
  ASSUME NEW p, NEW a, NEW step, NEW b, Runs(p, a, step, b),
         NEW i \in Images, NEW m, MovesOf(step, i) = {m}, UsesOf(step, i) = {}
  PROVE  Moved(b.images[i], step.dependency, m.to)
BY StepMoves DEF Runs, Typed

\* ... one it writes holds that write alone ...
LEMMA RunsWrites ==
  ASSUME NEW p, NEW a, NEW step, NEW b, Runs(p, a, step, b), NEW i \in Images,
         NEW u \in UsesOf(step, i), u.access \in Writing,
         \A v \in UsesOf(step, i) : v.access \in Writing => v.last = u.last /\ v.access = u.access,
         Ready(a, step, i) \in ImageRecords
  PROVE  Written(b.images[i], Ready(a, step, i).layout, u.last, u.access)
BY StepWrites DEF Runs, Typed

\* ... and one it reads has that read added.
LEMMA RunsReads ==
  ASSUME NEW p, NEW a, NEW step, NEW b, Runs(p, a, step, b), NEW i \in Images,
         NEW u, UsesOf(step, i) = {u}, u.access \notin Writing, Ready(a, step, i) \in ImageRecords
  PROVE  /\ b.images[i].layout = Ready(a, step, i).layout /\ b.images[i].writes = Ready(a, step, i).writes
         /\ \A r \in b.images[i].reads : r \in Ready(a, step, i).reads \/ r.stage = u.last
<1>1. b = PerformStep(p, a, step) /\ a.images \in [Images -> ImageRecords] /\ step \in Steps
  BY DEF Runs, Typed
<1>2. PICK now : now = PerformStep(p, a, step).images[i]
  OBVIOUS
<1>3. /\ now.layout = Ready(a, step, i).layout /\ now.writes = Ready(a, step, i).writes
      /\ now.reads = Ready(a, step, i).reads \cup {ReadBy(u.last)} /\ ReadBy(u.last).stage = u.last
  BY <1>1, <1>2, StepReads
<1> QED
  BY <1>1, <1>2, <1>3

\* A step that is safe but for one read, ...
SafeStepBut(run, step, bad) ==
  /\ bad \in step.uses /\ bad.access \notin Writing
  /\ bad.layout = Ready(run, step, bad.image).layout
  /\ \A m \in step.moves : SafeMove(run.images[m.image], m, step.dependency)
  /\ \A u \in step.uses : u # bad => SafeUse(Ready(run, step, u.image), u)

\* ... can only find that what it reads may not be there yet.
LEMMA RunsOver ==
  ASSUME NEW p, NEW a, NEW step, NEW b, Runs(p, a, step, b), NEW touched, Only(step, touched),
         NEW bad, SafeStepBut(a, step, bad)
  PROVE  /\ b.mislaid = a.mislaid
         /\ b.hazards \subseteq a.hazards \cup {<< p, bad.image, "read after write" >>}
         /\ \A i \in Images \ touched : Grew(a.images[i], b.images[i])
<1>1. /\ b = PerformStep(p, a, step) /\ Typed(a) /\ step \in Steps
  BY DEF Runs
<1>2. \A m \in step.moves : TransitionHazards(a.images[m.image], step.dependency) = {}
  BY DEF SafeStepBut, SafeMove, TransitionHazards
<1>3. \A u \in step.uses : u # bad => UseHazards(Ready(a, step, u.image), u) = {}
  BY DEF SafeStepBut, SafeUse, UseHazards
<1>4. UseHazards(Ready(a, step, bad.image), bad) \subseteq {"read after write"}
  BY DEF SafeStepBut, UseHazards
<1>5. b.hazards \subseteq a.hazards \cup {<< p, bad.image, "read after write" >>}
  <2>1. ASSUME NEW h \in b.hazards, h \notin a.hazards
        PROVE  h = << p, bad.image, "read after write" >>
    <3> DEFINE ofMove(m) == {<< p, m.image, k >> :
                              k \in TransitionHazards(a.images[m.image], step.dependency)}
               ofUse(u)  == {<< p, u.image, k >> : k \in UseHazards(Ready(a, step, u.image), u)}
    <3>1. b.hazards = a.hazards \cup (UNION {ofMove(m) : m \in step.moves})
                                \cup (UNION {ofUse(u) : u \in step.uses})
      BY <1>1 DEF PerformStep
    <3>2. \A m \in step.moves : ofMove(m) = {}
      BY <1>2
    <3>3. \A u \in step.uses : u # bad => ofUse(u) = {}
      BY <1>3
    <3>4. \A x \in ofUse(bad) : x = << p, bad.image, "read after write" >>
      BY <1>4
    <3> HIDE DEF ofMove, ofUse
    <3>5. UNION {ofMove(m) : m \in step.moves} = {}
      BY <3>2
    <3>6. h \in UNION {ofUse(u) : u \in step.uses}
      BY <2>1, <3>1, <3>5
    <3>7. PICK u \in step.uses : h \in ofUse(u)
      BY <3>6
    <3> QED
      BY <3>3, <3>4, <3>7
  <2> QED
    BY <2>1
<1>6. b.mislaid = a.mislaid
  <2>1. {x \in step.moves : x.from \notin {"Undefined", a.images[x.image].layout}} = {}
    BY DEF SafeStepBut, SafeMove
  <2>2. {x \in step.uses : x.layout # Ready(a, step, x.image).layout} = {}
    BY DEF SafeStepBut, SafeUse
  <2> QED
    BY <1>1, <2>1, <2>2 DEF PerformStep
<1>7. ASSUME NEW i \in Images \ touched PROVE Grew(a.images[i], b.images[i])
  <2>1. MovesOf(step, i) = {} /\ UsesOf(step, i) = {}
    BY DEF MovesOf, UsesOf, Only
  <2> QED
    BY <2>1, RunsGrows
<1> QED
  BY <1>5, <1>6, <1>7

(***************************************************************************)
(* The images the frames in flight share.                                  *)
(***************************************************************************)
\* The clouds: what was written is visible to the post stage, the only reader.
CloudsOrdered(image) ==
  /\ image.layout = "General"
  /\ \A w \in image.writes : /\ "FragmentShader" \in w.after /\ w.available
                             /\ << "FragmentShader", "ShaderRead" >> \in w.visible
  /\ \A r \in image.reads : r.stage = "FragmentShader"

\* The shadow map was moved last, and only fragment shaders read it since.
ShadowsOrdered(image) ==
  /\ \A w \in image.writes : w.transition
  /\ \A r \in image.reads : r.stage = "FragmentShader"

\* The depth of the forward path was written last, ...
ForwardDepthOrdered(image) ==
  /\ \A w \in image.writes : w.stage = "LateFragmentTests" /\ w.access = "DepthWrite"
  /\ image.reads = {}

\* ... that of the deferred path moved, ...
DeferredDepthOrdered(image) ==
  /\ \A w \in image.writes : w.transition
  /\ image.reads = {}

\* ... and the history of the path tracer written by its shader.
AccumulationOrdered(image) ==
  /\ image.layout = "General"
  /\ \A w \in image.writes : w.stage = "ComputeShader" /\ w.access = "ShaderWrite"
  /\ image.reads = {}

\* What one frame leaves of the shared images to the next.
SharedOrdered(state) ==
  /\ CloudsOrdered(state["cloudOutput"]) /\ ShadowsOrdered(state["shadowMap"])
  /\ ForwardDepthOrdered(state["forwardDepth"]) /\ DeferredDepthOrdered(state["deferredDepth"])
  /\ AccumulationOrdered(state["accumulation"])

\* An image a fragment shader can sample.
Sampleable(image) ==
  /\ image.layout = "ShaderReadOnly"
  /\ \A w \in image.writes : << "FragmentShader", "ShaderRead" >> \in w.visible

\* What a frame does with its own images starts from nothing.
Untouched(image) == image.writes = {} /\ image.reads = {}

\* The swapchain image as it was acquired, ...
Acquirable(image) ==
  image.writes = {} /\ \A r \in image.reads : "ColorAttachmentOutput" \in r.after

\* ... written by the sky and visible to the blending of the post stage, ...
Blendable(image) ==
  /\ Written(image, "ColorAttachment", "ColorAttachmentOutput", "ColorWrite")
  /\ \A w \in image.writes : << "ColorAttachmentOutput", "ColorRead" >> \in w.visible

\* ... and moved for the present.
Presentable(image) ==
  image.layout = "PresentSrc" /\ image.reads = {} /\ \A w \in image.writes : w.transition

\* None of this is disturbed by what happens to other images.
LEMMA OrderedGrows ==
  ASSUME NEW old, NEW new, Grew(old, new)
  PROVE  /\ CloudsOrdered(old) => CloudsOrdered(new)
         /\ ShadowsOrdered(old) => ShadowsOrdered(new)
         /\ ForwardDepthOrdered(old) => ForwardDepthOrdered(new)
         /\ DeferredDepthOrdered(old) => DeferredDepthOrdered(new)
         /\ AccumulationOrdered(old) => AccumulationOrdered(new)
<1>1. CloudsOrdered(old) => CloudsOrdered(new)
  BY DEF Grew, WriteGrew, ReadGrew, CloudsOrdered
<1>2. ShadowsOrdered(old) => ShadowsOrdered(new)
  BY DEF Grew, WriteGrew, ReadGrew, ShadowsOrdered
<1>3. ForwardDepthOrdered(old) => ForwardDepthOrdered(new)
  BY DEF Grew, WriteGrew, ReadGrew, ForwardDepthOrdered
<1>4. DeferredDepthOrdered(old) => DeferredDepthOrdered(new)
  BY DEF Grew, WriteGrew, ReadGrew, DeferredDepthOrdered
<1>5. AccumulationOrdered(old) => AccumulationOrdered(new)
  BY DEF Grew, WriteGrew, ReadGrew, AccumulationOrdered
<1> QED
  BY <1>1, <1>2, <1>3, <1>4, <1>5

\* Nor are the states an image passes through within a frame.
LEMMA StateGrows ==
  ASSUME NEW old, NEW new, Grew(old, new)
  PROVE  /\ Sampleable(old) => Sampleable(new)
         /\ Untouched(old) => Untouched(new)
         /\ Acquirable(old) => Acquirable(new)
         /\ Blendable(old) => Blendable(new)
         /\ Presentable(old) => Presentable(new)
         /\ \A d, layout : Moved(old, d, layout) => Moved(new, d, layout)
         /\ \A layout, stage, access : Written(old, layout, stage, access) => Written(new, layout, stage, access)
<1>1. Sampleable(old) => Sampleable(new)
  BY DEF Grew, WriteGrew, Sampleable
<1>2. Untouched(old) => Untouched(new)
  BY DEF Grew, Untouched
<1>3. ASSUME NEW d, NEW layout, Moved(old, d, layout) PROVE Moved(new, d, layout)
  BY <1>3 DEF Grew, WriteGrew, Moved
<1>4. ASSUME NEW layout, NEW stage, NEW access, Written(old, layout, stage, access)
      PROVE  Written(new, layout, stage, access)
  BY <1>4 DEF Grew, WriteGrew, Written
<1>5. Acquirable(old) => Acquirable(new)
  BY DEF Grew, ReadGrew, Acquirable
<1>6. Blendable(old) => Blendable(new)
  BY DEF Grew, WriteGrew, Written, Blendable
<1>7. Presentable(old) => Presentable(new)
  BY DEF Grew, WriteGrew, Presentable
<1> QED
  BY <1>1, <1>2, <1>3, <1>4, <1>5, <1>6, <1>7

(***************************************************************************)
(* The dependencies of the stages.                                         *)
(***************************************************************************)
\* The clouds wait for the sampling of the frame before, and the post stage for
\* them.
LEMMA CloudsDependencies ==
  /\ CloudsBefore \in Dependencies
  /\ "FragmentShader" \in CloudsBefore.first /\ "ComputeShader" \in CloudsBefore.second
  /\ << "ComputeShader", "ShaderWrite" >> \in CloudsBefore.makesVisible
  /\ CloudsAfter \in Dependencies
  /\ CloudsAfter.src = {"ComputeShader"} /\ CloudsAfter.srcAccess = {"ShaderWrite"}
  /\ "ComputeShader" \in CloudsAfter.first /\ "FragmentShader" \in CloudsAfter.second
  /\ << "FragmentShader", "ShaderRead" >> \in CloudsAfter.makesVisible
<1>1. /\ {"FragmentShader"} \subseteq Stages /\ {"ComputeShader"} \subseteq Stages
      /\ {} \subseteq Accesses /\ {"ShaderWrite"} \subseteq Accesses /\ {"ShaderRead"} \subseteq Accesses
  BY Masks DEF Accesses
<1>2. Covers(CloudsBefore, {"FragmentShader"}, {}, {"ComputeShader"}, {"ShaderWrite"})
  BY <1>1, Scopes DEF CloudsBefore
<1>3. Covers(CloudsAfter, {"ComputeShader"}, {"ShaderWrite"}, {"FragmentShader"}, {"ShaderRead"})
  BY <1>1, Scopes DEF CloudsAfter
<1> QED
  BY <1>2, <1>3 DEF Covers

\* The shadow map: rendered after the last sampling of it, sampled after its
\* rendering, and put in its layout when it is not rendered.
LEMMA ShadowDependencies ==
  /\ Covers(ShadowBegin, {"FragmentShader"}, {"ShaderRead"}, {"EarlyFragmentTests"}, {"DepthWrite"})
  /\ Covers(ShadowEnd, {"LateFragmentTests"}, {"DepthWrite"}, {"FragmentShader"}, {"ShaderRead"})
  /\ Covers(Dependency({"FragmentShader"}, {}, {"FragmentShader"}, {"ShaderRead"}),
            {"FragmentShader"}, {}, {"FragmentShader"}, {"ShaderRead"})
<1>1. /\ {"FragmentShader"} \subseteq Stages /\ {"EarlyFragmentTests"} \subseteq Stages
      /\ {"LateFragmentTests"} \subseteq Stages /\ {} \subseteq Accesses
      /\ {"ShaderRead"} \subseteq Accesses /\ {"DepthWrite"} \subseteq Accesses
  BY Masks DEF Accesses
<1>2. Covers(ShadowBegin, {"FragmentShader"}, {"ShaderRead"}, {"EarlyFragmentTests"}, {"DepthWrite"})
  BY <1>1, Scopes DEF ShadowBegin
<1>3. Covers(ShadowEnd, {"LateFragmentTests"}, {"DepthWrite"}, {"FragmentShader"}, {"ShaderRead"})
  BY <1>1, Scopes DEF ShadowEnd
<1>4. Covers(Dependency({"FragmentShader"}, {}, {"FragmentShader"}, {"ShaderRead"}),
             {"FragmentShader"}, {}, {"FragmentShader"}, {"ShaderRead"})
  BY <1>1, Scopes
<1> QED
  BY <1>2, <1>3, <1>4

\* What attachments are ordered by, from outside a render pass and to outside.
LEMMA RasterDependencies ==
  /\ Covers(buildExternalColorDepthDependency,
            {"ColorAttachmentOutput", "EarlyFragmentTests", "LateFragmentTests"}, {"ColorWrite", "DepthWrite"},
            {"ColorAttachmentOutput", "EarlyFragmentTests"}, {"ColorWrite", "DepthWrite"})
  /\ Covers(buildExternalColorDependency,
            {"ColorAttachmentOutput"}, {"ColorWrite"}, {"ColorAttachmentOutput"}, {"ColorWrite"})
  /\ Covers(ImplicitFirst, {}, {}, AllCommands, AttachmentAccesses)
  /\ Covers(ImplicitLast, AllCommands, AttachmentAccesses, {"BottomOfPipe"}, {})
  /\ Covers(GeometryToLighting,
            {"ColorAttachmentOutput", "EarlyFragmentTests", "LateFragmentTests"}, {"ColorWrite", "DepthWrite"},
            {"FragmentShader", "ColorAttachmentOutput", "EarlyFragmentTests", "LateFragmentTests"},
            {"InputRead", "ColorWrite", "DepthWrite"})
  /\ Covers(LightingToExternal,
            {"ColorAttachmentOutput", "LateFragmentTests"}, {"ColorRead", "ColorWrite", "DepthWrite"},
            {"BottomOfPipe"}, {"MemoryRead"})
<1>1. /\ {"ColorAttachmentOutput", "EarlyFragmentTests", "LateFragmentTests"} \subseteq Stages
      /\ {"ColorAttachmentOutput", "EarlyFragmentTests"} \subseteq Stages
      /\ {"ColorAttachmentOutput", "LateFragmentTests"} \subseteq Stages
      /\ {"FragmentShader", "ColorAttachmentOutput", "EarlyFragmentTests", "LateFragmentTests"} \subseteq Stages
      /\ {"ColorAttachmentOutput"} \subseteq Stages /\ {"BottomOfPipe"} \subseteq Stages
      /\ AllCommands \subseteq Stages /\ {} \subseteq Stages
  BY Masks
<1>2. /\ {"ColorWrite", "DepthWrite"} \subseteq Accesses /\ {"ColorWrite"} \subseteq Accesses
      /\ {"InputRead", "ColorWrite", "DepthWrite"} \subseteq Accesses
      /\ {"ColorRead", "ColorWrite", "DepthWrite"} \subseteq Accesses
      /\ {"MemoryRead"} \subseteq Accesses /\ {} \subseteq Accesses /\ AttachmentAccesses \subseteq Accesses
  BY Masks DEF Accesses
<1>3. Covers(buildExternalColorDepthDependency,
             {"ColorAttachmentOutput", "EarlyFragmentTests", "LateFragmentTests"}, {"ColorWrite", "DepthWrite"},
             {"ColorAttachmentOutput", "EarlyFragmentTests"}, {"ColorWrite", "DepthWrite"})
  BY <1>1, <1>2, Scopes DEF buildExternalColorDepthDependency
<1>4. Covers(buildExternalColorDependency,
             {"ColorAttachmentOutput"}, {"ColorWrite"}, {"ColorAttachmentOutput"}, {"ColorWrite"})
  BY <1>1, <1>2, Scopes DEF buildExternalColorDependency
<1>5. Covers(ImplicitFirst, {}, {}, AllCommands, AttachmentAccesses)
  BY <1>1, <1>2, Scopes DEF ImplicitFirst
<1>6. Covers(ImplicitLast, AllCommands, AttachmentAccesses, {"BottomOfPipe"}, {})
  BY <1>1, <1>2, Scopes DEF ImplicitLast
<1>7. Covers(GeometryToLighting,
             {"ColorAttachmentOutput", "EarlyFragmentTests", "LateFragmentTests"}, {"ColorWrite", "DepthWrite"},
             {"FragmentShader", "ColorAttachmentOutput", "EarlyFragmentTests", "LateFragmentTests"},
             {"InputRead", "ColorWrite", "DepthWrite"})
  BY <1>1, <1>2, Scopes DEF GeometryToLighting
<1>8. Covers(LightingToExternal,
             {"ColorAttachmentOutput", "LateFragmentTests"}, {"ColorRead", "ColorWrite", "DepthWrite"},
             {"BottomOfPipe"}, {"MemoryRead"})
  BY <1>1, <1>2, Scopes DEF LightingToExternal
<1> QED
  BY <1>3, <1>4, <1>5, <1>6, <1>7, <1>8

(***************************************************************************)
(* The passes.                                                             *)
(***************************************************************************)
\* clouds: the shader stores, then the post stage may read.
LEMMA CloudsRecorded ==
  ASSUME NEW p, NEW run, Typed(run), CloudsOrdered(run.images["cloudOutput"])
  PROVE  /\ Clean(run, Perform(p, run, CloudPass), {"cloudOutput"})
         /\ CloudsOrdered(Perform(p, run, CloudPass).images["cloudOutput"])
<1> DEFINE i  == "cloudOutput"
           u  == Writes(i, "General", "ComputeShader", "ShaderWrite")
           s1 == GeneralBarrier(CloudsBefore, i, {u})
           s2 == GeneralBarrier(CloudsAfter, i, {})
<1>1. i \in Images /\ u \in Uses
  BY Masks DEF Images, SharedImages, Writes, Use, Uses, Layouts, Accesses
<1>2. /\ s1 \in Steps /\ s1.dependency = CloudsBefore /\ s1.memory = {i} /\ s1.moves = {} /\ s1.uses = {u}
      /\ s2 \in Steps /\ s2.dependency = CloudsAfter /\ s2.memory = {i} /\ s2.moves = {} /\ s2.uses = {}
  BY <1>1, CloudsDependencies DEF GeneralBarrier, Step, Steps
<1>3. /\ u.image = i /\ u.layout = "General" /\ u.first = "ComputeShader" /\ u.last = "ComputeShader"
      /\ u.access = "ShaderWrite" /\ u.access \in Writing
  BY DEF Writes, Use, Writing
<1>4. CloudPass = << s1, s2 >>
  BY DEF CloudPass
<1> HIDE DEF u, s1, s2
<1>5. /\ MovesOf(s1, i) = {} /\ UsesOf(s1, i) = {u} /\ MovesOf(s2, i) = {} /\ UsesOf(s2, i) = {}
      /\ Only(s1, {i}) /\ Only(s2, {i})
  BY <1>2, <1>3 DEF MovesOf, UsesOf, Only
<1>6. PICK r, end : Runs(p, run, s1, r) /\ Runs(p, r, s2, end) /\ end = Perform(p, run, CloudPass)
  BY <1>2, <1>4, RunsTwo
<1>7. PICK image, ready : image = run.images[i] /\ ready = Ready(run, s1, i)
  OBVIOUS
<1>8. ready \in ImageRecords /\ Followed(image, ready, CloudsBefore)
  BY <1>1, <1>2, <1>5, <1>7, ReadyKept, ReadyFollows DEF Typed
<1>9. /\ ready.layout = "General"
      /\ \A x \in ready.writes : << "ComputeShader", "ShaderWrite" >> \in x.visible
      /\ \A x \in ready.reads : "ComputeShader" \in x.after
  <2>1. \A w \in image.writes : Chained(w, CloudsBefore) /\ MadeAvailable(w, CloudsBefore)
    BY <1>7, CloudsDependencies DEF CloudsOrdered, Chained, MadeAvailable
  <2>2. \A x \in image.reads : Chained(x, CloudsBefore)
    BY <1>7, CloudsDependencies DEF CloudsOrdered, Chained
  <2> QED
    BY <1>7, <1>8, <2>1, <2>2, CloudsDependencies DEF CloudsOrdered, Followed
<1>10. SafeStep(run, s1) /\ SafeStep(r, s2)
  BY <1>2, <1>3, <1>7, <1>9 DEF SafeStep, SafeUse
<1>11. Clean(run, r, {i}) /\ Clean(r, end, {i})
  BY <1>5, <1>6, <1>10, RunsClean
<1>12. Written(r.images[i], "General", "ComputeShader", "ShaderWrite")
  BY <1>1, <1>3, <1>5, <1>6, <1>7, <1>8, <1>9, RunsWrites
<1>13. CloudsOrdered(end.images[i])
  <2>1. Followed(r.images[i], end.images[i], CloudsAfter)
    BY <1>1, <1>2, <1>5, <1>6, RunsFollows
  <2>2. \A w \in r.images[i].writes : Chained(w, CloudsAfter) /\ MadeAvailable(w, CloudsAfter)
    BY <1>12, CloudsDependencies DEF Written, Chained, MadeAvailable
  <2>3. r.images[i].reads = {} /\ r.images[i].layout = "General"
    BY <1>12 DEF Written
  <2> QED
    BY <2>1, <2>2, <2>3, CloudsDependencies DEF CloudsOrdered, Followed
<1> QED
  BY <1>6, <1>11, <1>13, CleanTwice

\* shadows: the fragment shaders of the frame before are done with the map, the
\* depth is written, then they may read again.
LEMMA ShadowsRecorded ==
  ASSUME NEW p, NEW run, Typed(run), ShadowsOrdered(run.images["shadowMap"])
  PROVE  /\ Clean(run, Perform(p, run, ShadowPass), {"shadowMap"})
         /\ ShadowsOrdered(Perform(p, run, ShadowPass).images["shadowMap"])
         /\ Sampleable(Perform(p, run, ShadowPass).images["shadowMap"])
<1> DEFINE i  == "shadowMap"
           m1 == Move(i, "Undefined", "DepthAttachment")
           u  == Use(i, "DepthAttachment", "EarlyFragmentTests", "LateFragmentTests", "DepthWrite")
           m2 == Move(i, "DepthAttachment", "ShaderReadOnly")
           s1 == Begin(ShadowBegin, {m1}, {u})
           s2 == End(ShadowEnd, {m2})
<1>1. i \in Images /\ u \in Uses /\ m1 \in Moves /\ m2 \in Moves
  BY Masks DEF Images, SharedImages, Use, Uses, Move, Moves, Layouts, Accesses
<1>2. ShadowBegin \in Dependencies /\ ShadowEnd \in Dependencies
  BY ShadowDependencies DEF Covers
<1>3. /\ s1 \in Steps /\ s1.dependency = ShadowBegin /\ s1.moves = {m1} /\ s1.uses = {u}
      /\ s2 \in Steps /\ s2.dependency = ShadowEnd /\ s2.moves = {m2} /\ s2.uses = {}
  BY <1>1, <1>2 DEF Begin, End, Step, Steps
<1>4. /\ m1.image = i /\ m1.from = "Undefined" /\ m1.to = "DepthAttachment"
      /\ m2.image = i /\ m2.from = "DepthAttachment" /\ m2.to = "ShaderReadOnly"
      /\ u.image = i /\ u.layout = "DepthAttachment" /\ u.first = "EarlyFragmentTests"
      /\ u.last = "LateFragmentTests" /\ u.access = "DepthWrite" /\ u.access \in Writing
  BY DEF Move, Use, Writing
<1>5. ShadowPass = << s1, s2 >>
  BY DEF ShadowPass
<1> HIDE DEF u, m1, m2, s1, s2
<1>6. /\ MovesOf(s1, i) = {m1} /\ UsesOf(s1, i) = {u} /\ MovesOf(s2, i) = {m2} /\ UsesOf(s2, i) = {}
      /\ Only(s1, {i}) /\ Only(s2, {i})
  BY <1>3, <1>4 DEF MovesOf, UsesOf, Only
<1>7. PICK r, end : Runs(p, run, s1, r) /\ Runs(p, r, s2, end) /\ end = Perform(p, run, ShadowPass)
  BY <1>3, <1>5, RunsTwo
<1>8. PICK ready : ready = Ready(run, s1, i)
  OBVIOUS
<1>9. ready \in ImageRecords /\ Moved(ready, ShadowBegin, "DepthAttachment")
  BY <1>1, <1>3, <1>4, <1>6, <1>8, ReadyMoved
<1>10. SafeStep(run, s1)
  <2>1. SafeMove(run.images[i], m1, ShadowBegin)
    BY <1>4, ShadowDependencies DEF ShadowsOrdered, SafeMove, Chained, Covers
  <2>2. SafeUse(ready, u)
    BY <1>4, <1>9, ShadowDependencies DEF Moved, SafeUse, Covers
  <2> QED
    BY <1>3, <1>4, <1>8, <2>1, <2>2 DEF SafeStep
<1>11. Written(r.images[i], "DepthAttachment", "LateFragmentTests", "DepthWrite")
  <2>1. ready.layout = "DepthAttachment"
    BY <1>9 DEF Moved
  <2> QED
    BY <1>1, <1>4, <1>6, <1>7, <1>8, <1>9, <2>1, RunsWrites
<1>12. SafeStep(r, s2)
  <2>1. SafeMove(r.images[i], m2, ShadowEnd)
    BY <1>4, <1>11, ShadowDependencies DEF Written, SafeMove, Chained, MadeAvailable, Covers
  <2> QED
    BY <1>3, <1>4, <2>1 DEF SafeStep
<1>13. Clean(run, r, {i}) /\ Clean(r, end, {i})
  BY <1>6, <1>7, <1>10, <1>12, RunsClean
<1>14. Moved(end.images[i], ShadowEnd, "ShaderReadOnly")
  BY <1>1, <1>3, <1>4, <1>6, <1>7, RunsMoves
<1>15. ShadowsOrdered(end.images[i]) /\ Sampleable(end.images[i])
  BY <1>14, ShadowDependencies DEF Moved, ShadowsOrdered, Sampleable, Covers
<1> QED
  BY <1>7, <1>13, <1>15, CleanTwice

\* A pass that is skipped still puts the map into the layout it is sampled in.
LEMMA SkippedShadowsRecorded ==
  ASSUME NEW p, NEW run, Typed(run), ShadowsOrdered(run.images["shadowMap"])
  PROVE  /\ Clean(run, Perform(p, run, SkippedShadowPass), {"shadowMap"})
         /\ ShadowsOrdered(Perform(p, run, SkippedShadowPass).images["shadowMap"])
         /\ Sampleable(Perform(p, run, SkippedShadowPass).images["shadowMap"])
<1> DEFINE i == "shadowMap"
           d == Dependency({"FragmentShader"}, {}, {"FragmentShader"}, {"ShaderRead"})
           m == Move(i, "Undefined", "ShaderReadOnly")
           s == ImageBarrier(d, m, {})
<1>1. i \in Images /\ m \in Moves /\ m.image = i /\ m.from = "Undefined" /\ m.to = "ShaderReadOnly"
  BY DEF Images, SharedImages, Move, Moves, Layouts
<1>2. Covers(d, {"FragmentShader"}, {}, {"FragmentShader"}, {"ShaderRead"}) /\ d \in Dependencies
  BY ShadowDependencies DEF Covers
<1>3. SkippedShadowPass = << s >>
  BY DEF SkippedShadowPass
<1> HIDE DEF d, m
<1>4. s \in Steps /\ s.dependency = d /\ s.moves = {m} /\ s.uses = {}
  BY <1>1, <1>2 DEF ImageBarrier, Step, Steps
<1> HIDE DEF s
<1>5. MovesOf(s, i) = {m} /\ UsesOf(s, i) = {} /\ Only(s, {i})
  BY <1>1, <1>4 DEF MovesOf, UsesOf, Only
<1>6. PICK end : Runs(p, run, s, end) /\ end = Perform(p, run, SkippedShadowPass)
  BY <1>3, <1>4, RunsOne
<1>7. SafeMove(run.images[i], m, d)
  BY <1>1, <1>2 DEF ShadowsOrdered, SafeMove, Chained, Covers
<1>8. SafeStep(run, s)
  BY <1>1, <1>4, <1>7 DEF SafeStep
<1>9. Clean(run, end, {i})
  BY <1>5, <1>6, <1>8, RunsClean
<1>10. Moved(end.images[i], d, "ShaderReadOnly")
  BY <1>1, <1>4, <1>5, <1>6, RunsMoves
<1>11. ShadowsOrdered(end.images[i]) /\ Sampleable(end.images[i])
  BY <1>2, <1>10 DEF Moved, ShadowsOrdered, Sampleable, Covers
<1> QED
  BY <1>6, <1>9, <1>11

\* Sampling the shadow map in a raster pass.
LEMMA ShadowsSampled ==
  ASSUME NEW p, NEW a, NEW step, NEW b, Runs(p, a, step, b),
         MovesOf(step, "shadowMap") = {}, UsesOf(step, "shadowMap") = {SamplesShadows},
         ShadowsOrdered(a.images["shadowMap"]), Sampleable(a.images["shadowMap"])
  PROVE  /\ SafeUse(Ready(a, step, "shadowMap"), SamplesShadows)
         /\ ShadowsOrdered(b.images["shadowMap"])
<1> DEFINE i == "shadowMap"
<1>1. /\ SamplesShadows.layout = "ShaderReadOnly" /\ SamplesShadows.first = "FragmentShader"
      /\ SamplesShadows.last = "FragmentShader" /\ SamplesShadows.access = "ShaderRead"
      /\ SamplesShadows.access \notin Writing /\ i \in Images
  BY DEF SamplesShadows, Reads, Use, Writing, Images, SharedImages
<1>2. PICK ready : ready = Ready(a, step, i)
  OBVIOUS
<1>3. ready \in ImageRecords /\ Grew(a.images[i], ready)
  BY <1>1, <1>2, ReadyKept DEF Runs, Typed
<1>4. ShadowsOrdered(ready) /\ Sampleable(ready)
  BY <1>3, OrderedGrows, StateGrows
<1>5. SafeUse(ready, SamplesShadows)
  BY <1>1, <1>4 DEF SafeUse, Sampleable
<1>6. /\ b.images[i].writes = ready.writes
      /\ \A r \in b.images[i].reads : r \in ready.reads \/ r.stage = "FragmentShader"
  BY <1>1, <1>2, <1>3, RunsReads
<1>7. ShadowsOrdered(b.images[i])
  BY <1>4, <1>6 DEF ShadowsOrdered
<1> QED
  BY <1>2, <1>5, <1>7

\* raster, forward: the depth of the frames before is done with, the result is
\* left for the post stage.
LEMMA ForwardRecorded ==
  ASSUME NEW p, NEW run, Typed(run), ForwardDepthOrdered(run.images["forwardDepth"]),
         ShadowsOrdered(run.images["shadowMap"]), Sampleable(run.images["shadowMap"]),
         Untouched(run.images["offscreen"])
  PROVE  LET end == Perform(p, run, ForwardPass)
         IN  /\ Clean(run, end, {"offscreen", "forwardDepth", "shadowMap"})
             /\ ForwardDepthOrdered(end.images["forwardDepth"]) /\ ShadowsOrdered(end.images["shadowMap"])
             /\ end.images["offscreen"].layout = "ShaderReadOnly"
<1> DEFINE o  == "offscreen"
           z  == "forwardDepth"
           mo == Move(o, "Undefined", "ColorAttachment")
           mz == Move(z, "Undefined", "DepthAttachment")
           uo == Writes(o, "ColorAttachment", "ColorAttachmentOutput", "ColorWrite")
           uz == Use(z, "DepthAttachment", "EarlyFragmentTests", "LateFragmentTests", "DepthWrite")
           me == Move(o, "ColorAttachment", "ShaderReadOnly")
           d  == buildExternalColorDepthDependency
           s1 == Begin(d, {mo, mz}, {uo, uz, SamplesShadows})
           s2 == End(ImplicitLast, {me})
           touched == {o, z, "shadowMap"}
<1>1. /\ o \in Images /\ z \in Images /\ "shadowMap" \in Images /\ mo \in Moves /\ mz \in Moves /\ me \in Moves
      /\ uo \in Uses /\ uz \in Uses /\ SamplesShadows \in Uses
  BY Masks DEF Images, SharedImages, PerImage, SamplesShadows, Reads, Writes, Use, Uses, Move, Moves, Layouts, Accesses
<1>2. d \in Dependencies /\ ImplicitLast \in Dependencies
  BY RasterDependencies DEF Covers
<1>3. /\ s1 \in Steps /\ s1.dependency = d /\ s1.moves = {mo, mz} /\ s1.uses = {uo, uz, SamplesShadows}
      /\ s2 \in Steps /\ s2.dependency = ImplicitLast /\ s2.moves = {me} /\ s2.uses = {}
  BY <1>1, <1>2 DEF Begin, End, Step, Steps
<1>4. /\ mo.image = o /\ mo.from = "Undefined" /\ mo.to = "ColorAttachment"
      /\ mz.image = z /\ mz.from = "Undefined" /\ mz.to = "DepthAttachment"
      /\ me.image = o /\ me.from = "ColorAttachment" /\ me.to = "ShaderReadOnly"
      /\ uo.image = o /\ uo.layout = "ColorAttachment" /\ uo.first = "ColorAttachmentOutput"
      /\ uo.last = "ColorAttachmentOutput" /\ uo.access = "ColorWrite" /\ uo.access \in Writing
      /\ uz.image = z /\ uz.layout = "DepthAttachment" /\ uz.first = "EarlyFragmentTests"
      /\ uz.last = "LateFragmentTests" /\ uz.access = "DepthWrite" /\ uz.access \in Writing
      /\ SamplesShadows.image = "shadowMap"
  BY DEF Move, Writes, SamplesShadows, Reads, Use, Writing
<1>5. ForwardPass = << s1, s2 >>
  BY DEF ForwardPass, ForwardSubpass
<1> HIDE DEF mo, mz, me, uo, uz, s1, s2, d
<1>6. /\ MovesOf(s1, o) = {mo} /\ UsesOf(s1, o) = {uo} /\ MovesOf(s1, z) = {mz} /\ UsesOf(s1, z) = {uz}
      /\ MovesOf(s1, "shadowMap") = {} /\ UsesOf(s1, "shadowMap") = {SamplesShadows}
      /\ MovesOf(s2, o) = {me} /\ UsesOf(s2, o) = {} /\ MovesOf(s2, z) = {} /\ UsesOf(s2, z) = {}
      /\ MovesOf(s2, "shadowMap") = {} /\ UsesOf(s2, "shadowMap") = {}
      /\ Only(s1, touched) /\ Only(s2, touched)
  BY <1>3, <1>4 DEF MovesOf, UsesOf, Only
<1>7. PICK r, end : Runs(p, run, s1, r) /\ Runs(p, r, s2, end) /\ end = Perform(p, run, ForwardPass)
  BY <1>3, <1>5, RunsTwo
<1>8. PICK ro, rz : ro = Ready(run, s1, o) /\ rz = Ready(run, s1, z)
  OBVIOUS
<1>9. /\ ro \in ImageRecords /\ Moved(ro, d, "ColorAttachment") /\ ro.layout = "ColorAttachment"
      /\ rz \in ImageRecords /\ Moved(rz, d, "DepthAttachment") /\ rz.layout = "DepthAttachment"
  <2>1. ro \in ImageRecords /\ Moved(ro, d, "ColorAttachment")
    BY <1>1, <1>3, <1>4, <1>6, <1>8, ReadyMoved
  <2>2. rz \in ImageRecords /\ Moved(rz, d, "DepthAttachment")
    BY <1>1, <1>3, <1>4, <1>6, <1>8, ReadyMoved
  <2> QED
    BY <2>1, <2>2 DEF Moved
<1>10. SafeUse(Ready(run, s1, "shadowMap"), SamplesShadows) /\ ShadowsOrdered(r.images["shadowMap"])
  BY <1>6, <1>7, ShadowsSampled
<1>11. SafeStep(run, s1)
  <2>1. SafeMove(run.images[o], mo, d)
    BY <1>4 DEF Untouched, SafeMove
  <2>2. SafeMove(run.images[z], mz, d)
    BY <1>4, RasterDependencies DEF ForwardDepthOrdered, SafeMove, Chained, MadeAvailable, Covers, d
  <2>3. SafeUse(ro, uo) /\ SafeUse(rz, uz)
    BY <1>4, <1>9, RasterDependencies DEF Moved, SafeUse, Covers, d
  <2> QED
    BY <1>3, <1>4, <1>8, <1>10, <2>1, <2>2, <2>3 DEF SafeStep
<1>12. Written(r.images[o], "ColorAttachment", "ColorAttachmentOutput", "ColorWrite")
  BY <1>1, <1>4, <1>6, <1>7, <1>8, <1>9, RunsWrites
<1>13. Written(r.images[z], "DepthAttachment", "LateFragmentTests", "DepthWrite")
  BY <1>1, <1>4, <1>6, <1>7, <1>8, <1>9, RunsWrites
<1>14. SafeStep(r, s2)
  <2>1. SafeMove(r.images[o], me, ImplicitLast)
    BY <1>4, <1>12, RasterDependencies, Masks DEF Written, SafeMove, Chained, MadeAvailable, Covers, AttachmentAccesses
  <2> QED
    BY <1>3, <1>4, <2>1 DEF SafeStep
<1>15. Clean(run, r, touched) /\ Clean(r, end, touched)
  BY <1>6, <1>7, <1>11, <1>14, RunsClean
<1>16. end.images[o].layout = "ShaderReadOnly"
  BY <1>1, <1>4, <1>6, <1>7, RunsMoves DEF Moved
<1>17. ForwardDepthOrdered(end.images[z]) /\ ShadowsOrdered(end.images["shadowMap"])
  <2>1. Grew(r.images[z], end.images[z]) /\ Grew(r.images["shadowMap"], end.images["shadowMap"])
    BY <1>1, <1>6, <1>7, RunsGrows
  <2>2. ForwardDepthOrdered(r.images[z])
    BY <1>13 DEF Written, ForwardDepthOrdered
  <2> QED
    BY <1>10, <2>1, <2>2, OrderedGrows
<1> QED
  BY <1>7, <1>15, <1>16, <1>17, CleanTwice

\* raster, deferred: the geometry subpass fills the G-buffer, the lighting
\* subpass reads it and stores what it read, the result is left for the post
\* stage.
LEMMA DeferredRecorded ==
  ASSUME NEW p, NEW run, Typed(run), DeferredDepthOrdered(run.images["deferredDepth"]),
         ShadowsOrdered(run.images["shadowMap"]), Sampleable(run.images["shadowMap"]),
         Untouched(run.images["offscreen"]), Untouched(run.images["gBuffer"])
  PROVE  LET end == Perform(p, run, DeferredPass)
         IN  /\ Clean(run, end, {"offscreen", "gBuffer", "deferredDepth", "shadowMap"})
             /\ DeferredDepthOrdered(end.images["deferredDepth"]) /\ ShadowsOrdered(end.images["shadowMap"])
             /\ end.images["offscreen"].layout = "ShaderReadOnly"
<1> DEFINE o   == "offscreen"
           b   == "gBuffer"
           z   == "deferredDepth"
           h   == "shadowMap"
           mb1 == Move(b, "Undefined", "ColorAttachment")
           mz1 == Move(z, "Undefined", "DepthAttachment")
           ub1 == Writes(b, "ColorAttachment", "ColorAttachmentOutput", "ColorWrite")
           uz1 == Use(z, "DepthAttachment", "EarlyFragmentTests", "LateFragmentTests", "DepthWrite")
           mo2 == Move(o, "Undefined", "ColorAttachment")
           mb3 == Move(b, "ColorAttachment", "ShaderReadOnly")
           mz3 == Move(z, "DepthAttachment", "ShaderReadOnly")
           uo3 == Writes(o, "ColorAttachment", "ColorAttachmentOutput", "ColorWrite")
           rb3 == Reads(b, "ShaderReadOnly", "FragmentShader", "InputRead")
           ub3 == Writes(b, "ShaderReadOnly", "ColorAttachmentOutput", "ColorWrite")
           rz3 == Reads(z, "ShaderReadOnly", "FragmentShader", "InputRead")
           uz3 == Writes(z, "ShaderReadOnly", "LateFragmentTests", "DepthWrite")
           mo4 == Move(o, "ColorAttachment", "ShaderReadOnly")
           mz4 == Move(z, "ShaderReadOnly", "DepthAttachment")
           d   == buildExternalColorDepthDependency
           s1  == Begin(d, {mb1, mz1}, {ub1, uz1})
           s2  == Begin(ImplicitFirst, {mo2}, {})
           s3  == Begin(GeometryToLighting, {mb3, mz3}, {uo3, rb3, ub3, rz3, uz3, SamplesShadows})
           s4  == End(LightingToExternal, {mo4, mz4})
           touched == {o, b, z, h}
<1>1. /\ o \in Images /\ b \in Images /\ z \in Images /\ h \in Images
      /\ mb1 \in Moves /\ mz1 \in Moves /\ mo2 \in Moves /\ mb3 \in Moves /\ mz3 \in Moves
      /\ mo4 \in Moves /\ mz4 \in Moves
  BY DEF Images, SharedImages, PerImage, Move, Moves, Layouts
<1>2. /\ ub1 \in Uses /\ uz1 \in Uses /\ uo3 \in Uses /\ rb3 \in Uses /\ ub3 \in Uses
      /\ rz3 \in Uses /\ uz3 \in Uses /\ SamplesShadows \in Uses
  BY Masks DEF Images, SharedImages, PerImage, SamplesShadows, Reads, Writes, Use, Uses, Layouts, Accesses
<1>3. /\ d \in Dependencies /\ ImplicitFirst \in Dependencies
      /\ GeometryToLighting \in Dependencies /\ LightingToExternal \in Dependencies
  BY RasterDependencies DEF Covers
<1>4. /\ s1 \in Steps /\ s1.dependency = d /\ s1.moves = {mb1, mz1} /\ s1.uses = {ub1, uz1}
      /\ s2 \in Steps /\ s2.dependency = ImplicitFirst /\ s2.moves = {mo2} /\ s2.uses = {}
      /\ s3 \in Steps /\ s3.dependency = GeometryToLighting /\ s3.moves = {mb3, mz3}
      /\ s3.uses = {uo3, rb3, ub3, rz3, uz3, SamplesShadows}
      /\ s4 \in Steps /\ s4.dependency = LightingToExternal /\ s4.moves = {mo4, mz4} /\ s4.uses = {}
  <2> HIDE DEF mb1, mz1, mo2, mb3, mz3, mo4, mz4, ub1, uz1, uo3, rb3, ub3, rz3, uz3, d
  <2> QED
    BY <1>1, <1>2, <1>3 DEF Begin, End, Step, Steps
<1>5. /\ mb1.image = b /\ mb1.from = "Undefined" /\ mb1.to = "ColorAttachment"
      /\ mz1.image = z /\ mz1.from = "Undefined" /\ mz1.to = "DepthAttachment"
      /\ mo2.image = o /\ mo2.from = "Undefined" /\ mo2.to = "ColorAttachment"
      /\ mb3.image = b /\ mb3.from = "ColorAttachment" /\ mb3.to = "ShaderReadOnly"
      /\ mz3.image = z /\ mz3.from = "DepthAttachment" /\ mz3.to = "ShaderReadOnly"
      /\ mo4.image = o /\ mo4.from = "ColorAttachment" /\ mo4.to = "ShaderReadOnly"
      /\ mz4.image = z /\ mz4.from = "ShaderReadOnly" /\ mz4.to = "DepthAttachment"
  BY DEF Move
<1>6. /\ ub1.image = b /\ ub1.layout = "ColorAttachment" /\ ub1.first = "ColorAttachmentOutput"
      /\ ub1.last = "ColorAttachmentOutput" /\ ub1.access = "ColorWrite"
      /\ uz1.image = z /\ uz1.layout = "DepthAttachment" /\ uz1.first = "EarlyFragmentTests"
      /\ uz1.last = "LateFragmentTests" /\ uz1.access = "DepthWrite"
      /\ uo3.image = o /\ uo3.layout = "ColorAttachment" /\ uo3.first = "ColorAttachmentOutput"
      /\ uo3.last = "ColorAttachmentOutput" /\ uo3.access = "ColorWrite"
      /\ rb3.image = b /\ rb3.layout = "ShaderReadOnly" /\ rb3.first = "FragmentShader" /\ rb3.access = "InputRead"
      /\ ub3.image = b /\ ub3.layout = "ShaderReadOnly" /\ ub3.first = "ColorAttachmentOutput"
      /\ ub3.last = "ColorAttachmentOutput" /\ ub3.access = "ColorWrite"
      /\ rz3.image = z /\ rz3.layout = "ShaderReadOnly" /\ rz3.first = "FragmentShader" /\ rz3.access = "InputRead"
      /\ uz3.image = z /\ uz3.layout = "ShaderReadOnly" /\ uz3.first = "LateFragmentTests"
      /\ uz3.last = "LateFragmentTests" /\ uz3.access = "DepthWrite"
      /\ SamplesShadows.image = h
      /\ "ColorWrite" \in Writing /\ "DepthWrite" \in Writing /\ "InputRead" \notin Writing
  BY DEF SamplesShadows, Reads, Writes, Use, Writing
<1>7. DeferredPass = << s1, s2, s3, s4 >>
  BY DEF DeferredPass, GeometrySubpass, LightingSubpass
<1> HIDE DEF mb1, mz1, mo2, mb3, mz3, mo4, mz4, ub1, uz1, uo3, rb3, ub3, rz3, uz3, d, s1, s2, s3, s4
<1>8. /\ MovesOf(s1, b) = {mb1} /\ UsesOf(s1, b) = {ub1} /\ MovesOf(s1, z) = {mz1} /\ UsesOf(s1, z) = {uz1}
      /\ MovesOf(s1, o) = {} /\ UsesOf(s1, o) = {} /\ MovesOf(s1, h) = {} /\ UsesOf(s1, h) = {}
      /\ MovesOf(s2, o) = {mo2} /\ UsesOf(s2, o) = {}
      /\ MovesOf(s2, b) = {} /\ UsesOf(s2, b) = {} /\ MovesOf(s2, z) = {} /\ UsesOf(s2, z) = {}
      /\ MovesOf(s2, h) = {} /\ UsesOf(s2, h) = {}
      /\ Only(s1, touched) /\ Only(s2, touched)
  BY <1>4, <1>5, <1>6 DEF MovesOf, UsesOf, Only
<1>9. /\ MovesOf(s3, b) = {mb3} /\ UsesOf(s3, b) = {rb3, ub3} /\ MovesOf(s3, z) = {mz3} /\ UsesOf(s3, z) = {rz3, uz3}
      /\ MovesOf(s3, o) = {} /\ UsesOf(s3, o) = {uo3}
      /\ MovesOf(s3, h) = {} /\ UsesOf(s3, h) = {SamplesShadows}
      /\ Only(s3, touched)
  BY <1>4, <1>5, <1>6 DEF MovesOf, UsesOf, Only
<1>10. /\ MovesOf(s4, o) = {mo4} /\ UsesOf(s4, o) = {} /\ MovesOf(s4, z) = {mz4} /\ UsesOf(s4, z) = {}
       /\ MovesOf(s4, h) = {} /\ UsesOf(s4, h) = {} /\ Only(s4, touched)
  BY <1>4, <1>5, <1>6 DEF MovesOf, UsesOf, Only
<1>11. PICK r1, r2, r3, end :
         /\ Runs(p, run, s1, r1) /\ Runs(p, r1, s2, r2) /\ Runs(p, r2, s3, r3) /\ Runs(p, r3, s4, end)
         /\ end = Perform(p, run, DeferredPass)
  BY <1>4, <1>7, RunsFour
\* The geometry subpass.
<1>12. PICK b1, z1 : b1 = Ready(run, s1, b) /\ z1 = Ready(run, s1, z)
  OBVIOUS
<1>13. b1 \in ImageRecords /\ Moved(b1, d, "ColorAttachment") /\ b1.layout = "ColorAttachment"
  <2>1. b1 \in ImageRecords /\ Moved(b1, d, "ColorAttachment")
    BY <1>1, <1>4, <1>5, <1>8, <1>12, ReadyMoved
  <2> QED
    BY <2>1 DEF Moved
<1>14. z1 \in ImageRecords /\ Moved(z1, d, "DepthAttachment") /\ z1.layout = "DepthAttachment"
  <2>1. z1 \in ImageRecords /\ Moved(z1, d, "DepthAttachment")
    BY <1>1, <1>4, <1>5, <1>8, <1>12, ReadyMoved
  <2> QED
    BY <2>1 DEF Moved
<1>15. SafeStep(run, s1)
  <2>1. SafeMove(run.images[b], mb1, d) /\ SafeMove(run.images[z], mz1, d)
    BY <1>5 DEF Untouched, DeferredDepthOrdered, SafeMove
  <2>2. SafeUse(b1, ub1) /\ SafeUse(z1, uz1)
    BY <1>6, <1>13, <1>14, RasterDependencies DEF Moved, SafeUse, Covers, d
  <2> QED
    BY <1>4, <1>5, <1>6, <1>12, <2>1, <2>2 DEF SafeStep
<1>16. Written(r1.images[b], "ColorAttachment", "ColorAttachmentOutput", "ColorWrite")
  BY <1>1, <1>6, <1>8, <1>11, <1>12, <1>13, RunsWrites
<1>17. Written(r1.images[z], "DepthAttachment", "LateFragmentTests", "DepthWrite")
  BY <1>1, <1>6, <1>8, <1>11, <1>12, <1>14, RunsWrites
<1>18. Untouched(r1.images[o]) /\ ShadowsOrdered(r1.images[h]) /\ Sampleable(r1.images[h])
  <2>1. Grew(run.images[o], r1.images[o]) /\ Grew(run.images[h], r1.images[h])
    BY <1>1, <1>8, <1>11, RunsGrows
  <2> QED
    BY <2>1, OrderedGrows, StateGrows
\* The result is moved by the implicit dependency.
<1>19. SafeStep(r1, s2)
  <2>1. SafeMove(r1.images[o], mo2, ImplicitFirst)
    BY <1>5, <1>18 DEF Untouched, SafeMove
  <2> QED
    BY <1>4, <1>5, <2>1 DEF SafeStep
<1>20. Moved(r2.images[o], ImplicitFirst, "ColorAttachment")
  BY <1>1, <1>4, <1>5, <1>8, <1>11, RunsMoves
<1>21. /\ Written(r2.images[b], "ColorAttachment", "ColorAttachmentOutput", "ColorWrite")
       /\ Written(r2.images[z], "DepthAttachment", "LateFragmentTests", "DepthWrite")
       /\ ShadowsOrdered(r2.images[h]) /\ Sampleable(r2.images[h])
  <2>1. /\ Grew(r1.images[b], r2.images[b]) /\ Grew(r1.images[z], r2.images[z])
        /\ Grew(r1.images[h], r2.images[h])
    BY <1>1, <1>8, <1>11, RunsGrows
  <2> QED
    BY <1>16, <1>17, <1>18, <2>1, OrderedGrows, StateGrows
\* The lighting subpass.
<1>22. PICK b3, z3, o3 : b3 = Ready(r2, s3, b) /\ z3 = Ready(r2, s3, z) /\ o3 = Ready(r2, s3, o)
  OBVIOUS
<1>23. b3 \in ImageRecords /\ Moved(b3, GeometryToLighting, "ShaderReadOnly") /\ b3.layout = "ShaderReadOnly"
  <2>1. b3 \in ImageRecords /\ Moved(b3, GeometryToLighting, "ShaderReadOnly")
    BY <1>1, <1>4, <1>5, <1>9, <1>22, ReadyMoved
  <2> QED
    BY <2>1 DEF Moved
<1>24. z3 \in ImageRecords /\ Moved(z3, GeometryToLighting, "ShaderReadOnly") /\ z3.layout = "ShaderReadOnly"
  <2>1. z3 \in ImageRecords /\ Moved(z3, GeometryToLighting, "ShaderReadOnly")
    BY <1>1, <1>4, <1>5, <1>9, <1>22, ReadyMoved
  <2> QED
    BY <2>1 DEF Moved
<1>25. o3 \in ImageRecords /\ Moved(o3, ImplicitFirst, "ColorAttachment") /\ o3.layout = "ColorAttachment"
  <2>1. o3 \in ImageRecords /\ Grew(r2.images[o], o3)
    BY <1>1, <1>4, <1>9, <1>11, <1>22, ReadyKept DEF Runs, Typed
  <2>2. Moved(o3, ImplicitFirst, "ColorAttachment")
    BY <1>20, <2>1, StateGrows
  <2> QED
    BY <2>1, <2>2 DEF Moved
<1>26. SafeUse(Ready(r2, s3, h), SamplesShadows) /\ ShadowsOrdered(r3.images[h])
  BY <1>9, <1>11, <1>21, ShadowsSampled
<1>27. SafeStep(r2, s3)
  <2>1. SafeMove(r2.images[b], mb3, GeometryToLighting) /\ SafeMove(r2.images[z], mz3, GeometryToLighting)
    BY <1>5, <1>21, RasterDependencies DEF Written, SafeMove, Chained, MadeAvailable, Covers
  <2>2. SafeUse(b3, rb3) /\ SafeUse(b3, ub3)
    BY <1>6, <1>23, RasterDependencies DEF Moved, SafeUse, Covers
  <2>3. SafeUse(z3, rz3) /\ SafeUse(z3, uz3)
    BY <1>6, <1>24, RasterDependencies DEF Moved, SafeUse, Covers
  <2>4. SafeUse(o3, uo3)
    BY <1>6, <1>25, RasterDependencies, Masks DEF Moved, SafeUse, Covers, AttachmentAccesses
  <2> QED
    BY <1>4, <1>5, <1>6, <1>22, <1>26, <2>1, <2>2, <2>3, <2>4 DEF SafeStep
<1>28. Written(r3.images[z], "ShaderReadOnly", "LateFragmentTests", "DepthWrite")
  BY <1>1, <1>6, <1>9, <1>11, <1>22, <1>24, RunsWrites
<1>29. Written(r3.images[o], "ColorAttachment", "ColorAttachmentOutput", "ColorWrite")
  BY <1>1, <1>6, <1>9, <1>11, <1>22, <1>25, RunsWrites
\* The end of the render pass.
<1>30. SafeStep(r3, s4)
  <2>1. SafeMove(r3.images[o], mo4, LightingToExternal) /\ SafeMove(r3.images[z], mz4, LightingToExternal)
    BY <1>5, <1>28, <1>29, RasterDependencies DEF Written, SafeMove, Chained, MadeAvailable, Covers
  <2> QED
    BY <1>4, <1>5, <2>1 DEF SafeStep
<1>31. end.images[o].layout = "ShaderReadOnly"
  BY <1>1, <1>4, <1>5, <1>10, <1>11, RunsMoves DEF Moved
<1>32. DeferredDepthOrdered(end.images[z])
  <2>1. Moved(end.images[z], LightingToExternal, "DepthAttachment")
    BY <1>1, <1>4, <1>5, <1>10, <1>11, RunsMoves
  <2> QED
    BY <2>1 DEF Moved, DeferredDepthOrdered
<1>33. ShadowsOrdered(end.images[h])
  <2>1. Grew(r3.images[h], end.images[h])
    BY <1>1, <1>10, <1>11, RunsGrows
  <2> QED
    BY <1>26, <2>1, OrderedGrows
<1>34. Clean(run, r1, touched) /\ Clean(r1, r2, touched) /\ Clean(r2, r3, touched) /\ Clean(r3, end, touched)
  BY <1>8, <1>9, <1>10, <1>11, <1>15, <1>19, <1>27, <1>30, RunsClean
<1>35. Clean(run, end, touched)
  <2>1. Clean(run, r2, touched) /\ Clean(r2, end, touched)
    BY <1>34, CleanTwice
  <2> QED
    BY <2>1, CleanTwice
<1> QED
  BY <1>11, <1>31, <1>32, <1>33, <1>35

\* raster, ray tracing: the result is written by the ray tracing shader.
LEMMA RaytracingRecorded ==
  ASSUME NEW p, NEW run, Typed(run), Untouched(run.images["offscreen"])
  PROVE  LET end == Perform(p, run, RaytracingPass)
         IN  Clean(run, end, {"offscreen"}) /\ Sampleable(end.images["offscreen"])
<1> DEFINE o  == "offscreen"
           d1 == Dependency({"ColorAttachmentOutput"}, {}, {"RayTracingShader"}, {"ShaderWrite"})
           d2 == Dependency({"RayTracingShader"}, {"ShaderWrite"}, {"FragmentShader"}, {"ShaderRead"})
           m1 == Move(o, "Undefined", "General")
           m2 == Move(o, "General", "ShaderReadOnly")
           u  == Writes(o, "General", "RayTracingShader", "ShaderWrite")
           s1 == ImageBarrier(d1, m1, {u})
           s2 == ImageBarrier(d2, m2, {})
<1>1. /\ o \in Images /\ m1 \in Moves /\ m2 \in Moves /\ u \in Uses
      /\ m1.image = o /\ m1.from = "Undefined" /\ m1.to = "General"
      /\ m2.image = o /\ m2.from = "General" /\ m2.to = "ShaderReadOnly"
      /\ u.image = o /\ u.layout = "General" /\ u.first = "RayTracingShader" /\ u.last = "RayTracingShader"
      /\ u.access = "ShaderWrite" /\ "ShaderWrite" \in Writing
  BY Masks DEF Images, PerImage, Move, Moves, Writes, Use, Uses, Layouts, Accesses, Writing
<1>2. /\ Covers(d1, {"ColorAttachmentOutput"}, {}, {"RayTracingShader"}, {"ShaderWrite"})
      /\ Covers(d2, {"RayTracingShader"}, {"ShaderWrite"}, {"FragmentShader"}, {"ShaderRead"})
  <2>1. /\ {"ColorAttachmentOutput"} \subseteq Stages /\ {"RayTracingShader"} \subseteq Stages
        /\ {"FragmentShader"} \subseteq Stages
        /\ {} \subseteq Accesses /\ {"ShaderWrite"} \subseteq Accesses /\ {"ShaderRead"} \subseteq Accesses
    BY Masks DEF Accesses
  <2> QED
    BY <2>1, Scopes
<1>3. RaytracingPass = << s1, s2 >>
  BY DEF RaytracingPass
<1> HIDE DEF m1, m2, u, d1, d2
<1>4. /\ s1 \in Steps /\ s1.dependency = d1 /\ s1.moves = {m1} /\ s1.uses = {u}
      /\ s2 \in Steps /\ s2.dependency = d2 /\ s2.moves = {m2} /\ s2.uses = {}
  BY <1>1, <1>2 DEF ImageBarrier, Step, Steps, Covers
<1> HIDE DEF s1, s2
<1>5. /\ MovesOf(s1, o) = {m1} /\ UsesOf(s1, o) = {u} /\ MovesOf(s2, o) = {m2} /\ UsesOf(s2, o) = {}
      /\ Only(s1, {o}) /\ Only(s2, {o})
  BY <1>1, <1>4 DEF MovesOf, UsesOf, Only
<1>6. PICK r, end : Runs(p, run, s1, r) /\ Runs(p, r, s2, end) /\ end = Perform(p, run, RaytracingPass)
  BY <1>3, <1>4, RunsTwo
<1>7. PICK ready : ready = Ready(run, s1, o)
  OBVIOUS
<1>8. ready \in ImageRecords /\ Moved(ready, d1, "General")
  BY <1>1, <1>4, <1>5, <1>7, ReadyMoved
<1>9. ready.layout = "General"
  BY <1>8 DEF Moved
<1>10. SafeStep(run, s1)
  <2>1. SafeMove(run.images[o], m1, d1)
    BY <1>1 DEF Untouched, SafeMove
  <2>2. SafeUse(ready, u)
    BY <1>1, <1>2, <1>8 DEF Moved, SafeUse, Covers
  <2> QED
    BY <1>1, <1>4, <1>7, <2>1, <2>2 DEF SafeStep
<1>11. Written(r.images[o], "General", "RayTracingShader", "ShaderWrite")
  BY <1>1, <1>5, <1>6, <1>7, <1>8, <1>9, RunsWrites
<1>12. SafeStep(r, s2)
  <2>1. SafeMove(r.images[o], m2, d2)
    BY <1>1, <1>2, <1>11 DEF Written, SafeMove, Chained, MadeAvailable, Covers
  <2> QED
    BY <1>1, <1>4, <2>1 DEF SafeStep
<1>13. Clean(run, r, {o}) /\ Clean(r, end, {o})
  BY <1>5, <1>6, <1>10, <1>12, RunsClean
<1>14. Moved(end.images[o], d2, "ShaderReadOnly")
  BY <1>1, <1>4, <1>5, <1>6, RunsMoves
<1>15. Sampleable(end.images[o])
  BY <1>2, <1>14 DEF Moved, Sampleable, Covers
<1> QED
  BY <1>6, <1>13, <1>15, CleanTwice

\* raster, path tracing: the shader of the frame before is done with the history
\* the shader of this one reads and writes.
LEMMA PathTracingRecorded ==
  ASSUME NEW p, NEW run, Typed(run), Untouched(run.images["offscreen"]),
         AccumulationOrdered(run.images["accumulation"])
  PROVE  LET end == Perform(p, run, PathTracingPass)
         IN  /\ Clean(run, end, {"offscreen", "accumulation"})
             /\ Sampleable(end.images["offscreen"]) /\ AccumulationOrdered(end.images["accumulation"])
<1> DEFINE o  == "offscreen"
           a  == "accumulation"
           d1 == Dependency({"ColorAttachmentOutput", "FragmentShader"}, {}, {"ComputeShader"}, {"ShaderWrite"})
           d2 == Dependency({"ComputeShader"}, {"ShaderWrite"}, {"ComputeShader"}, {"ShaderRead", "ShaderWrite"})
           d3 == Dependency({"ComputeShader"}, {"ShaderWrite"}, {"FragmentShader"}, {"ShaderRead"})
           m1 == Move(o, "Undefined", "General")
           m3 == Move(o, "General", "ShaderReadOnly")
           uo == Writes(o, "General", "ComputeShader", "ShaderWrite")
           ra == Reads(a, "General", "ComputeShader", "ShaderRead")
           ua == Writes(a, "General", "ComputeShader", "ShaderWrite")
           s1 == ImageBarrier(d1, m1, {})
           s2 == GeneralBarrier(d2, a, {uo, ra, ua})
           s3 == ImageBarrier(d3, m3, {})
           touched == {o, a}
<1>1. /\ o \in Images /\ a \in Images /\ m1 \in Moves /\ m3 \in Moves
      /\ uo \in Uses /\ ra \in Uses /\ ua \in Uses
  BY Masks DEF Images, SharedImages, PerImage, Move, Moves, Reads, Writes, Use, Uses, Layouts, Accesses
<1>2. /\ m1.image = o /\ m1.from = "Undefined" /\ m1.to = "General"
      /\ m3.image = o /\ m3.from = "General" /\ m3.to = "ShaderReadOnly"
      /\ uo.image = o /\ uo.layout = "General" /\ uo.first = "ComputeShader" /\ uo.last = "ComputeShader"
      /\ uo.access = "ShaderWrite"
      /\ ra.image = a /\ ra.layout = "General" /\ ra.first = "ComputeShader" /\ ra.access = "ShaderRead"
      /\ ua.image = a /\ ua.layout = "General" /\ ua.first = "ComputeShader" /\ ua.last = "ComputeShader"
      /\ ua.access = "ShaderWrite" /\ "ShaderWrite" \in Writing /\ "ShaderRead" \notin Writing
  BY DEF Move, Reads, Writes, Use, Writing
<1>3. /\ Covers(d1, {"ColorAttachmentOutput", "FragmentShader"}, {}, {"ComputeShader"}, {"ShaderWrite"})
      /\ Covers(d2, {"ComputeShader"}, {"ShaderWrite"}, {"ComputeShader"}, {"ShaderRead", "ShaderWrite"})
      /\ Covers(d3, {"ComputeShader"}, {"ShaderWrite"}, {"FragmentShader"}, {"ShaderRead"})
  <2>1. /\ {"ColorAttachmentOutput", "FragmentShader"} \subseteq Stages /\ {"ComputeShader"} \subseteq Stages
        /\ {"FragmentShader"} \subseteq Stages
        /\ {} \subseteq Accesses /\ {"ShaderWrite"} \subseteq Accesses /\ {"ShaderRead"} \subseteq Accesses
        /\ {"ShaderRead", "ShaderWrite"} \subseteq Accesses
    BY Masks DEF Accesses
  <2> QED
    BY <2>1, Scopes
<1>4. PathTracingPass = << s1, s2, s3 >>
  BY DEF PathTracingPass
<1> HIDE DEF m1, m3, uo, ra, ua, d1, d2, d3
<1>5. /\ s1 \in Steps /\ s1.dependency = d1 /\ s1.moves = {m1} /\ s1.uses = {}
      /\ s2 \in Steps /\ s2.dependency = d2 /\ s2.memory = {a} /\ s2.moves = {} /\ s2.uses = {uo, ra, ua}
      /\ s3 \in Steps /\ s3.dependency = d3 /\ s3.moves = {m3} /\ s3.uses = {}
  BY <1>1, <1>2, <1>3 DEF ImageBarrier, GeneralBarrier, Step, Steps, Covers
<1> HIDE DEF s1, s2, s3
<1>6. /\ MovesOf(s1, o) = {m1} /\ UsesOf(s1, o) = {} /\ MovesOf(s1, a) = {} /\ UsesOf(s1, a) = {}
      /\ MovesOf(s2, o) = {} /\ UsesOf(s2, o) = {uo} /\ MovesOf(s2, a) = {} /\ UsesOf(s2, a) = {ra, ua}
      /\ MovesOf(s3, o) = {m3} /\ UsesOf(s3, o) = {} /\ MovesOf(s3, a) = {} /\ UsesOf(s3, a) = {}
      /\ Only(s1, touched) /\ Only(s2, touched) /\ Only(s3, touched)
  BY <1>2, <1>5 DEF MovesOf, UsesOf, Only
<1>7. PICK r1, r2, end : /\ Runs(p, run, s1, r1) /\ Runs(p, r1, s2, r2) /\ Runs(p, r2, s3, end)
                         /\ end = Perform(p, run, PathTracingPass)
  BY <1>4, <1>5, RunsThree
<1>8. SafeStep(run, s1)
  <2>1. SafeMove(run.images[o], m1, d1)
    BY <1>2 DEF Untouched, SafeMove
  <2> QED
    BY <1>2, <1>5, <2>1 DEF SafeStep
<1>9. Moved(r1.images[o], d1, "General") /\ AccumulationOrdered(r1.images[a])
  <2>1. Moved(r1.images[o], d1, "General")
    BY <1>1, <1>2, <1>5, <1>6, <1>7, RunsMoves
  <2>2. Grew(run.images[a], r1.images[a])
    BY <1>1, <1>6, <1>7, RunsGrows
  <2> QED
    BY <2>1, <2>2, OrderedGrows
<1>10. PICK ao, oo, image : ao = Ready(r1, s2, a) /\ oo = Ready(r1, s2, o) /\ image = r1.images[a]
  OBVIOUS
<1>11. oo \in ImageRecords /\ Moved(oo, d1, "General") /\ oo.layout = "General"
  <2>1. oo \in ImageRecords /\ Grew(r1.images[o], oo)
    BY <1>1, <1>5, <1>6, <1>7, <1>10, ReadyKept DEF Runs, Typed
  <2>2. Moved(oo, d1, "General")
    BY <1>9, <2>1, StateGrows
  <2> QED
    BY <2>1, <2>2 DEF Moved
<1>12. /\ ao \in ImageRecords /\ ao.layout = "General" /\ ao.reads = {}
       /\ \A x \in ao.writes : {"ComputeShader"} \X {"ShaderRead", "ShaderWrite"} \subseteq x.visible
  <2>1. ao \in ImageRecords /\ Followed(image, ao, d2)
    BY <1>1, <1>5, <1>6, <1>7, <1>10, ReadyKept, ReadyFollows DEF Runs, Typed
  <2>2. \A w \in image.writes : Chained(w, d2) /\ MadeAvailable(w, d2)
    BY <1>3, <1>9, <1>10 DEF AccumulationOrdered, Chained, MadeAvailable, Covers
  <2>3. image.layout = "General" /\ image.reads = {}
    BY <1>9, <1>10 DEF AccumulationOrdered
  <2>4. d2.makesVisible = {"ComputeShader"} \X {"ShaderRead", "ShaderWrite"}
    BY <1>3 DEF Covers
  <2> QED
    BY <2>1, <2>2, <2>3, <2>4 DEF Followed
<1>13. SafeStep(r1, s2)
  <2>1. SafeUse(oo, uo)
    BY <1>2, <1>3, <1>11 DEF Moved, SafeUse, Covers
  <2>2. SafeUse(ao, ra) /\ SafeUse(ao, ua)
    BY <1>2, <1>12 DEF SafeUse
  <2> QED
    BY <1>2, <1>5, <1>10, <2>1, <2>2 DEF SafeStep
<1>14. Written(r2.images[o], "General", "ComputeShader", "ShaderWrite")
  BY <1>1, <1>2, <1>6, <1>7, <1>10, <1>11, RunsWrites
<1>15. Written(r2.images[a], "General", "ComputeShader", "ShaderWrite")
  BY <1>1, <1>2, <1>6, <1>7, <1>10, <1>12, RunsWrites
<1>16. SafeStep(r2, s3)
  <2>1. SafeMove(r2.images[o], m3, d3)
    BY <1>2, <1>3, <1>14 DEF Written, SafeMove, Chained, MadeAvailable, Covers
  <2> QED
    BY <1>2, <1>5, <2>1 DEF SafeStep
<1>17. Sampleable(end.images[o])
  <2>1. Moved(end.images[o], d3, "ShaderReadOnly")
    BY <1>1, <1>2, <1>5, <1>6, <1>7, RunsMoves
  <2> QED
    BY <1>3, <2>1 DEF Moved, Sampleable, Covers
<1>18. AccumulationOrdered(end.images[a])
  <2>1. Grew(r2.images[a], end.images[a])
    BY <1>1, <1>6, <1>7, RunsGrows
  <2>2. AccumulationOrdered(r2.images[a])
    BY <1>15 DEF Written, AccumulationOrdered
  <2> QED
    BY <2>1, <2>2, OrderedGrows
<1>19. Clean(run, r1, touched) /\ Clean(r1, r2, touched) /\ Clean(r2, end, touched)
  BY <1>6, <1>7, <1>8, <1>13, <1>16, RunsClean
<1>20. Clean(run, end, touched)
  <2>1. Clean(run, r2, touched)
    BY <1>19, CleanTwice
  <2> QED
    BY <1>19, <2>1, CleanTwice
<1> QED
  BY <1>7, <1>17, <1>18, <1>20

\* sky: the presentation engine is done with the image, the sky is stored and can
\* be blended over.
LEMMA SkyRecorded ==
  ASSUME NEW p, NEW run, Typed(run), Acquirable(run.images["swapchain"])
  PROVE  LET end == Perform(p, run, SkyPass)
         IN  Clean(run, end, {"swapchain"}) /\ Blendable(end.images["swapchain"])
<1> DEFINE i  == "swapchain"
           m  == Move(i, "Undefined", "ColorAttachment")
           u  == Writes(i, "ColorAttachment", "ColorAttachmentOutput", "ColorWrite")
           s1 == Begin(SkyBegin, {m}, {u})
           s2 == End(SkyEnd, {})
<1>1. /\ i \in Images /\ m \in Moves /\ u \in Uses
      /\ m.image = i /\ m.from = "Undefined" /\ m.to = "ColorAttachment"
      /\ u.image = i /\ u.layout = "ColorAttachment" /\ u.first = "ColorAttachmentOutput"
      /\ u.last = "ColorAttachmentOutput" /\ u.access = "ColorWrite" /\ "ColorWrite" \in Writing
  BY Masks DEF Images, PerImage, Move, Moves, Writes, Use, Uses, Layouts, Accesses, Writing
<1>2. /\ Covers(SkyBegin, {"ColorAttachmentOutput"}, {"ColorWrite"},
                          {"ColorAttachmentOutput"}, {"ColorWrite", "ColorRead"})
      /\ Covers(SkyEnd, {"ColorAttachmentOutput"}, {"ColorWrite"}, {"ColorAttachmentOutput"}, {"ColorRead"})
  <2>1. /\ {"ColorAttachmentOutput"} \subseteq Stages /\ {"ColorWrite", "ColorRead"} \subseteq Accesses
        /\ {"ColorWrite"} \subseteq Accesses /\ {"ColorRead"} \subseteq Accesses
    BY Masks DEF Accesses
  <2> QED
    BY <2>1, Scopes DEF SkyBegin, SkyEnd
<1>3. SkyPass = << s1, s2 >>
  BY DEF SkyPass
<1> HIDE DEF m, u
<1>4. /\ s1 \in Steps /\ s1.dependency = SkyBegin /\ s1.moves = {m} /\ s1.uses = {u}
      /\ s2 \in Steps /\ s2.dependency = SkyEnd /\ s2.memory = Images /\ s2.moves = {} /\ s2.uses = {}
  BY <1>1, <1>2 DEF Begin, End, Step, Steps, Covers
<1> HIDE DEF s1, s2
<1>5. /\ MovesOf(s1, i) = {m} /\ UsesOf(s1, i) = {u} /\ MovesOf(s2, i) = {} /\ UsesOf(s2, i) = {}
      /\ Only(s1, {i}) /\ Only(s2, {i})
  BY <1>1, <1>4 DEF MovesOf, UsesOf, Only
<1>6. PICK r, end : Runs(p, run, s1, r) /\ Runs(p, r, s2, end) /\ end = Perform(p, run, SkyPass)
  BY <1>3, <1>4, RunsTwo
<1>7. PICK ready : ready = Ready(run, s1, i)
  OBVIOUS
<1>8. ready \in ImageRecords /\ Moved(ready, SkyBegin, "ColorAttachment")
  BY <1>1, <1>4, <1>5, <1>7, ReadyMoved
<1>9. ready.layout = "ColorAttachment"
  BY <1>8 DEF Moved
<1>10. SafeStep(run, s1) /\ SafeStep(r, s2)
  <2>1. SafeMove(run.images[i], m, SkyBegin)
    BY <1>1, <1>2 DEF Acquirable, SafeMove, Chained, Covers
  <2>2. SafeUse(ready, u)
    BY <1>1, <1>2, <1>8 DEF Moved, SafeUse, Covers
  <2> QED
    BY <1>1, <1>4, <1>7, <2>1, <2>2 DEF SafeStep
<1>11. Written(r.images[i], "ColorAttachment", "ColorAttachmentOutput", "ColorWrite")
  BY <1>1, <1>5, <1>6, <1>7, <1>8, <1>9, RunsWrites
<1>12. Blendable(end.images[i])
  <2>1. Followed(r.images[i], end.images[i], SkyEnd)
    BY <1>1, <1>4, <1>5, <1>6, RunsFollows
  <2>2. \A w \in r.images[i].writes : Chained(w, SkyEnd) /\ MadeAvailable(w, SkyEnd)
    BY <1>2, <1>11 DEF Written, Chained, MadeAvailable, Covers
  <2>3. \A w \in end.images[i].writes : << "ColorAttachmentOutput", "ColorRead" >> \in w.visible
    BY <1>2, <2>1, <2>2 DEF Followed, Covers
  <2>4. Grew(r.images[i], end.images[i])
    BY <1>1, <1>5, <1>6, RunsGrows
  <2>5. Written(end.images[i], "ColorAttachment", "ColorAttachmentOutput", "ColorWrite")
    BY <1>11, <2>4, StateGrows
  <2> QED
    BY <2>3, <2>5 DEF Blendable
<1>13. Clean(run, r, {i}) /\ Clean(r, end, {i})
  BY <1>5, <1>6, <1>10, RunsClean
<1> QED
  BY <1>6, <1>12, <1>13, CleanTwice

\* capture: the image is copied and put back for the present.
LEMMA CaptureRecorded ==
  ASSUME NEW p, NEW run, Typed(run), Presentable(run.images["swapchain"])
  PROVE  LET end == Perform(p, run, CapturePass)
         IN  Clean(run, end, {"swapchain"}) /\ end.images["swapchain"].layout = "PresentSrc"
<1> DEFINE i  == "swapchain"
           d1 == Dependency({"ColorAttachmentOutput"}, {"ColorWrite"}, {"Transfer"}, {"TransferRead"})
           d2 == Dependency({"Transfer"}, {"TransferRead"}, {"BottomOfPipe", "Host"}, {})
           m1 == Move(i, "PresentSrc", "TransferSrc")
           m2 == Move(i, "TransferSrc", "PresentSrc")
           u  == Reads(i, "TransferSrc", "Transfer", "TransferRead")
           s1 == ImageBarrier(d1, m1, {u})
           s2 == ImageBarrier(d2, m2, {})
<1>1. /\ i \in Images /\ m1 \in Moves /\ m2 \in Moves /\ u \in Uses
      /\ m1.image = i /\ m1.from = "PresentSrc" /\ m1.to = "TransferSrc"
      /\ m2.image = i /\ m2.from = "TransferSrc" /\ m2.to = "PresentSrc"
      /\ u.image = i /\ u.layout = "TransferSrc" /\ u.first = "Transfer" /\ u.last = "Transfer"
      /\ u.access = "TransferRead" /\ u.access \notin Writing
  BY Masks DEF Images, PerImage, Move, Moves, Reads, Use, Uses, Layouts, Accesses, Writing
<1>2. /\ Covers(d1, {"ColorAttachmentOutput"}, {"ColorWrite"}, {"Transfer"}, {"TransferRead"})
      /\ Covers(d2, {"Transfer"}, {"TransferRead"}, {"BottomOfPipe", "Host"}, {})
  <2>1. /\ {"ColorAttachmentOutput"} \subseteq Stages /\ {"Transfer"} \subseteq Stages
        /\ {"BottomOfPipe", "Host"} \subseteq Stages
        /\ {} \subseteq Accesses /\ {"ColorWrite"} \subseteq Accesses /\ {"TransferRead"} \subseteq Accesses
    BY Masks DEF Accesses
  <2> QED
    BY <2>1, Scopes
<1>3. CapturePass = << s1, s2 >>
  BY DEF CapturePass
<1> HIDE DEF m1, m2, u, d1, d2
<1>4. /\ s1 \in Steps /\ s1.dependency = d1 /\ s1.moves = {m1} /\ s1.uses = {u}
      /\ s2 \in Steps /\ s2.dependency = d2 /\ s2.moves = {m2} /\ s2.uses = {}
  BY <1>1, <1>2 DEF ImageBarrier, Step, Steps, Covers
<1> HIDE DEF s1, s2
<1>5. /\ MovesOf(s1, i) = {m1} /\ UsesOf(s1, i) = {u} /\ MovesOf(s2, i) = {m2} /\ UsesOf(s2, i) = {}
      /\ Only(s1, {i}) /\ Only(s2, {i})
  BY <1>1, <1>4 DEF MovesOf, UsesOf, Only
<1>6. PICK r, end : Runs(p, run, s1, r) /\ Runs(p, r, s2, end) /\ end = Perform(p, run, CapturePass)
  BY <1>3, <1>4, RunsTwo
<1>7. PICK ready : ready = Ready(run, s1, i)
  OBVIOUS
<1>8. ready \in ImageRecords /\ Moved(ready, d1, "TransferSrc")
  BY <1>1, <1>4, <1>5, <1>7, ReadyMoved
<1>9. SafeStep(run, s1)
  <2>1. SafeMove(run.images[i], m1, d1)
    BY <1>1 DEF Presentable, SafeMove
  <2>2. SafeUse(ready, u)
    BY <1>1, <1>2, <1>8 DEF Moved, SafeUse, Covers
  <2> QED
    BY <1>1, <1>4, <1>7, <2>1, <2>2 DEF SafeStep
<1>10. SafeStep(r, s2)
  <2>1. /\ r.images[i].layout = "TransferSrc" /\ \A w \in r.images[i].writes : w.transition
        /\ \A x \in r.images[i].reads : x.stage = "Transfer"
    <3>1. /\ r.images[i].layout = ready.layout /\ r.images[i].writes = ready.writes
          /\ \A x \in r.images[i].reads : x \in ready.reads \/ x.stage = "Transfer"
      BY <1>1, <1>5, <1>6, <1>7, <1>8, RunsReads
    <3> QED
      BY <1>8, <3>1 DEF Moved
  <2>2. SafeMove(r.images[i], m2, d2)
    BY <1>1, <1>2, <2>1 DEF SafeMove, Chained, Covers
  <2> QED
    BY <1>1, <1>4, <2>2 DEF SafeStep
<1>11. end.images[i].layout = "PresentSrc"
  BY <1>1, <1>4, <1>5, <1>6, RunsMoves DEF Moved
<1>12. Clean(run, r, {i}) /\ Clean(r, end, {i})
  BY <1>5, <1>6, <1>9, <1>10, RunsClean
<1> QED
  BY <1>6, <1>11, <1>12, CleanTwice

\* post: the offscreen result is sampled whether or not its writes are visible to
\* the sampling; nothing else can go wrong.
LEMMA PostRecorded ==
  ASSUME NEW p, NEW run, Typed(run), NEW clouds \in BOOLEAN,
         CloudsOrdered(run.images["cloudOutput"]), Blendable(run.images["swapchain"]),
         run.images["offscreen"].layout = "ShaderReadOnly"
  PROVE  LET end == Perform(p, run, PostPass(clouds))
         IN  /\ Typed(end) /\ end.mislaid = run.mislaid
             /\ end.hazards \subseteq run.hazards \cup {<< p, "offscreen", "read after write" >>}
             /\ Sampleable(run.images["offscreen"]) => end.hazards = run.hazards
             /\ CloudsOrdered(end.images["cloudOutput"]) /\ Presentable(end.images["swapchain"])
             /\ \A i \in Images \ {"offscreen", "swapchain", "cloudOutput"} :
                  Grew(run.images[i], end.images[i])
<1> DEFINE o  == "offscreen"
           i  == "swapchain"
           c  == "cloudOutput"
           d  == buildExternalColorDependency
           m  == Move(i, "ColorAttachment", "PresentSrc")
           uo == Reads(o, "ShaderReadOnly", "FragmentShader", "ShaderRead")
           ur == Reads(i, "ColorAttachment", "ColorAttachmentOutput", "ColorRead")
           uw == Writes(i, "ColorAttachment", "ColorAttachmentOutput", "ColorWrite")
           uc == Reads(c, "General", "FragmentShader", "ShaderRead")
           U  == {uo, ur, uw} \cup IF clouds THEN {uc} ELSE {}
           s1 == Begin(d, {}, U)
           s2 == PostEnd
           touched == {o, i, c}
<1>1. /\ o \in Images /\ i \in Images /\ c \in Images /\ m \in Moves
      /\ uo \in Uses /\ ur \in Uses /\ uw \in Uses /\ uc \in Uses
  BY Masks DEF Images, PerImage, SharedImages, Move, Moves, Reads, Writes, Use, Uses, Layouts, Accesses
<1>2. /\ m.image = i /\ m.from = "ColorAttachment" /\ m.to = "PresentSrc"
      /\ uo.image = o /\ uo.layout = "ShaderReadOnly" /\ uo.first = "FragmentShader"
      /\ uo.last = "FragmentShader" /\ uo.access = "ShaderRead"
      /\ ur.image = i /\ ur.layout = "ColorAttachment" /\ ur.first = "ColorAttachmentOutput"
      /\ ur.access = "ColorRead"
      /\ uw.image = i /\ uw.layout = "ColorAttachment" /\ uw.first = "ColorAttachmentOutput"
      /\ uw.last = "ColorAttachmentOutput" /\ uw.access = "ColorWrite"
      /\ uc.image = c /\ uc.layout = "General" /\ uc.first = "FragmentShader"
      /\ uc.last = "FragmentShader" /\ uc.access = "ShaderRead"
      /\ "ColorWrite" \in Writing /\ "ShaderRead" \notin Writing /\ "ColorRead" \notin Writing
  BY DEF Move, Reads, Writes, Use, Writing
<1>3. /\ Covers(d, {"ColorAttachmentOutput"}, {"ColorWrite"}, {"ColorAttachmentOutput"}, {"ColorWrite"})
      /\ Covers(ImplicitLast, AllCommands, AttachmentAccesses, {"BottomOfPipe"}, {})
  BY RasterDependencies
<1>4. PostPass(clouds) = << s1, s2 >>
  BY DEF PostPass
<1>5. s2 = End(ImplicitLast, {m})
  BY DEF PostEnd
<1> HIDE DEF m, uo, ur, uw, uc, s2, d
<1>6. U \subseteq {uo, ur, uw, uc} /\ uo \in U /\ ur \in U /\ uw \in U
  OBVIOUS
<1>7. (uc \in U \/ U = {uo, ur, uw})
  OBVIOUS
<1> HIDE DEF U
<1>8. U \subseteq Uses
  BY <1>1, <1>6
<1>9. /\ s1 \in Steps /\ s1.dependency = d /\ s1.memory = Images /\ s1.moves = {} /\ s1.uses = U
      /\ s2 \in Steps /\ s2.dependency = ImplicitLast /\ s2.moves = {m} /\ s2.uses = {}
  BY <1>1, <1>3, <1>5, <1>8 DEF Begin, End, Step, Steps, Covers
<1> HIDE DEF s1
<1>10. /\ MovesOf(s1, o) = {} /\ MovesOf(s1, i) = {} /\ MovesOf(s1, c) = {}
       /\ UsesOf(s1, o) = {uo} /\ UsesOf(s1, i) = {ur, uw}
       /\ UsesOf(s1, c) \in {{}, {uc}}
       /\ Only(s1, touched)
  <2>1. MovesOf(s1, o) = {} /\ MovesOf(s1, i) = {} /\ MovesOf(s1, c) = {}
    BY <1>9 DEF MovesOf
  <2>2. UsesOf(s1, o) = {uo} /\ UsesOf(s1, i) = {ur, uw}
    BY <1>2, <1>6, <1>9 DEF UsesOf
  <2>3. UsesOf(s1, c) \subseteq {uc}
    BY <1>2, <1>6, <1>9 DEF UsesOf
  <2>4. Only(s1, touched)
    BY <1>2, <1>6, <1>9 DEF Only
  <2> QED
    BY <2>1, <2>2, <2>3, <2>4
<1>11. /\ MovesOf(s2, i) = {m} /\ UsesOf(s2, i) = {} /\ MovesOf(s2, c) = {} /\ UsesOf(s2, c) = {}
       /\ Only(s2, {i})
  BY <1>2, <1>9 DEF MovesOf, UsesOf, Only
<1>12. PICK r, end : Runs(p, run, s1, r) /\ Runs(p, r, s2, end) /\ end = Perform(p, run, PostPass(clouds))
  BY <1>4, <1>9, RunsTwo
<1>13. PICK ro, ri, rc : ro = Ready(run, s1, o) /\ ri = Ready(run, s1, i) /\ rc = Ready(run, s1, c)
  OBVIOUS
<1>14. /\ ro \in ImageRecords /\ ri \in ImageRecords /\ rc \in ImageRecords
       /\ Grew(run.images[o], ro) /\ Grew(run.images[i], ri) /\ Grew(run.images[c], rc)
  BY <1>1, <1>9, <1>10, <1>13, ReadyKept DEF Typed
<1>15. Blendable(ri) /\ CloudsOrdered(rc) /\ ro.layout = "ShaderReadOnly"
  <2>1. Blendable(ri)
    BY <1>14, StateGrows
  <2>2. CloudsOrdered(rc)
    BY <1>14, OrderedGrows
  <2> QED
    BY <1>14, <2>1, <2>2 DEF Grew
<1>16. SafeUse(ri, ur) /\ SafeUse(ri, uw) /\ SafeUse(rc, uc)
  <2>1. SafeUse(ri, ur)
    BY <1>2, <1>15 DEF Blendable, Written, SafeUse
  <2>2. SafeUse(rc, uc)
    BY <1>2, <1>15 DEF CloudsOrdered, SafeUse
  <2>3. Followed(run.images[i], ri, d)
    BY <1>1, <1>9, <1>10, <1>12, <1>13, ReadyFollows DEF Typed
  <2>4. \A w \in run.images[i].writes : Chained(w, d) /\ MadeAvailable(w, d)
    BY <1>3 DEF Blendable, Written, Chained, MadeAvailable, Covers
  <2>5. \A w \in ri.writes : << "ColorAttachmentOutput", "ColorWrite" >> \in w.visible
    BY <1>3, <2>3, <2>4 DEF Followed, Covers
  <2>6. SafeUse(ri, uw)
    BY <1>2, <1>15, <2>5 DEF Blendable, Written, SafeUse
  <2> QED
    BY <2>1, <2>2, <2>6
<1>17. /\ r.mislaid = run.mislaid
       /\ r.hazards \subseteq run.hazards \cup {<< p, o, "read after write" >>}
       /\ \A j \in Images \ touched : Grew(run.images[j], r.images[j])
  <2>1. \A u \in s1.uses : u # uo => SafeUse(Ready(run, s1, u.image), u)
    BY <1>2, <1>6, <1>9, <1>13, <1>16
  <2>2. uo \in s1.uses /\ uo.access \notin Writing /\ uo.layout = Ready(run, s1, uo.image).layout
    BY <1>2, <1>6, <1>9, <1>13, <1>15
  <2>3. \A n \in s1.moves : SafeMove(run.images[n.image], n, s1.dependency)
    BY <1>9
  <2> QED
    <3>1. SafeStepBut(run, s1, uo)
      BY <2>1, <2>2, <2>3 DEF SafeStepBut
    <3>2. Runs(p, run, s1, r) /\ Only(s1, touched) /\ uo.image = o
      BY <1>2, <1>10, <1>12
    <3> HIDE DEF touched, o
    <3> QED
      BY <3>1, <3>2, RunsOver
<1>18. Sampleable(run.images[o]) => r.hazards = run.hazards
  <2>1. ASSUME Sampleable(run.images[o]) PROVE SafeStep(run, s1)
    <3>1. Sampleable(ro)
      BY <1>14, <2>1, StateGrows
    <3>2. SafeUse(ro, uo)
      BY <1>2, <3>1 DEF Sampleable, SafeUse
    <3> QED
      BY <1>2, <1>6, <1>9, <1>13, <1>16, <3>2 DEF SafeStep
  <2> QED
    BY <1>10, <1>12, <2>1, RunsClean DEF Clean
<1>19. Written(r.images[i], "ColorAttachment", "ColorAttachmentOutput", "ColorWrite")
  <2>1. ri.layout = "ColorAttachment"
    BY <1>15 DEF Blendable, Written
  <2> QED
    BY <1>1, <1>2, <1>10, <1>12, <1>13, <1>14, <2>1, RunsWrites
<1>20. CloudsOrdered(r.images[c])
  <2>1. CASE UsesOf(s1, c) = {}
    <3>1. Grew(run.images[c], r.images[c])
      BY <1>1, <1>10, <1>12, <2>1, RunsGrows
    <3> QED
      BY <3>1, OrderedGrows
  <2>2. CASE UsesOf(s1, c) = {uc}
    <3>1. /\ r.images[c].layout = rc.layout /\ r.images[c].writes = rc.writes
          /\ \A x \in r.images[c].reads : x \in rc.reads \/ x.stage = "FragmentShader"
      BY <1>1, <1>2, <1>12, <1>13, <1>14, <2>2, RunsReads
    <3> QED
      BY <1>15, <3>1 DEF CloudsOrdered
  <2> QED
    BY <1>10, <2>1, <2>2
<1>21. SafeStep(r, s2)
  <2>1. AttachmentAccesses = {"InputRead", "ColorRead", "ColorWrite", "DepthRead", "DepthWrite"}
    BY DEF AttachmentAccesses
  <2>2. SafeMove(r.images[i], m, ImplicitLast)
    BY <1>2, <1>3, <1>19, <2>1, Masks DEF Written, SafeMove, Chained, MadeAvailable, Covers
  <2> QED
    BY <1>2, <1>9, <2>2 DEF SafeStep
<1>22. Clean(r, end, {i})
  BY <1>11, <1>12, <1>21, RunsClean
<1>23. Presentable(end.images[i])
  <2>1. Moved(end.images[i], ImplicitLast, "PresentSrc")
    BY <1>1, <1>2, <1>9, <1>11, <1>12, RunsMoves
  <2> QED
    BY <2>1 DEF Moved, Presentable
<1>24. CloudsOrdered(end.images[c])
  <2>1. Grew(r.images[c], end.images[c])
    BY <1>1, <1>11, <1>12, RunsGrows
  <2> QED
    BY <1>20, <2>1, OrderedGrows
<1>25. ASSUME NEW j \in Images \ touched PROVE Grew(run.images[j], end.images[j])
  <2>1. PICK x, y, z : x = run.images[j] /\ y = r.images[j] /\ z = end.images[j]
    OBVIOUS
  <2>2. Grew(x, y) /\ Grew(y, z)
    BY <1>17, <1>22, <2>1 DEF Clean
  <2> QED
    BY <2>1, <2>2, GrewTwice
<1>26. Typed(end) /\ end.mislaid = run.mislaid /\ end.hazards = r.hazards
  BY <1>17, <1>22 DEF Clean, Typed
<1> QED
  BY <1>12, <1>17, <1>18, <1>23, <1>24, <1>25, <1>26

(***************************************************************************)
(* The inductive invariant.                                                *)
(***************************************************************************)
\* What the passes before pass p have left to it, in a frame that ray tracing
\* owns or not.
FrameOrdered(p, owned, state) ==
  /\ p \in {"clouds", "shadows", "raster"} =>
       Untouched(state["offscreen"]) /\ Untouched(state["gBuffer"])
  /\ p \in {"clouds", "shadows", "raster", "sky"} => Acquirable(state["swapchain"])
  /\ p = "raster" => Sampleable(state["shadowMap"])
  /\ p \in {"sky", "post"} => /\ state["offscreen"].layout = "ShaderReadOnly"
                              /\ owned => Sampleable(state["offscreen"])
  /\ p = "post" => Blendable(state["swapchain"])
  /\ p = "capture" => Presentable(state["swapchain"])
  /\ p = "submit" => state["swapchain"].layout = "PresentSrc"

\* The sampling of a raster result is all that may race.
OnlyRasterSampling(owned, found) ==
  /\ found \subseteq {<< "post", "offscreen", "read after write" >>}
  /\ owned => found = {}

\* The images are ordered as the passes left them, the frames before included,
\* and nothing was found that must not be.
IInv ==
  /\ pass \in Passes /\ settings \in Settings
  /\ images \in [Images -> ImageRecords]
  /\ mislaid = {} /\ OnlyRasterSampling(raytracingOwnsFrame, hazards)
  /\ SharedOrdered(images) /\ FrameOrdered(pass, raytracingOwnsFrame, images)

\* The images the frames share stay ordered when those that a pass touched are
\* and the others grew.
LEMMA SharedKept ==
  ASSUME NEW old, NEW new, NEW touched, SharedOrdered(old),
         \A i \in Images \ touched : Grew(old[i], new[i]),
         "cloudOutput" \in touched => CloudsOrdered(new["cloudOutput"]),
         "shadowMap" \in touched => ShadowsOrdered(new["shadowMap"]),
         "forwardDepth" \in touched => ForwardDepthOrdered(new["forwardDepth"]),
         "deferredDepth" \in touched => DeferredDepthOrdered(new["deferredDepth"]),
         "accumulation" \in touched => AccumulationOrdered(new["accumulation"])
  PROVE  SharedOrdered(new)
<1>1. \A i \in SharedImages : i \in Images
  BY DEF Images
<1>2. CloudsOrdered(new["cloudOutput"])
  BY <1>1, OrderedGrows DEF SharedOrdered, SharedImages
<1>3. ShadowsOrdered(new["shadowMap"])
  BY <1>1, OrderedGrows DEF SharedOrdered, SharedImages
<1>4. ForwardDepthOrdered(new["forwardDepth"])
  BY <1>1, OrderedGrows DEF SharedOrdered, SharedImages
<1>5. DeferredDepthOrdered(new["deferredDepth"])
  BY <1>1, OrderedGrows DEF SharedOrdered, SharedImages
<1>6. AccumulationOrdered(new["accumulation"])
  BY <1>1, OrderedGrows DEF SharedOrdered, SharedImages
<1> QED
  BY <1>2, <1>3, <1>4, <1>5, <1>6 DEF SharedOrdered

\* The images of the frame, as far as they were left alone.
LEMMA FrameKept ==
  ASSUME NEW old, NEW new, NEW i, Grew(old[i], new[i])
  PROVE  /\ Untouched(old[i]) => Untouched(new[i])
         /\ Acquirable(old[i]) => Acquirable(new[i])
         /\ Sampleable(old[i]) => Sampleable(new[i])
         /\ new[i].layout = old[i].layout
BY StateGrows DEF Grew

\* What a pass finds and what it leaves, as one run.
Recorded(run, end, steps, next) ==
  /\ Typed(run) /\ end = Perform(pass, run, steps)
  /\ run.images = images /\ run.hazards = hazards /\ run.mislaid = {}
  /\ pass' = next /\ settings' = settings
  /\ images' = end.images /\ hazards' = end.hazards /\ mislaid' = end.mislaid

\* Record, as such a run.
LEMMA RecordRuns ==
  ASSUME IInv, NEW steps, NEW next, Record(steps, next)
  PROVE  \E run, end : Recorded(run, end, steps, next)
<1>1. PICK run : run = [images |-> images, hazards |-> hazards, mislaid |-> mislaid]
  OBVIOUS
<1>2. Recorded(run, Perform(pass, run, steps), steps, next)
  BY <1>1 DEF Recorded, Record, Typed, IInv
<1> QED
  BY <1>2

\* What no pass breaks but the post stage.
LEMMA RecordClean ==
  ASSUME IInv, NEW run, NEW end, NEW steps, NEW next \in Passes, Recorded(run, end, steps, next),
         NEW touched, Clean(run, end, touched)
  PROVE  /\ pass' \in Passes /\ settings' \in Settings
         /\ images' \in [Images -> ImageRecords]
         /\ mislaid' = {} /\ OnlyRasterSampling(raytracingOwnsFrame', hazards')
         /\ \A i \in Images \ touched : Grew(images[i], images'[i])
         /\ raytracingOwnsFrame' = raytracingOwnsFrame
<1>1. raytracingOwnsFrame' = raytracingOwnsFrame
  BY DEF Recorded, raytracingOwnsFrame
<1>2. /\ pass' \in Passes /\ settings' \in Settings
      /\ images' \in [Images -> ImageRecords] /\ mislaid' = {} /\ hazards' = hazards
  BY DEF Recorded, Clean, IInv
<1>3. OnlyRasterSampling(raytracingOwnsFrame', hazards')
  BY <1>1, <1>2 DEF IInv
<1>4. \A i \in Images \ touched : Grew(images[i], images'[i])
  BY DEF Recorded, Clean
<1> QED
  BY <1>1, <1>2, <1>3, <1>4

\* A stage that is switched off.
LEMMA RecordNothing ==
  ASSUME NEW run, NEW end, NEW next, Recorded(run, end, << >>, next)
  PROVE  \A touched : Clean(run, end, touched)
BY NoSteps, GrewNot DEF Recorded, Clean, Typed

(***************************************************************************)
(* The passes keep it.                                                     *)
(***************************************************************************)
\* RecordClouds: the clouds or nothing.
LEMMA CloudsKeep == ASSUME IInv, RecordClouds PROVE IInv'
<1> DEFINE touched == {"cloudOutput"}
           steps   == IF settings.clouds THEN CloudPass ELSE << >>
<1>1. pass = "clouds" /\ Record(steps, "shadows")
  BY DEF RecordClouds
<1> HIDE DEF steps
<1>2. PICK run, end : Recorded(run, end, steps, "shadows")
  BY <1>1, RecordRuns
<1>3. Typed(run) /\ run.images = images /\ images' = end.images /\ pass' = "shadows"
  BY <1>2 DEF Recorded
<1>4. CloudsOrdered(images["cloudOutput"])
  BY DEF IInv, SharedOrdered
<1>5. Clean(run, end, touched) /\ CloudsOrdered(images'["cloudOutput"])
  <2>1. CASE settings.clouds
    BY <1>2, <1>3, <1>4, <2>1, CloudsRecorded DEF Recorded, steps
  <2>2. CASE ~settings.clouds
    <3>1. steps = << >>
      BY <2>2 DEF steps
    <3>2. end = run
      BY <1>2, <3>1, NoSteps DEF Recorded
    <3> QED
      BY <1>2, <1>3, <1>4, <3>1, <3>2, RecordNothing
  <2> QED
    BY <2>1, <2>2
<1>6. /\ pass' \in Passes /\ settings' \in Settings
      /\ images' \in [Images -> ImageRecords]
      /\ mislaid' = {} /\ OnlyRasterSampling(raytracingOwnsFrame', hazards')
      /\ \A i \in Images \ touched : Grew(images[i], images'[i])
  <2>1. "shadows" \in Passes
    BY DEF Passes
  <2> QED
    BY <1>2, <1>5, <2>1, RecordClean
<1>7. SharedOrdered(images')
  <2>1. SharedOrdered(images)
    BY DEF IInv
  <2> QED
    BY <1>5, <1>6, <2>1, SharedKept
<1>8. FrameOrdered(pass', raytracingOwnsFrame', images')
  <2>1. \A i \in PerImage : Grew(images[i], images'[i])
    BY <1>6 DEF Images, PerImage
  <2>2. /\ Untouched(images["offscreen"]) /\ Untouched(images["gBuffer"])
        /\ Acquirable(images["swapchain"])
    BY <1>1 DEF IInv, FrameOrdered
  <2>3. /\ Untouched(images'["offscreen"]) /\ Untouched(images'["gBuffer"])
        /\ Acquirable(images'["swapchain"])
    BY <2>1, <2>2, FrameKept DEF PerImage
  <2> QED
    BY <1>3, <2>3 DEF FrameOrdered
<1> QED
  BY <1>6, <1>7, <1>8 DEF IInv

\* RecordShadows: the shadow pass, or the barrier that stands for it.
LEMMA ShadowsKeep == ASSUME IInv, RecordShadows PROVE IInv'
<1> DEFINE touched == {"shadowMap"}
           steps   == IF settings.shadows THEN ShadowPass ELSE SkippedShadowPass
<1>1. pass = "shadows" /\ Record(steps, "raster")
  BY DEF RecordShadows
<1> HIDE DEF steps
<1>2. PICK run, end : Recorded(run, end, steps, "raster")
  BY <1>1, RecordRuns
<1>3. Typed(run) /\ run.images = images /\ images' = end.images /\ pass' = "raster"
  BY <1>2 DEF Recorded
<1>4. ShadowsOrdered(images["shadowMap"])
  BY DEF IInv, SharedOrdered
<1>5. /\ Clean(run, end, touched)
      /\ ShadowsOrdered(images'["shadowMap"]) /\ Sampleable(images'["shadowMap"])
  <2>1. CASE settings.shadows
    BY <1>2, <1>3, <1>4, <2>1, ShadowsRecorded DEF Recorded, steps
  <2>2. CASE ~settings.shadows
    BY <1>2, <1>3, <1>4, <2>2, SkippedShadowsRecorded DEF Recorded, steps
  <2> QED
    BY <2>1, <2>2
<1>6. /\ pass' \in Passes /\ settings' \in Settings
      /\ images' \in [Images -> ImageRecords]
      /\ mislaid' = {} /\ OnlyRasterSampling(raytracingOwnsFrame', hazards')
      /\ \A i \in Images \ touched : Grew(images[i], images'[i])
  <2>1. "raster" \in Passes
    BY DEF Passes
  <2> QED
    BY <1>2, <1>5, <2>1, RecordClean
<1>7. SharedOrdered(images')
  <2>1. SharedOrdered(images)
    BY DEF IInv
  <2> QED
    BY <1>5, <1>6, <2>1, SharedKept
<1>8. FrameOrdered(pass', raytracingOwnsFrame', images')
  <2>1. \A i \in PerImage : Grew(images[i], images'[i])
    BY <1>6 DEF Images, PerImage
  <2>2. /\ Untouched(images["offscreen"]) /\ Untouched(images["gBuffer"])
        /\ Acquirable(images["swapchain"])
    BY <1>1 DEF IInv, FrameOrdered
  <2>3. /\ Untouched(images'["offscreen"]) /\ Untouched(images'["gBuffer"])
        /\ Acquirable(images'["swapchain"])
    BY <2>1, <2>2, FrameKept DEF PerImage
  <2> QED
    BY <1>3, <1>5, <2>3 DEF FrameOrdered
<1> QED
  BY <1>6, <1>7, <1>8 DEF IInv

\* RecordRaster: the forward or the deferred path, which needs the shadow map
\* to be sampleable.
LEMMA RasterKeeps == ASSUME IInv, RecordRaster PROVE IInv'
<1> DEFINE steps   == IF settings.forward THEN ForwardPass ELSE DeferredPass
           touched == {"offscreen", "shadowMap"}
                        \cup IF settings.forward THEN {"forwardDepth"} ELSE {"gBuffer", "deferredDepth"}
<1>1. pass = "raster" /\ ~raytracingOwnsFrame /\ Record(steps, "sky")
  BY DEF RecordRaster
<1> HIDE DEF steps
<1>2. PICK run, end : Recorded(run, end, steps, "sky")
  BY <1>1, RecordRuns
<1>3. Typed(run) /\ run.images = images /\ images' = end.images /\ pass' = "sky"
  BY <1>2 DEF Recorded
<1>4. /\ ShadowsOrdered(images["shadowMap"]) /\ Sampleable(images["shadowMap"])
      /\ ForwardDepthOrdered(images["forwardDepth"]) /\ DeferredDepthOrdered(images["deferredDepth"])
      /\ Untouched(images["offscreen"]) /\ Untouched(images["gBuffer"]) /\ Acquirable(images["swapchain"])
  BY <1>1 DEF IInv, SharedOrdered, FrameOrdered
<1>5. /\ Clean(run, end, touched) /\ images'["offscreen"].layout = "ShaderReadOnly"
      /\ ShadowsOrdered(images'["shadowMap"])
      /\ "forwardDepth" \in touched => ForwardDepthOrdered(images'["forwardDepth"])
      /\ "deferredDepth" \in touched => DeferredDepthOrdered(images'["deferredDepth"])
  <2>1. CASE settings.forward
    <3>1. touched = {"offscreen", "forwardDepth", "shadowMap"} /\ steps = ForwardPass
      BY <2>1 DEF steps
    <3>2. /\ Clean(run, end, {"offscreen", "forwardDepth", "shadowMap"})
          /\ ForwardDepthOrdered(end.images["forwardDepth"]) /\ ShadowsOrdered(end.images["shadowMap"])
          /\ end.images["offscreen"].layout = "ShaderReadOnly"
      BY <1>2, <1>3, <1>4, <3>1, ForwardRecorded DEF Recorded
    <3> QED
      BY <1>3, <3>1, <3>2
  <2>2. CASE ~settings.forward
    <3>1. touched = {"offscreen", "gBuffer", "deferredDepth", "shadowMap"} /\ steps = DeferredPass
      BY <2>2 DEF steps
    <3>2. /\ Clean(run, end, {"offscreen", "gBuffer", "deferredDepth", "shadowMap"})
          /\ DeferredDepthOrdered(end.images["deferredDepth"]) /\ ShadowsOrdered(end.images["shadowMap"])
          /\ end.images["offscreen"].layout = "ShaderReadOnly"
      BY <1>2, <1>3, <1>4, <3>1, DeferredRecorded DEF Recorded
    <3> QED
      BY <1>3, <3>1, <3>2
  <2> QED
    BY <2>1, <2>2
<1>6. /\ pass' \in Passes /\ settings' \in Settings
      /\ images' \in [Images -> ImageRecords]
      /\ mislaid' = {} /\ OnlyRasterSampling(raytracingOwnsFrame', hazards')
      /\ \A i \in Images \ touched : Grew(images[i], images'[i])
      /\ ~raytracingOwnsFrame'
  <2>1. "sky" \in Passes
    BY DEF Passes
  <2> HIDE DEF touched
  <2> QED
    BY <1>1, <1>2, <1>5, <2>1, RecordClean
<1>7. SharedOrdered(images')
  <2>1. SharedOrdered(images)
    BY DEF IInv
  <2>2. "cloudOutput" \notin touched /\ "accumulation" \notin touched
    OBVIOUS
  <2> HIDE DEF touched
  <2> QED
    BY <1>5, <1>6, <2>1, <2>2, SharedKept
<1>8. FrameOrdered(pass', raytracingOwnsFrame', images')
  <2>1. "swapchain" \in Images \ touched
    BY DEF Images, PerImage
  <2>2. Acquirable(images'["swapchain"])
    BY <1>4, <1>6, <2>1, FrameKept
  <2> QED
    BY <1>3, <1>5, <1>6, <2>2 DEF FrameOrdered
<1> QED
  BY <1>6, <1>7, <1>8 DEF IInv

\* RecordTrace: the ray tracer or the path tracer leaves a result that can be
\* sampled.
LEMMA TraceKeeps == ASSUME IInv, RecordTrace PROVE IInv'
<1> DEFINE steps   == IF settings.raytracing THEN RaytracingPass ELSE PathTracingPass
           touched == {"offscreen"} \cup IF settings.raytracing THEN {} ELSE {"accumulation"}
<1>1. pass = "raster" /\ Record(steps, "sky")
  BY DEF RecordTrace
<1> HIDE DEF steps
<1>2. PICK run, end : Recorded(run, end, steps, "sky")
  BY <1>1, RecordRuns
<1>3. Typed(run) /\ run.images = images /\ images' = end.images /\ pass' = "sky"
  BY <1>2 DEF Recorded
<1>4. /\ AccumulationOrdered(images["accumulation"])
      /\ Untouched(images["offscreen"]) /\ Acquirable(images["swapchain"])
  BY <1>1 DEF IInv, SharedOrdered, FrameOrdered
<1>5. /\ Clean(run, end, touched) /\ Sampleable(images'["offscreen"])
      /\ "accumulation" \in touched => AccumulationOrdered(images'["accumulation"])
  <2>1. CASE settings.raytracing
    <3>1. touched = {"offscreen"} /\ steps = RaytracingPass
      BY <2>1 DEF steps
    <3>2. Clean(run, end, {"offscreen"}) /\ Sampleable(end.images["offscreen"])
      BY <1>2, <1>3, <1>4, <3>1, RaytracingRecorded DEF Recorded
    <3> QED
      BY <1>3, <3>1, <3>2
  <2>2. CASE ~settings.raytracing
    <3>1. touched = {"offscreen", "accumulation"} /\ steps = PathTracingPass
      BY <2>2 DEF steps
    <3>2. /\ Clean(run, end, {"offscreen", "accumulation"})
          /\ Sampleable(end.images["offscreen"]) /\ AccumulationOrdered(end.images["accumulation"])
      BY <1>2, <1>3, <1>4, <3>1, PathTracingRecorded DEF Recorded
    <3> QED
      BY <1>3, <3>1, <3>2
  <2> QED
    BY <2>1, <2>2
<1>6. /\ pass' \in Passes /\ settings' \in Settings
      /\ images' \in [Images -> ImageRecords]
      /\ mislaid' = {} /\ OnlyRasterSampling(raytracingOwnsFrame', hazards')
      /\ \A i \in Images \ touched : Grew(images[i], images'[i])
  <2>1. "sky" \in Passes
    BY DEF Passes
  <2> HIDE DEF touched
  <2> QED
    BY <1>2, <1>5, <2>1, RecordClean
<1>7. SharedOrdered(images')
  <2>1. SharedOrdered(images)
    BY DEF IInv
  <2>2. /\ "cloudOutput" \notin touched /\ "shadowMap" \notin touched
        /\ "forwardDepth" \notin touched /\ "deferredDepth" \notin touched
    OBVIOUS
  <2> HIDE DEF touched
  <2> QED
    BY <1>5, <1>6, <2>1, <2>2, SharedKept
<1>8. FrameOrdered(pass', raytracingOwnsFrame', images')
  <2>1. "swapchain" \in Images \ touched
    BY DEF Images, PerImage
  <2>2. Acquirable(images'["swapchain"])
    BY <1>4, <1>6, <2>1, FrameKept
  <2>3. images'["offscreen"].layout = "ShaderReadOnly"
    BY <1>5 DEF Sampleable
  <2> QED
    BY <1>3, <1>5, <2>2, <2>3 DEF FrameOrdered
<1> QED
  BY <1>6, <1>7, <1>8 DEF IInv

\* RecordSky: the first writing of the acquired image.
LEMMA SkyKeeps == ASSUME IInv, RecordSky PROVE IInv'
<1> DEFINE touched == {"swapchain"}
<1>1. pass = "sky" /\ Record(SkyPass, "post")
  BY DEF RecordSky
<1>2. PICK run, end : Recorded(run, end, SkyPass, "post")
  BY <1>1, RecordRuns
<1>3. Typed(run) /\ run.images = images /\ images' = end.images /\ pass' = "post"
  BY <1>2 DEF Recorded
<1>4. /\ Acquirable(images["swapchain"]) /\ images["offscreen"].layout = "ShaderReadOnly"
      /\ raytracingOwnsFrame => Sampleable(images["offscreen"])
  BY <1>1 DEF IInv, FrameOrdered
<1>5. Clean(run, end, touched) /\ Blendable(images'["swapchain"])
  BY <1>2, <1>3, <1>4, SkyRecorded DEF Recorded
<1>6. /\ pass' \in Passes /\ settings' \in Settings
      /\ images' \in [Images -> ImageRecords]
      /\ mislaid' = {} /\ OnlyRasterSampling(raytracingOwnsFrame', hazards')
      /\ \A i \in Images \ touched : Grew(images[i], images'[i])
      /\ raytracingOwnsFrame' = raytracingOwnsFrame
  <2>1. "post" \in Passes
    BY DEF Passes
  <2> QED
    BY <1>2, <1>5, <2>1, RecordClean
<1>7. SharedOrdered(images')
  <2>1. SharedOrdered(images)
    BY DEF IInv
  <2> QED
    BY <1>6, <2>1, SharedKept
<1>8. FrameOrdered(pass', raytracingOwnsFrame', images')
  <2>1. "offscreen" \in Images \ touched
    BY DEF Images, PerImage
  <2>2. /\ images'["offscreen"].layout = "ShaderReadOnly"
        /\ Sampleable(images["offscreen"]) => Sampleable(images'["offscreen"])
    BY <1>4, <1>6, <2>1, FrameKept
  <2>3. raytracingOwnsFrame' => Sampleable(images'["offscreen"])
    BY <1>4, <1>6, <2>2
  <2> QED
    BY <1>3, <1>5, <2>2, <2>3 DEF FrameOrdered
<1> QED
  BY <1>6, <1>7, <1>8 DEF IInv

\* RecordPost: the one access that may race, unless ray tracing owns the frame.
LEMMA PostKeeps == ASSUME IInv, RecordPost PROVE IInv'
<1> DEFINE touched == {"offscreen", "swapchain", "cloudOutput"}
           steps   == PostPass(settings.clouds)
<1>1. pass = "post" /\ Record(steps, "capture")
  BY DEF RecordPost
<1>2. settings.clouds \in BOOLEAN
  BY DEF IInv, Settings
<1>3. PICK run, end : Recorded(run, end, steps, "capture")
  <2> HIDE DEF steps
  <2> QED
    BY <1>1, RecordRuns
<1>4. /\ Typed(run) /\ run.images = images /\ images' = end.images /\ pass' = "capture"
      /\ settings' = settings /\ hazards' = end.hazards /\ mislaid' = end.mislaid
      /\ run.hazards = hazards /\ run.mislaid = {} /\ end = Perform("post", run, steps)
  BY <1>1, <1>3 DEF Recorded
<1>5. /\ Blendable(images["swapchain"]) /\ images["offscreen"].layout = "ShaderReadOnly"
      /\ raytracingOwnsFrame => Sampleable(images["offscreen"])
      /\ CloudsOrdered(images["cloudOutput"])
  BY <1>1 DEF IInv, FrameOrdered, SharedOrdered
<1>6. /\ Typed(end) /\ end.mislaid = run.mislaid
      /\ end.hazards \subseteq run.hazards \cup {<< "post", "offscreen", "read after write" >>}
      /\ Sampleable(images["offscreen"]) => end.hazards = run.hazards
      /\ CloudsOrdered(end.images["cloudOutput"]) /\ Presentable(end.images["swapchain"])
      /\ \A i \in Images \ touched : Grew(images[i], end.images[i])
  <2>1. PICK clouds \in BOOLEAN : clouds = settings.clouds
    BY <1>2
  <2>2. PICK e : e = Perform("post", run, PostPass(clouds))
    OBVIOUS
  <2>3. /\ Typed(e) /\ e.mislaid = run.mislaid
        /\ e.hazards \subseteq run.hazards \cup {<< "post", "offscreen", "read after write" >>}
        /\ Sampleable(run.images["offscreen"]) => e.hazards = run.hazards
        /\ CloudsOrdered(e.images["cloudOutput"]) /\ Presentable(e.images["swapchain"])
        /\ \A i \in Images \ touched : Grew(run.images[i], e.images[i])
    BY <1>4, <1>5, <2>2, PostRecorded
  <2> QED
    BY <1>4, <2>1, <2>2, <2>3
<1>7. raytracingOwnsFrame' = raytracingOwnsFrame
  BY <1>4 DEF raytracingOwnsFrame
<1>8. OnlyRasterSampling(raytracingOwnsFrame', hazards')
  BY <1>4, <1>5, <1>6, <1>7 DEF OnlyRasterSampling, IInv
<1>9. SharedOrdered(images')
  <2>1. SharedOrdered(images)
    BY DEF IInv
  <2>2. /\ \A i \in Images \ touched : Grew(images[i], images'[i])
        /\ CloudsOrdered(images'["cloudOutput"])
    BY <1>4, <1>6
  <2> QED
    BY <2>1, <2>2, SharedKept
<1>10. FrameOrdered(pass', raytracingOwnsFrame', images')
  BY <1>4, <1>6 DEF FrameOrdered
<1>11. /\ pass' \in Passes /\ settings' \in Settings
       /\ images' \in [Images -> ImageRecords] /\ mislaid' = {}
  BY <1>4, <1>6 DEF IInv, Passes, Typed
<1> QED
  BY <1>8, <1>9, <1>10, <1>11 DEF IInv

\* RecordCapture: the copy, or nothing.
LEMMA CaptureKeeps == ASSUME IInv, RecordCapture PROVE IInv'
<1> DEFINE touched == {"swapchain"}
           steps   == IF settings.armed THEN CapturePass ELSE << >>
<1>1. pass = "capture" /\ Record(steps, "submit")
  BY DEF RecordCapture
<1> HIDE DEF steps
<1>2. PICK run, end : Recorded(run, end, steps, "submit")
  BY <1>1, RecordRuns
<1>3. Typed(run) /\ run.images = images /\ images' = end.images /\ pass' = "submit"
  BY <1>2 DEF Recorded
<1>4. Presentable(images["swapchain"])
  BY <1>1 DEF IInv, FrameOrdered
<1>5. Clean(run, end, touched) /\ images'["swapchain"].layout = "PresentSrc"
  <2>1. CASE settings.armed
    BY <1>2, <1>3, <1>4, <2>1, CaptureRecorded DEF Recorded, steps
  <2>2. CASE ~settings.armed
    <3>1. steps = << >>
      BY <2>2 DEF steps
    <3>2. end = run
      BY <1>2, <3>1, NoSteps DEF Recorded
    <3> QED
      BY <1>2, <1>3, <1>4, <3>1, <3>2, RecordNothing DEF Presentable
  <2> QED
    BY <2>1, <2>2
<1>6. /\ pass' \in Passes /\ settings' \in Settings
      /\ images' \in [Images -> ImageRecords]
      /\ mislaid' = {} /\ OnlyRasterSampling(raytracingOwnsFrame', hazards')
      /\ \A i \in Images \ touched : Grew(images[i], images'[i])
  <2>1. "submit" \in Passes
    BY DEF Passes
  <2> QED
    BY <1>2, <1>5, <2>1, RecordClean
<1>7. SharedOrdered(images')
  <2>1. SharedOrdered(images)
    BY DEF IInv
  <2> QED
    BY <1>6, <2>1, SharedKept
<1>8. FrameOrdered(pass', raytracingOwnsFrame', images')
  BY <1>3, <1>5 DEF FrameOrdered
<1> QED
  BY <1>6, <1>7, <1>8 DEF IInv

(***************************************************************************)
(* So do the beginning and the end of a frame, and a new swap chain.       *)
(***************************************************************************)
\* No frame, no ray tracing.
LEMMA NothingOwned ==
  NothingEnabled \in Settings /\ \A f \in DOMAIN NothingEnabled : ~NothingEnabled[f]
<1> DEFINE none == [clouds |-> FALSE, shadows |-> FALSE, forward |-> FALSE, raytracing |-> FALSE,
                    pathTracing |-> FALSE, tlas |-> FALSE, armed |-> FALSE]
<1>1. none \in Settings
  BY DEF Settings
<1>2. \A f \in DOMAIN none : ~none[f]
  OBVIOUS
<1> QED
  BY <1>1, <1>2 DEF NothingEnabled

\* Between frames nothing is traced.
LEMMA NothingTraced == ~NothingEnabled.tlas
<1>1. "tlas" \in DOMAIN NothingEnabled
  BY NothingOwned DEF Settings
<1> QED
  BY <1>1, NothingOwned

\* Images without accesses, and the one the presentation engine reads.
LEMMA IdleImages ==
  ASSUME NEW layout \in Layouts
  PROVE  /\ Idle(layout) \in ImageRecords /\ Idle(layout).layout = layout
         /\ Idle(layout).writes = {} /\ Idle(layout).reads = {}
BY DEF Idle, ImageRecords

\* Images made anew are ordered, whatever layout the shadow map kept.
LEMMA CreatedImages ==
  ASSUME NEW new, NEW layout \in Layouts, new = [Created EXCEPT !["shadowMap"].layout = layout]
  PROVE  new \in [Images -> ImageRecords] /\ SharedOrdered(new)
<1>1. /\ "General" \in Layouts /\ "DepthAttachment" \in Layouts /\ "Undefined" \in Layouts
  BY DEF Layouts
<1>2. \A i \in Images : \E l \in Layouts : Created[i] = Idle(l)
  BY <1>1 DEF Created
<1>3. /\ Created["cloudOutput"].layout = "General" /\ Created["accumulation"].layout = "General"
  BY DEF Created, Images, SharedImages, Idle
<1>4. Created \in [Images -> ImageRecords]
      /\ \A i \in Images : Created[i].writes = {} /\ Created[i].reads = {}
  <2>1. DOMAIN Created = Images /\ Created = [i \in Images |-> Created[i]]
    BY DEF Created
  <2> QED
    BY <1>2, <2>1, IdleImages
<1>5. new \in [Images -> ImageRecords]
  BY <1>4 DEF ImageRecords
<1>6. /\ \A i \in Images : new[i].writes = {} /\ new[i].reads = {}
      /\ new["cloudOutput"].layout = "General" /\ new["accumulation"].layout = "General"
  BY <1>3, <1>4 DEF ImageRecords, Images, SharedImages
<1>7. SharedOrdered(new)
  <2>1. \A i \in SharedImages : new[i].writes = {} /\ new[i].reads = {}
    BY <1>6 DEF Images
  <2> QED
    BY <1>6, <2>1 DEF SharedImages, SharedOrdered, CloudsOrdered, ShadowsOrdered, ForwardDepthOrdered,
       DeferredDepthOrdered, AccumulationOrdered
<1> QED
  BY <1>5, <1>7

\* The presentation engine ends before the stage that writes the image first.
LEMMA AcquiredImages == Acquired \in ImageRecords /\ Acquirable(Acquired)
<1>1. {"ColorAttachmentOutput"} \subseteq Stages
  BY Masks
<1>2. SecondScope({"ColorAttachmentOutput"}) \subseteq Stages
  <2>1. \A t \in Stages : Later[t] \subseteq Stages
    BY DEF Later
  <2> QED
    BY <1>1, <2>1 DEF SecondScope
<1>3. "ColorAttachmentOutput" \in SecondScope({"ColorAttachmentOutput"})
  BY DEF SecondScope
<1> QED
  BY <1>2, <1>3 DEF Acquired, ImageRecords, ReadRecords, Sources, Layouts, Acquirable

\* BeginFrame: the shared images grew older, those of the frame begin anew.
LEMMA BeginKeeps == ASSUME IInv, NEW s \in Settings, BeginFrame(s) PROVE IInv'
<1>1. /\ pass' = "clouds" /\ settings' = s /\ hazards' = {} /\ mislaid' = {}
      /\ images' = [i \in Images |-> IF i \in SharedImages THEN Aged(images[i])
                                     ELSE IF i = "swapchain" THEN Acquired ELSE Idle("Undefined")]
  BY DEF BeginFrame
<1>2. \A i \in SharedImages : images'[i] = Aged(images[i])
  BY <1>1 DEF Images
<1>3. /\ images'["swapchain"] = Acquired
      /\ images'["offscreen"] = Idle("Undefined") /\ images'["gBuffer"] = Idle("Undefined")
  BY <1>1 DEF Images, PerImage, SharedImages
<1>4. "Undefined" \in Layouts
  BY DEF Layouts
<1>5. \A i \in Images : images[i] \in ImageRecords
  BY DEF IInv
<1>6. images' \in [Images -> ImageRecords]
  BY <1>1, <1>4, <1>5, AgedGrows, AcquiredImages, IdleImages
<1>7. \A i \in SharedImages : Grew(images[i], images'[i])
  BY <1>2, <1>5, AgedGrows DEF Images
<1>8. SharedOrdered(images')
  <2>1. SharedOrdered(images)
    BY DEF IInv
  <2>2. \A i \in Images \ PerImage : Grew(images[i], images'[i])
    BY <1>7 DEF Images
  <2>3. /\ "cloudOutput" \notin PerImage /\ "shadowMap" \notin PerImage /\ "forwardDepth" \notin PerImage
        /\ "deferredDepth" \notin PerImage /\ "accumulation" \notin PerImage
    BY DEF PerImage
  <2> QED
    BY <2>1, <2>2, <2>3, SharedKept
<1>9. FrameOrdered(pass', raytracingOwnsFrame', images')
  BY <1>1, <1>3, <1>4, AcquiredImages, IdleImages DEF FrameOrdered, Untouched
<1> QED
  BY <1>1, <1>6, <1>8, <1>9 DEF IInv, Passes, OnlyRasterSampling

\* Submit: the image is in the layout the present wants.
LEMMA SubmitKeeps == ASSUME IInv, Submit PROVE IInv'
<1>1. /\ pass = "submit" /\ pass' = "idle" /\ settings' = NothingEnabled
      /\ images' = images /\ hazards' = hazards
  BY DEF Submit
<1>2. mislaid' = {}
  BY <1>1 DEF Submit, IInv, FrameOrdered
<1>3. settings' \in Settings /\ ~raytracingOwnsFrame'
  BY <1>1, NothingOwned, NothingTraced DEF raytracingOwnsFrame
<1>4. FrameOrdered(pass', raytracingOwnsFrame', images')
  BY <1>1 DEF FrameOrdered
<1> QED
  BY <1>1, <1>2, <1>3, <1>4 DEF IInv, Passes, OnlyRasterSampling

\* RecreateSwapChain: new images have no accesses.
LEMMA RecreateKeeps == ASSUME IInv, RecreateSwapChain PROVE IInv'
<1>1. /\ pass = "idle" /\ pass' = pass /\ settings' = settings /\ hazards' = hazards /\ mislaid' = mislaid
      /\ images' = [Created EXCEPT !["shadowMap"].layout = images["shadowMap"].layout]
  BY DEF RecreateSwapChain
<1>2. images["shadowMap"].layout \in Layouts
  BY DEF IInv, Images, SharedImages, ImageRecords
<1>3. images' \in [Images -> ImageRecords] /\ SharedOrdered(images')
  BY <1>1, <1>2, CreatedImages
<1>4. FrameOrdered(pass', raytracingOwnsFrame', images')
  BY <1>1 DEF FrameOrdered
<1>5. raytracingOwnsFrame' = raytracingOwnsFrame
  BY <1>1 DEF raytracingOwnsFrame
<1> QED
  BY <1>1, <1>3, <1>4, <1>5 DEF IInv

\* A step of the rest of the system.
LEMMA StutterKeeps == ASSUME IInv, UNCHANGED vars PROVE IInv'
BY DEF vars, IInv, raytracingOwnsFrame

\* The images as they were created.
LEMMA InitHolds == Init => IInv
<1> SUFFICES ASSUME Init PROVE IInv
  OBVIOUS
<1>1. /\ pass = "idle" /\ settings = NothingEnabled /\ images = Created /\ hazards = {} /\ mislaid = {}
  BY DEF Init
<1>2. Created = [Created EXCEPT !["shadowMap"].layout = "Undefined"]
  <2>1. "shadowMap" \in Images /\ Created["shadowMap"] = Idle("Undefined")
    BY DEF Created, Images, SharedImages
  <2>2. Created["shadowMap"] = [Created["shadowMap"] EXCEPT !.layout = "Undefined"]
    BY <2>1 DEF Idle
  <2>3. Created = [i \in Images |-> Created[i]]
    BY DEF Created
  <2> QED
    BY <2>1, <2>2, <2>3
<1>3. images \in [Images -> ImageRecords] /\ SharedOrdered(images)
  <2>1. "Undefined" \in Layouts
    BY DEF Layouts
  <2> QED
    BY <1>1, <1>2, <2>1, CreatedImages
<1>4. FrameOrdered(pass, raytracingOwnsFrame, images)
  BY <1>1 DEF FrameOrdered
<1> QED
  BY <1>1, <1>3, <1>4, NothingOwned DEF IInv, Passes, OnlyRasterSampling

\* One lemma above for each action of the frame.
LEMMA StepKeepsIInv == IInv /\ [Next]_vars => IInv'
<1> SUFFICES ASSUME IInv, [Next]_vars PROVE IInv'
  OBVIOUS
<1>1. ASSUME NEW s \in Settings, BeginFrame(s) PROVE IInv'
  BY <1>1, BeginKeeps
<1>2. CASE RecordClouds
  BY <1>2, CloudsKeep
<1>3. CASE RecordShadows
  BY <1>3, ShadowsKeep
<1>4. CASE RecordRaster
  BY <1>4, RasterKeeps
<1>5. CASE RecordTrace
  BY <1>5, TraceKeeps
<1>6. CASE RecordSky
  BY <1>6, SkyKeeps
<1>7. CASE RecordPost
  BY <1>7, PostKeeps
<1>8. CASE RecordCapture
  BY <1>8, CaptureKeeps
<1>9. CASE Submit
  BY <1>9, SubmitKeeps
<1>10. CASE RecreateSwapChain
  BY <1>10, RecreateKeeps
<1>11. CASE UNCHANGED vars
  BY <1>11, StutterKeeps
<1> QED
  BY <1>1, <1>2, <1>3, <1>4, <1>5, <1>6, <1>7, <1>8, <1>9, <1>10, <1>11 DEF Next

\* The invariant holds of every frame, for any number of frames in flight and with
\* or without ray tracing, in whatever order the stages are switched.
THEOREM FrameGraphInductive == Spec => []IInv
BY InitHolds, StepKeepsIInv, PTL DEF Spec

\* The cloud output, the shadow map, the depth buffers and the history of the path
\* tracer never race: whatever the frames in flight before it did, a frame finds
\* their accesses ordered by what record_commands recorded.
THEOREM SharedImagesNeverRace == Spec => []SharedImagesDoNotRace
<1>1. ASSUME IInv PROVE SharedImagesDoNotRace
  <2>1. \A h \in hazards : h = << "post", "offscreen", "read after write" >>
    BY <1>1 DEF IInv, OnlyRasterSampling
  <2>2. \A h \in hazards : h[2] = "offscreen"
    <3>1. << "post", "offscreen", "read after write" >>[2] = "offscreen"
      OBVIOUS
    <3> QED
      BY <2>1, <3>1
  <2> QED
    BY <2>2 DEF SharedImagesDoNotRace, SharedImages
<1> QED
  BY <1>1, FrameGraphInductive, PTL

\* The images of one frame are handed on in order, from the acquire to the present,
\* but for the sampling of a raster result by the post stage.
THEOREM FrameImagesNeverRace == Spec => []FrameImagesDoNotRace
<1>1. IInv => FrameImagesDoNotRace
  BY DEF IInv, OnlyRasterSampling, FrameImagesDoNotRace
<1> QED
  BY <1>1, FrameGraphInductive, PTL

\* Every stage finds each image in the layout it names, and the present finds
\* ePresentSrcKHR.
THEOREM LayoutsAlwaysNamed == Spec => []ImagesAreInTheNamedLayout
<1>1. IInv => ImagesAreInTheNamedLayout
  BY DEF IInv, ImagesAreInTheNamedLayout
<1> QED
  BY <1>1, FrameGraphInductive, PTL

==============================================================================

---------------------------- MODULE AppRun_proofs ----------------------------
(***************************************************************************)
(* Safety of a run from main() to its exit, for any machines, window sizes, *)
(* image counts, cursor positions and numbers of resizes and launches.      *)
(***************************************************************************)
EXTENDS AppRun, TLAPS, WellFoundedInduction

-----------------------------------------------------------------------------
(***************************************************************************)
(* What the renderer's functions do to the resources of a frame.           *)
(***************************************************************************)

RefsAfter(r, objects, users, new) ==
  {pair \in r.refs : pair[1] \notin objects \cup users /\ pair[2] \notin objects} \cup new

SizedAfter(r, objects) ==
  [array \in PerImage |-> IF array \in objects THEN r.images ELSE r.sized[array]]

\* From r to s: the objects were made anew, every binding of the users' sets was
\* written again, the new pairs are there, and what failed is left out.
Effect(r, s, objects, users, new, failing) ==
  /\ s \in Resources
  /\ s.images = r.images /\ s.pipelines = r.pipelines
  /\ s.loaded = r.loaded /\ s.tlas = r.tlas /\ s.boundMode = r.boundMode
  /\ s.failed = (r.failed \ objects) \cup failing
  /\ s.sized = SizedAfter(r, objects)
  /\ s.refs = RefsAfter(r, objects, users, new)

\* One effect after another is an effect.
LEMMA EffectThen ==
  ASSUME NEW r \in Resources, NEW s, NEW t,
         NEW O1, NEW U1, NEW N1, NEW F1, NEW O2, NEW U2, NEW N2, NEW F2,
         Effect(r, s, O1, U1, N1, F1), Effect(s, t, O2, U2, N2, F2)
  PROVE  Effect(r, t, O1 \cup O2, U1 \cup U2, RefsAfter([refs |-> N1], O2, U2, N2),
                (F1 \ O2) \cup F2)
<1>1. t.refs = RefsAfter(r, O1 \cup O2, U1 \cup U2, RefsAfter([refs |-> N1], O2, U2, N2))
  BY DEF Effect, RefsAfter
<1>2. t.sized = SizedAfter(r, O1 \cup O2)
  BY DEF Effect, SizedAfter
<1>. QED
  BY <1>1, <1>2 DEF Effect

\* A record of resources of which some parts changed.
Changed(r, refs, failed, sized) ==
  [r EXCEPT !.refs = refs, !.failed = failed, !.touched = TRUE, !.sized = sized]

LEMMA ChangedParts ==
  ASSUME NEW r \in Resources, NEW refs \in SUBSET (Names \X Names),
         NEW failed \in SUBSET FailedObjects, NEW sized \in [PerImage -> ImageCounts \cup {0}]
  PROVE  /\ Changed(r, refs, failed, sized) \in Resources
         /\ Changed(r, refs, failed, sized).refs = refs
         /\ Changed(r, refs, failed, sized).failed = failed
         /\ Changed(r, refs, failed, sized).sized = sized
         /\ Changed(r, refs, failed, sized).images = r.images
         /\ Changed(r, refs, failed, sized).pipelines = r.pipelines
         /\ Changed(r, refs, failed, sized).loaded = r.loaded
         /\ Changed(r, refs, failed, sized).tlas = r.tlas
         /\ Changed(r, refs, failed, sized).boundMode = r.boundMode
BY DEF Resources, Changed

LEMMA PartsOf ==
  ASSUME NEW r \in Resources
  PROVE  /\ r.images \in ImageCounts \cup {0} /\ r.refs \in SUBSET (Names \X Names)
         /\ r.sized \in [PerImage -> ImageCounts \cup {0}]
         /\ r.failed \in SUBSET FailedObjects
         /\ r.loaded \in BOOLEAN /\ r.tlas \in BOOLEAN /\ r.boundMode \in Modes
         /\ r.pipelines \in SUBSET Stages(TRUE)
BY DEF Resources

LEMMA SizedAfterParts ==
  ASSUME NEW r \in Resources, NEW objects
  PROVE  /\ SizedAfter(r, objects) \in [PerImage -> ImageCounts \cup {0}]
         /\ objects \cap PerImage = {} => SizedAfter(r, objects) = r.sized
BY PartsOf DEF SizedAfter

LEMMA RefsAfterParts ==
  ASSUME NEW r \in Resources, NEW objects, NEW users, NEW new \in SUBSET (Names \X Names)
  PROVE  RefsAfter(r, objects, users, new) \in SUBSET (Names \X Names)
BY PartsOf DEF RefsAfter

\* The effect, read off the changed record.
LEMMA EffectOf ==
  ASSUME NEW r \in Resources, NEW objects, NEW users,
         NEW new \in SUBSET (Names \X Names), NEW failing \in SUBSET FailedObjects
  PROVE  Effect(r, Changed(r, RefsAfter(r, objects, users, new),
                           (r.failed \ objects) \cup failing, SizedAfter(r, objects)),
                objects, users, new, failing)
<1>1. (r.failed \ objects) \cup failing \in SUBSET FailedObjects
  BY PartsOf
<1>. QED
  BY <1>1, RefsAfterParts, SizedAfterParts, ChangedParts DEF Effect

LEMMA MakeEffect ==
  ASSUME NEW r \in Resources, NEW object \in Names \ PerImage, NEW used \in SUBSET Names
  PROVE  Effect(r, Make(r, object, used), {object}, {}, {object} \X used, {})
<1>1. {object} \cap PerImage = {} /\ {object} \X used \in SUBSET (Names \X Names)
  OBVIOUS
<1>2. SizedAfter(r, {object}) = r.sized
  BY <1>1, SizedAfterParts
<1>3. RefsAfter(r, {object}, {}, {object} \X used)
        = {pair \in r.refs : object \notin {pair[1], pair[2]}} \cup {object} \X used
  BY DEF RefsAfter
<1>4. (r.failed \ {object}) \cup {} = r.failed \ {object}
  OBVIOUS
<1>. DEFINE refs == {pair \in r.refs : object \notin {pair[1], pair[2]}} \cup {object} \X used
<1>5. Make(r, object, used) = Changed(r, refs, r.failed \ {object}, r.sized)
  BY DEF Make, Replace, Refer, Resources, Changed
<1>6. Make(r, object, used)
        = Changed(r, RefsAfter(r, {object}, {}, {object} \X used),
                  (r.failed \ {object}) \cup {}, SizedAfter(r, {object}))
  BY <1>2, <1>3, <1>4, <1>5
<1>. QED
  BY <1>1, <1>6, EffectOf

LEMMA MakePerImageEffect ==
  ASSUME NEW r \in Resources, NEW array \in PerImage, NEW used \in SUBSET Names
  PROVE  Effect(r, MakePerImage(r, array, used), {array}, {}, {array} \X used, {})
<1>1. array \in Names /\ {array} \X used \in SUBSET (Names \X Names)
  BY DEF Names
<1>. DEFINE made == Make(r, array, used)
            refs == {pair \in r.refs : array \notin {pair[1], pair[2]}} \cup {array} \X used
            failed == r.failed \ {array}
<1>2. made = Changed(r, refs, failed, r.sized)
  BY DEF Make, Replace, Refer, Resources, Changed
<1>3. refs = RefsAfter(r, {array}, {}, {array} \X used)
  BY DEF RefsAfter
<1>4. failed = (r.failed \ {array}) \cup {}
  OBVIOUS
<1>. HIDE DEF refs, failed
<1>5. refs \in SUBSET (Names \X Names) /\ failed \in SUBSET FailedObjects
      /\ r.sized \in [PerImage -> ImageCounts \cup {0}]
  BY <1>1, <1>3, <1>4, RefsAfterParts, PartsOf
<1>6. made.images = r.images /\ made.sized = r.sized
  BY <1>2, <1>5, ChangedParts
<1>7. MakePerImage(r, array, used)
        = [made EXCEPT !.sized = [made.sized EXCEPT ![array] = made.images]]
  BY DEF MakePerImage, Using
<1>. HIDE DEF made
<1>8. [made.sized EXCEPT ![array] = made.images] = SizedAfter(r, {array})
  BY <1>6, PartsOf DEF SizedAfter
<1>9. MakePerImage(r, array, used)
        = Changed(r, refs, failed, SizedAfter(r, {array}))
  BY <1>2, <1>7, <1>8 DEF Changed, Resources
<1>10. MakePerImage(r, array, used)
         = Changed(r, RefsAfter(r, {array}, {}, {array} \X used),
                   (r.failed \ {array}) \cup {}, SizedAfter(r, {array}))
  BY <1>3, <1>4, <1>9
<1>. QED
  BY <1>1, <1>10, EffectOf

\* An object without images of its own per swapchain image.
LEMMA UnsizedEffect ==
  ASSUME NEW r \in Resources, NEW s, NEW objects, NEW users,
         NEW new \in SUBSET (Names \X Names), NEW failing \in SUBSET FailedObjects,
         objects \cap PerImage = {},
         NEW refs, refs = RefsAfter(r, objects, users, new),
         NEW failed, failed = (r.failed \ objects) \cup failing,
         s = Changed(r, refs, failed, r.sized)
  PROVE  Effect(r, s, objects, users, new, failing)
<1>1. s = Changed(r, RefsAfter(r, objects, users, new), (r.failed \ objects) \cup failing,
                  SizedAfter(r, objects))
  BY SizedAfterParts
<1>. QED
  BY <1>1, EffectOf

LEMMA ReferEffect ==
  ASSUME NEW r \in Resources, NEW object \in Names, NEW used \in SUBSET Names
  PROVE  Effect(r, Refer(r, object, used), {}, {}, {object} \X used, {})
<1>. DEFINE refs == r.refs \cup {object} \X used
<1>1. {object} \X used \in SUBSET (Names \X Names) /\ {} \cap PerImage = {}
  OBVIOUS
<1>2. refs = RefsAfter(r, {}, {}, {object} \X used)
  BY DEF RefsAfter
<1>3. r.failed = (r.failed \ {}) \cup {}
  OBVIOUS
<1>4. Refer(r, object, used) = Changed(r, refs, r.failed, r.sized)
  BY DEF Refer, Resources, Changed
<1>. HIDE DEF refs
<1>. QED
  BY <1>1, <1>2, <1>3, <1>4, UnsizedEffect

LEMMA RewriteEffect ==
  ASSUME NEW r \in Resources, NEW object \in Names, NEW used \in SUBSET Names
  PROVE  Effect(r, Rewrite(r, object, used), {}, {object}, {object} \X used, {})
<1>. DEFINE refs == {pair \in r.refs : pair[1] # object} \cup {object} \X used
<1>1. {object} \X used \in SUBSET (Names \X Names) /\ {} \cap PerImage = {}
  OBVIOUS
<1>2. refs = RefsAfter(r, {}, {object}, {object} \X used)
  BY DEF RefsAfter
<1>3. r.failed = (r.failed \ {}) \cup {}
  OBVIOUS
<1>4. Rewrite(r, object, used) = Changed(r, refs, r.failed, r.sized)
  BY DEF Rewrite, Refer, Resources, Changed
<1>. HIDE DEF refs
<1>. QED
  BY <1>1, <1>2, <1>3, <1>4, UnsizedEffect

LEMMA ReplaceEffect ==
  ASSUME NEW r \in Resources, NEW object \in Names \ PerImage
  PROVE  Effect(r, Replace(r, object), {object}, {}, {}, {})
<1>. DEFINE refs == {pair \in r.refs : object \notin {pair[1], pair[2]}}
<1>1. {object} \cap PerImage = {}
  OBVIOUS
<1>2. refs = RefsAfter(r, {object}, {}, {})
  BY DEF RefsAfter
<1>3. r.failed \ {object} = (r.failed \ {object}) \cup {}
  OBVIOUS
<1>4. Replace(r, object) = Changed(r, refs, r.failed \ {object}, r.sized)
  BY DEF Replace, Resources, Changed
<1>. HIDE DEF refs
<1>. QED
  BY <1>1, <1>2, <1>3, <1>4, UnsizedEffect

LEMMA FailEffect ==
  ASSUME NEW r \in Resources, NEW object \in FailedObjects
  PROVE  Effect(r, Fail(r, object), {object}, {}, {}, {object})
<1>. DEFINE refs == {pair \in r.refs : object \notin {pair[1], pair[2]}}
<1>1. {object} \cap PerImage = {}
  BY DEF FailedObjects, PerImage
<1>2. refs = RefsAfter(r, {object}, {}, {})
  BY DEF RefsAfter
<1>4. Fail(r, object) = Changed(r, refs, (r.failed \ {object}) \cup {object}, r.sized)
  BY DEF Fail, Replace, Resources, Changed
<1>. HIDE DEF refs
<1>. QED
  BY <1>1, <1>2, <1>4, UnsizedEffect

LEMMA NoEffect ==
  ASSUME NEW r \in Resources
  PROVE  Effect(r, r, {}, {}, {}, {})
<1>1. r.refs = RefsAfter(r, {}, {}, {})
  BY DEF RefsAfter
<1>2. r.sized = SizedAfter(r, {})
  BY SizedAfterParts
<1>. QED
  BY <1>1, <1>2 DEF Effect

LEMMA Rasterizer ==
  ASSUME NEW r \in Resources
  PROVE  Effect(r, CreateRasterizerFrame(r), {"forward", "forwardFramebuffers"}, {},
                {<< "forward", "swapchain" >>, << "forwardFramebuffers", "forward" >>}, {})
<1>. DEFINE s == MakePerImage(r, "forward", {"swapchain"})
            t == MakePerImage(s, "forwardFramebuffers", {"forward"})
<1>1. Effect(r, s, {"forward"}, {}, {"forward"} \X {"swapchain"}, {})
  BY MakePerImageEffect DEF PerImage, Names
<1>2. s \in Resources
  BY <1>1 DEF Effect
<1>3. Effect(s, t, {"forwardFramebuffers"}, {}, {"forwardFramebuffers"} \X {"forward"}, {})
  BY <1>2, MakePerImageEffect DEF PerImage, Names
<1>. HIDE DEF s, t
<1>4. Effect(r, t, {"forward"} \cup {"forwardFramebuffers"}, {} \cup {},
             RefsAfter([refs |-> {"forward"} \X {"swapchain"}], {"forwardFramebuffers"}, {},
                       {"forwardFramebuffers"} \X {"forward"}),
             ({} \ {"forwardFramebuffers"}) \cup {})
  BY <1>1, <1>3, EffectThen
<1>5. RefsAfter([refs |-> {"forward"} \X {"swapchain"}], {"forwardFramebuffers"}, {},
                       {"forwardFramebuffers"} \X {"forward"})
       = {<< "forward", "swapchain" >>, << "forwardFramebuffers", "forward" >>}
  BY DEF RefsAfter
<1>6. /\ {"forward"} \cup {"forwardFramebuffers"} = {"forward", "forwardFramebuffers"}
      /\ {} \cup {} = {} /\ ({} \ {"forwardFramebuffers"}) \cup {} = {}
  OBVIOUS
<1>7. CreateRasterizerFrame(r) = t
  BY DEF CreateRasterizerFrame, s, t
<1>. QED
  BY <1>4, <1>5, <1>6, <1>7

LEMMA Deferred ==
  ASSUME NEW r \in Resources
  PROVE  Effect(r, CreateDeferredFrame(r), {"deferred", "deferredFramebuffers"}, {},
                {<< "deferred", "swapchain" >>, << "deferredFramebuffers", "deferred" >>}, {})
<1>. DEFINE s == MakePerImage(r, "deferred", {"swapchain"})
            t == MakePerImage(s, "deferredFramebuffers", {"deferred"})
<1>1. Effect(r, s, {"deferred"}, {}, {"deferred"} \X {"swapchain"}, {})
  BY MakePerImageEffect DEF PerImage, Names
<1>2. s \in Resources
  BY <1>1 DEF Effect
<1>3. Effect(s, t, {"deferredFramebuffers"}, {}, {"deferredFramebuffers"} \X {"deferred"}, {})
  BY <1>2, MakePerImageEffect DEF PerImage, Names
<1>. HIDE DEF s, t
<1>4. Effect(r, t, {"deferred"} \cup {"deferredFramebuffers"}, {} \cup {},
             RefsAfter([refs |-> {"deferred"} \X {"swapchain"}], {"deferredFramebuffers"}, {},
                       {"deferredFramebuffers"} \X {"deferred"}),
             ({} \ {"deferredFramebuffers"}) \cup {})
  BY <1>1, <1>3, EffectThen
<1>5. RefsAfter([refs |-> {"deferred"} \X {"swapchain"}], {"deferredFramebuffers"}, {},
                       {"deferredFramebuffers"} \X {"deferred"})
       = {<< "deferred", "swapchain" >>, << "deferredFramebuffers", "deferred" >>}
  BY DEF RefsAfter
<1>6. /\ {"deferred"} \cup {"deferredFramebuffers"} = {"deferred", "deferredFramebuffers"}
      /\ {} \cup {} = {} /\ ({} \ {"deferredFramebuffers"}) \cup {} = {}
  OBVIOUS
<1>7. CreateDeferredFrame(r) = t
  BY DEF CreateDeferredFrame, s, t
<1>. QED
  BY <1>4, <1>5, <1>6, <1>7

LEMMA Clouds ==
  ASSUME NEW r \in Resources
  PROVE  Effect(r, RecreateClouds(r), {"cloudOutput"}, {},
                {<< "cloudOutput", "swapchain" >>, << "cloudSets", "cloudOutput" >>}, {})
<1>. DEFINE s == Make(r, "cloudOutput", {"swapchain"})
            t == Refer(s, "cloudSets", {"cloudOutput"})
<1>1. Effect(r, s, {"cloudOutput"}, {}, {"cloudOutput"} \X {"swapchain"}, {})
  BY MakeEffect DEF PerImage, Names
<1>2. s \in Resources
  BY <1>1 DEF Effect
<1>3. Effect(s, t, {}, {}, {"cloudSets"} \X {"cloudOutput"}, {})
  BY <1>2, ReferEffect DEF Names
<1>. HIDE DEF s, t
<1>4. Effect(r, t, {"cloudOutput"} \cup {}, {} \cup {},
             RefsAfter([refs |-> {"cloudOutput"} \X {"swapchain"}], {}, {},
                       {"cloudSets"} \X {"cloudOutput"}),
             ({} \ {}) \cup {})
  BY <1>1, <1>3, EffectThen
<1>5. RefsAfter([refs |-> {"cloudOutput"} \X {"swapchain"}], {}, {},
                {"cloudSets"} \X {"cloudOutput"})
       = {<< "cloudOutput", "swapchain" >>, << "cloudSets", "cloudOutput" >>}
  BY DEF RefsAfter
<1>6. {"cloudOutput"} \cup {} = {"cloudOutput"} /\ {} \cup {} = {} /\ ({} \ {}) \cup {} = {}
  OBVIOUS
<1>7. RecreateClouds(r) = t
  BY DEF RecreateClouds, s, t
<1>. QED
  BY <1>4, <1>5, <1>6, <1>7

\* A pair a frame relies on: made, or its maker failed and is left out.
Live(r, object, used) ==
  << object, used >> \in r.refs \/ object \in r.failed \/ used \in r.failed

LEMMA SwapchainIsThere ==
  ASSUME NEW r \in Resources
  PROVE  "swapchain" \notin r.failed
BY PartsOf DEF FailedObjects

\* Whatever is not made anew or written again stays, and so does what it was made of.
LEMMA LiveAfter ==
  ASSUME NEW r, NEW s, NEW O, NEW U, NEW N, NEW F, Effect(r, s, O, U, N, F)
  PROVE  \A user1, used :
           /\ Live(r, user1, used) /\ user1 \notin O \cup U /\ used \notin O => Live(s, user1, used)
           /\ << user1, used >> \in N => Live(s, user1, used)
           /\ user1 \in F \/ used \in F => Live(s, user1, used)
           /\ << user1, used >> \in r.refs /\ user1 \notin O \cup U /\ used \notin O
                => << user1, used >> \in s.refs
           /\ << user1, used >> \in N => << user1, used >> \in s.refs
BY DEF Effect, RefsAfter, Live

LEMMA SizedStays ==
  ASSUME NEW r \in Resources, NEW s, NEW O, NEW U, NEW N, NEW F, Effect(r, s, O, U, N, F),
         NEW array \in PerImage
  PROVE  /\ r.sized[array] = r.images => s.sized[array] = s.images
         /\ array \in O => s.sized[array] = s.images
BY DEF Effect, SizedAfter

LEMMA SharedSets ==
  ASSUME NEW r \in Resources
  PROVE  Effect(r, InitDescriptorResources(r), {"sharedSets", "postSets", "gbufferSets"}, {},
                {<< "sharedSets", "uniforms" >>}, {})
<1>. DEFINE a == MakePerImage(r, "sharedSets", {})
            b == Refer(a, "sharedSets", {"uniforms"})
            c == MakePerImage(b, "postSets", {})
            d == MakePerImage(c, "gbufferSets", {})
<1>1. Effect(r, a, {"sharedSets"}, {}, {"sharedSets"} \X {}, {})
  BY MakePerImageEffect DEF PerImage
<1>2. a \in Resources
  BY <1>1 DEF Effect
<1>3. Effect(a, b, {}, {}, {"sharedSets"} \X {"uniforms"}, {})
  BY <1>2, ReferEffect DEF Names, PerImage
<1>4. b \in Resources
  BY <1>3 DEF Effect
<1>5. Effect(b, c, {"postSets"}, {}, {"postSets"} \X {}, {})
  BY <1>4, MakePerImageEffect DEF PerImage
<1>6. c \in Resources
  BY <1>5 DEF Effect
<1>7. Effect(c, d, {"gbufferSets"}, {}, {"gbufferSets"} \X {}, {})
  BY <1>6, MakePerImageEffect DEF PerImage
<1>8. InitDescriptorResources(r) = d
  BY DEF InitDescriptorResources, UpdateUBODescriptorSets
<1>. HIDE DEF a, b, c, d
<1>9. d.refs = RefsAfter(r, {"sharedSets", "postSets", "gbufferSets"}, {},
                         {<< "sharedSets", "uniforms" >>})
  <2>1. a.refs = RefsAfter(r, {"sharedSets"}, {}, {})
    BY <1>1 DEF Effect, RefsAfter
  <2>2. b.refs = RefsAfter(r, {"sharedSets"}, {}, {<< "sharedSets", "uniforms" >>})
    BY <1>3, <2>1 DEF Effect, RefsAfter
  <2>3. c.refs = RefsAfter(r, {"sharedSets", "postSets"}, {}, {<< "sharedSets", "uniforms" >>})
    BY <1>5, <2>2 DEF Effect, RefsAfter
  <2>. QED
    BY <1>7, <2>3 DEF Effect, RefsAfter
<1>10. d.sized = SizedAfter(r, {"sharedSets", "postSets", "gbufferSets"})
  BY <1>1, <1>3, <1>5, <1>7 DEF Effect, SizedAfter
<1>. QED
  BY <1>1, <1>3, <1>5, <1>7, <1>8, <1>9, <1>10 DEF Effect

\* What updateAllDescriptorSets() writes: the sets it writes anew, and the pairs.
SetsWritten(r, rrt1) ==
  {"postSets", "gbufferSets"} \cup (IF rrt1 /\ r.tlas THEN {"raytracingSets"} ELSE {})

PairsWritten(r, mode1, rrt1) ==
  {<< "sharedSets", "uniforms" >>, << "sharedSets", "shadowMap" >>,
   << "postSets", mode1 >>, << "postSets", "cloudOutput" >>, << "gbufferSets", "deferred" >>}
    \cup (IF r.loaded THEN {<< "sharedSets", "textures" >>} ELSE {})
    \cup (IF rrt1 /\ r.tlas
            THEN {<< "raytracingSets", "tlas" >>, << "raytracingSets", mode1 >>,
                  << "raytracingSets", "accumulation" >>}
            ELSE {})

LEMMA CountsAreNaturals == \A n \in ImageCounts \cup {0} : n \in Nat
BY FrameResourcesAssumption

LEMMA PostSets ==
  ASSUME NEW r \in Resources, r.sized["postSets"] = r.images, NEW mode1 \in Modes
  PROVE  Effect(r, UpdatePostDescriptorSets(r, mode1), {}, {"postSets"},
                {<< "postSets", mode1 >>, << "postSets", "cloudOutput" >>}, {})
<1>1. ~(r.sized["postSets"] < r.images)
  <2>1. r.images \in Nat
    BY PartsOf, CountsAreNaturals
  <2>. QED
    BY <2>1
<1>2. UpdatePostDescriptorSets(r, mode1) = Rewrite(r, "postSets", {mode1, "cloudOutput"})
  BY <1>1 DEF UpdatePostDescriptorSets, Using
<1>3. {"postSets"} \X {mode1, "cloudOutput"}
        = {<< "postSets", mode1 >>, << "postSets", "cloudOutput" >>}
  OBVIOUS
<1>4. "postSets" \in Names /\ {mode1, "cloudOutput"} \in SUBSET Names
  BY DEF Modes, Names, PerImage
<1>. QED
  BY <1>2, <1>3, <1>4, RewriteEffect

LEMMA Textures ==
  ASSUME NEW r \in Resources
  PROVE  Effect(r, UpdateTextures(r), {}, {},
                {<< "sharedSets", "shadowMap" >>}
                  \cup (IF r.loaded THEN {<< "sharedSets", "textures" >>} ELSE {}), {})
<1>. DEFINE used == {"shadowMap"} \cup (IF r.loaded THEN {"textures"} ELSE {})
<1>1. UpdateTextures(r) = Refer(r, "sharedSets", used)
  BY DEF UpdateTextures, Using
<1>2. {"sharedSets"} \X used
        = {<< "sharedSets", "shadowMap" >>}
            \cup (IF r.loaded THEN {<< "sharedSets", "textures" >>} ELSE {})
  OBVIOUS
<1>3. "sharedSets" \in Names /\ used \in SUBSET Names
  BY DEF Names, PerImage
<1>. HIDE DEF used
<1>. QED
  BY <1>1, <1>2, <1>3, ReferEffect

LEMMA RaytracingSets ==
  ASSUME NEW r \in Resources, NEW mode1 \in Modes
  PROVE  /\ r.tlas =>
              Effect(r, UpdateRaytracingDescriptorSets(r, mode1), {}, {"raytracingSets"},
                     {<< "raytracingSets", "tlas" >>, << "raytracingSets", mode1 >>,
                      << "raytracingSets", "accumulation" >>}, {})
         /\ ~r.tlas => Effect(r, UpdateRaytracingDescriptorSets(r, mode1), {}, {}, {}, {})
<1>. DEFINE used == {"tlas", mode1, "accumulation"}
<1>1. UpdateRaytracingDescriptorSets(r, mode1)
        = IF r.tlas THEN Rewrite(r, "raytracingSets", used) ELSE r
  BY DEF UpdateRaytracingDescriptorSets, Using
<1>2. {"raytracingSets"} \X used
        = {<< "raytracingSets", "tlas" >>, << "raytracingSets", mode1 >>,
           << "raytracingSets", "accumulation" >>}
  OBVIOUS
<1>3. "raytracingSets" \in Names /\ used \in SUBSET Names
  BY DEF Modes, Names, PerImage
<1>. HIDE DEF used
<1>. QED
  BY <1>1, <1>2, <1>3, RewriteEffect, NoEffect

LEMMA DescriptorSets ==
  ASSUME NEW r \in Resources, r.sized["postSets"] = r.images, NEW mode1 \in Modes,
         NEW rrt1 \in BOOLEAN
  PROVE  Effect(r, UpdateAllDescriptorSets(r, mode1, rrt1), {}, SetsWritten(r, rrt1),
                PairsWritten(r, mode1, rrt1), {})
<1>. DEFINE a == UpdateUBODescriptorSets(r)
            b == UpdatePostDescriptorSets(a, mode1)
            c == UpdateGBufferDescriptorSets(b)
            d == UpdateTextures(c)
            e == IF rrt1 THEN UpdateRaytracingDescriptorSets(d, mode1) ELSE d
<1>1. Effect(r, a, {}, {}, {<< "sharedSets", "uniforms" >>}, {})
  <2>1. {"sharedSets"} \X {"uniforms"} = {<< "sharedSets", "uniforms" >>}
    OBVIOUS
  <2>. QED
    BY <2>1, ReferEffect DEF UpdateUBODescriptorSets, Names, PerImage
<1>2. a \in Resources /\ a.sized["postSets"] = a.images
  BY <1>1 DEF Effect, SizedAfter, PerImage
<1>. HIDE DEF a
<1>3. Effect(a, b, {}, {"postSets"},
             {<< "postSets", mode1 >>, << "postSets", "cloudOutput" >>}, {})
  BY <1>2, PostSets
<1>4. b \in Resources
  BY <1>3 DEF Effect
<1>. HIDE DEF b
<1>5. Effect(b, c, {}, {"gbufferSets"}, {<< "gbufferSets", "deferred" >>}, {})
  <2>1. {"gbufferSets"} \X {"deferred"} = {<< "gbufferSets", "deferred" >>}
    OBVIOUS
  <2>. QED
    BY <1>4, <2>1, RewriteEffect DEF UpdateGBufferDescriptorSets, Names, PerImage
<1>6. c \in Resources
  BY <1>5 DEF Effect
<1>. HIDE DEF c
<1>7. Effect(c, d, {}, {}, {<< "sharedSets", "shadowMap" >>}
               \cup (IF c.loaded THEN {<< "sharedSets", "textures" >>} ELSE {}), {})
  BY <1>6, Textures
<1>8. d \in Resources
  BY <1>7 DEF Effect
<1>. HIDE DEF d
<1>9. /\ rrt1 /\ d.tlas =>
           Effect(d, e, {}, {"raytracingSets"},
                  {<< "raytracingSets", "tlas" >>, << "raytracingSets", mode1 >>,
                   << "raytracingSets", "accumulation" >>}, {})
      /\ ~(rrt1 /\ d.tlas) => Effect(d, e, {}, {}, {}, {})
  BY <1>8, RaytracingSets, NoEffect
<1>10. UpdateAllDescriptorSets(r, mode1, rrt1) = e
  BY DEF UpdateAllDescriptorSets, a, b, c, d
<1>. HIDE DEF e
<1>11. c.loaded = r.loaded /\ d.tlas = r.tlas
  BY <1>1, <1>3, <1>5, <1>7 DEF Effect
<1>12. d.refs = RefsAfter(r, {}, {"postSets", "gbufferSets"},
                          {<< "sharedSets", "uniforms" >>, << "sharedSets", "shadowMap" >>,
                           << "postSets", mode1 >>, << "postSets", "cloudOutput" >>,
                           << "gbufferSets", "deferred" >>}
                            \cup (IF r.loaded THEN {<< "sharedSets", "textures" >>} ELSE {}))
  <2>1. a.refs = RefsAfter(r, {}, {}, {<< "sharedSets", "uniforms" >>})
    BY <1>1 DEF Effect
  <2>2. b.refs = RefsAfter(r, {}, {"postSets"},
                   {<< "sharedSets", "uniforms" >>, << "postSets", mode1 >>,
                    << "postSets", "cloudOutput" >>})
    BY <1>3, <2>1 DEF Effect, RefsAfter
  <2>3. c.refs = RefsAfter(r, {}, {"postSets", "gbufferSets"},
                   {<< "sharedSets", "uniforms" >>, << "postSets", mode1 >>,
                    << "postSets", "cloudOutput" >>, << "gbufferSets", "deferred" >>})
    BY <1>5, <2>2 DEF Effect, RefsAfter
  <2>. QED
    BY <1>7, <1>11, <2>3 DEF Effect, RefsAfter
<1>13. e.refs = RefsAfter(r, {}, SetsWritten(r, rrt1), PairsWritten(r, mode1, rrt1))
  <2>1. CASE rrt1 /\ r.tlas
    BY <1>9, <1>11, <1>12, <2>1 DEF Effect, RefsAfter, SetsWritten, PairsWritten
  <2>2. CASE ~(rrt1 /\ r.tlas)
    BY <1>9, <1>11, <1>12, <2>2 DEF Effect, RefsAfter, SetsWritten, PairsWritten
  <2>. QED
    BY <2>1, <2>2
<1>14. e.sized = SizedAfter(r, {})
  <2>1. d.sized = SizedAfter(r, {})
    BY <1>1, <1>3, <1>5, <1>7 DEF Effect, SizedAfter
  <2>. QED
    BY <1>9, <2>1 DEF Effect, SizedAfter
<1>15. d.failed = r.failed /\ d.images = r.images /\ d.pipelines = r.pipelines
       /\ d.loaded = r.loaded /\ d.tlas = r.tlas /\ d.boundMode = r.boundMode
  BY <1>1, <1>3, <1>5, <1>7 DEF Effect
<1>16. e \in Resources /\ e.failed = d.failed /\ e.images = d.images /\ e.pipelines = d.pipelines
       /\ e.loaded = d.loaded /\ e.tlas = d.tlas /\ e.boundMode = d.boundMode
  BY <1>9 DEF Effect
<1>. QED
  BY <1>10, <1>13, <1>14, <1>15, <1>16 DEF Effect

-----------------------------------------------------------------------------
(***************************************************************************)
(* A frame's resources are complete after the constructor and every handler.*)
(***************************************************************************)

\* What a frame needs that updateAllDescriptorSets() does not write.
StandingPairs ==
  {<< "forward", "swapchain" >>, << "forwardFramebuffers", "forward" >>,
   << "deferred", "swapchain" >>, << "deferredFramebuffers", "deferred" >>,
   << "postFramebuffers", "swapchain" >>, << "skyFramebuffers", "swapchain" >>,
   << "cloudOutput", "swapchain" >>, << "cloudSets", "cloudOutput" >>,
   << "cloudSets", "cloudNoise" >>, << "skySets", "cubeMap" >>,
   << "sharedSets", "objectDescriptions" >>}

\* One element per image; the command buffers come last.
ArraysOf(rrt1) == PerImage \ ({"commandBuffers"} \cup (IF rrt1 THEN {} ELSE {"raytracingSets"}))

\* The state of the resources that updateAllDescriptorSets() completes.
Standing(r, rrt1) ==
  /\ \A array \in ArraysOf(rrt1) : r.sized[array] = r.images
  /\ \A pair \in StandingPairs : Live(r, pair[1], pair[2])
  /\ rrt1 => << "accumulation", "swapchain" >> \in r.refs \/ "accumulation" \in r.failed
  /\ << "shadowMap", "sharedSets" >> \in r.refs

LEMMA FrameNeedsAre ==
  ASSUME NEW r, NEW mode1, NEW rrt1 \in BOOLEAN
  PROVE  FrameNeeds(r, mode1, rrt1)
           = StandingPairs \cup PairsWritten(r, mode1, rrt1)
               \cup (IF rrt1 /\ r.tlas THEN {<< "accumulation", "swapchain" >>} ELSE {})
BY DEF FrameNeeds, StandingPairs, PairsWritten

LEMMA CompleteStands ==
  ASSUME NEW r \in Resources, NEW mode1, NEW rrt1 \in BOOLEAN, Complete(r, mode1, rrt1)
  PROVE  /\ Standing(r, rrt1) /\ r.pipelines = Stages(rrt1)
         /\ r.sized["commandBuffers"] = r.images
<1>0. \A array \in ArraysOf(rrt1) \cup {"commandBuffers"} : r.sized[array] = r.images
  BY DEF Complete, ReadsLiveResources, ArraysOf, PerImage
<1>1. \A pair \in StandingPairs : << pair[1], pair[2] >> = pair
  BY DEF StandingPairs
<1>2. \A pair \in StandingPairs : Live(r, pair[1], pair[2])
  BY <1>1, FrameNeedsAre DEF Complete, ReadsLiveResources, Live
<1>. QED
  BY <1>0, <1>2 DEF Complete, ReadsLiveResources, Standing

LEMMA CompleteFrom ==
  ASSUME NEW r \in Resources, NEW mode1, NEW rrt1 \in BOOLEAN, Standing(r, rrt1),
         r.pipelines = Stages(rrt1), r.sized["commandBuffers"] = r.images,
         \A pair \in PairsWritten(r, mode1, rrt1) : Live(r, pair[1], pair[2])
  PROVE  Complete(r, mode1, rrt1)
<1>1. \A pair \in FrameNeeds(r, mode1, rrt1) :
         << pair[1], pair[2] >> = pair /\ Live(r, pair[1], pair[2])
  <2>1. \A pair \in StandingPairs : << pair[1], pair[2] >> = pair
    BY DEF StandingPairs
  <2>2. \A pair \in PairsWritten(r, mode1, rrt1) : << pair[1], pair[2] >> = pair
    BY DEF PairsWritten
  <2>3. rrt1 => Live(r, "accumulation", "swapchain")
    BY DEF Standing, Live
  <2>. QED
    BY <2>1, <2>2, <2>3, FrameNeedsAre DEF Standing
<1>2. \A pair \in FrameNeeds(r, mode1, rrt1) :
         pair \in r.refs \/ pair[1] \in r.failed \/ pair[2] \in r.failed
  BY <1>1 DEF Live
<1>3. \A array \in PerImage \ (IF rrt1 THEN {} ELSE {"raytracingSets"}) :
         r.sized[array] = r.images
  BY DEF Standing, ArraysOf
<1>. QED
  BY <1>2, <1>3 DEF Complete, ReadsLiveResources, Standing

\* An effect that touches none of it leaves what stands.
LEMMA StillStanding ==
  ASSUME NEW r \in Resources, NEW s, NEW O, NEW U, NEW N, NEW F, Effect(r, s, O, U, N, F),
         NEW rrt1 \in BOOLEAN, Standing(r, rrt1),
         \A pair \in StandingPairs \cup {<< "accumulation", "swapchain" >>,
                                        << "shadowMap", "sharedSets" >>} :
            pair[1] \notin O \cup U /\ pair[2] \notin O
  PROVE  Standing(s, rrt1)
<1>0. \A user1, used :
         user1 \notin O \cup U /\ used \notin O =>
           /\ Live(r, user1, used) => Live(s, user1, used)
           /\ << user1, used >> \in r.refs => << user1, used >> \in s.refs
  BY LiveAfter
<1>1. \A array \in ArraysOf(rrt1) : s.sized[array] = s.images
  BY SizedStays DEF Standing, ArraysOf
<1>2. \A pair \in StandingPairs : Live(s, pair[1], pair[2])
  BY <1>0 DEF Standing
<1>3. rrt1 => << "accumulation", "swapchain" >> \in s.refs \/ "accumulation" \in s.failed
  <2>1. "accumulation" \notin O \cup U /\ "swapchain" \notin O
    <3>. DEFINE pair == << "accumulation", "swapchain" >>
    <3>. pair[1] = "accumulation" /\ pair[2] = "swapchain"
      OBVIOUS
    <3>. QED
      OBVIOUS
  <2>2. Live(r, "accumulation", "swapchain") => Live(s, "accumulation", "swapchain")
    BY <1>0, <2>1
  <2>3. s.failed \subseteq FailedObjects /\ "swapchain" \notin FailedObjects
    BY PartsOf DEF Effect, FailedObjects
  <2>. QED
    BY <2>2, <2>3 DEF Standing, Live
<1>4. << "shadowMap", "sharedSets" >> \in s.refs
  <2>1. "shadowMap" \notin O \cup U /\ "sharedSets" \notin O
    <3>. DEFINE pair == << "shadowMap", "sharedSets" >>
    <3>. pair[1] = "shadowMap" /\ pair[2] = "sharedSets"
      OBVIOUS
    <3>. QED
      OBVIOUS
  <2>. QED
    BY <1>0, <2>1 DEF Standing
<1>. QED
  BY <1>1, <1>2, <1>3, <1>4 DEF Standing

\* updateAllDescriptorSets() completes what stands.
LEMMA DescriptorSetsComplete ==
  ASSUME NEW r \in Resources, NEW mode1 \in Modes, NEW rrt1 \in BOOLEAN, Standing(r, rrt1)
  PROVE  LET s == UpdateAllDescriptorSets(r, mode1, rrt1)
         IN /\ s \in Resources
            /\ Standing(s, rrt1)
            /\ \A pair \in PairsWritten(s, mode1, rrt1) : Live(s, pair[1], pair[2])
            /\ s.pipelines = r.pipelines /\ s.boundMode = r.boundMode
            /\ s.sized["commandBuffers"] = r.sized["commandBuffers"] /\ s.images = r.images
            /\ r.pipelines = Stages(rrt1) /\ r.sized["commandBuffers"] = r.images
                 => Complete(s, mode1, rrt1)
<1>. DEFINE s == UpdateAllDescriptorSets(r, mode1, rrt1)
<1>1. r.sized["postSets"] = r.images
  BY DEF Standing, ArraysOf, PerImage
<1>2. Effect(r, s, {}, SetsWritten(r, rrt1), PairsWritten(r, mode1, rrt1), {})
  BY <1>1, DescriptorSets
<1>. HIDE DEF s
<1>3. s \in Resources /\ s.pipelines = r.pipelines /\ s.boundMode = r.boundMode
      /\ s.loaded = r.loaded /\ s.tlas = r.tlas /\ s.images = r.images
      /\ s.sized["commandBuffers"] = r.sized["commandBuffers"]
  BY <1>2 DEF Effect, SizedAfter, PerImage
<1>4. \A pair \in StandingPairs \cup {<< "accumulation", "swapchain" >>,
                                     << "shadowMap", "sharedSets" >>} :
            pair[1] \notin {} \cup SetsWritten(r, rrt1) /\ pair[2] \notin {}
  BY DEF StandingPairs, SetsWritten
<1>5. Standing(s, rrt1)
  BY <1>2, <1>4, StillStanding
<1>6. PairsWritten(s, mode1, rrt1) = PairsWritten(r, mode1, rrt1)
  BY <1>3 DEF PairsWritten
<1>7. \A pair \in PairsWritten(r, mode1, rrt1) :
         << pair[1], pair[2] >> = pair
  BY DEF PairsWritten
<1>8. \A pair \in PairsWritten(s, mode1, rrt1) : Live(s, pair[1], pair[2])
  BY <1>2, <1>6, <1>7, LiveAfter
<1>. QED
  BY <1>3, <1>5, <1>8, CompleteFrom DEF s

LEMMA ObjectDescriptionSets ==
  ASSUME NEW r \in Resources
  PROVE  Effect(r, UpdateObjectDescriptionSets(r), {}, {},
                {<< "sharedSets", "objectDescriptions" >>}, {})
<1>1. {"sharedSets"} \X {"objectDescriptions"} = {<< "sharedSets", "objectDescriptions" >>}
  OBVIOUS
<1>2. "sharedSets" \in Names /\ {"objectDescriptions"} \in SUBSET Names
  BY DEF Names, PerImage
<1>. QED
  BY <1>1, <1>2, ReferEffect DEF UpdateObjectDescriptionSets

LEMMA ObjectDescriptions ==
  ASSUME NEW r \in Resources
  PROVE  Effect(r, RebuildObjectDescriptions(r), {"objectDescriptions"}, {},
                {<< "sharedSets", "objectDescriptions" >>}, {})
<1>. DEFINE s == Replace(r, "objectDescriptions")
            t == UpdateObjectDescriptionSets(s)
            new == {<< "sharedSets", "objectDescriptions" >>}
<1>1. Effect(r, s, {"objectDescriptions"}, {}, {}, {})
  BY ReplaceEffect DEF Names, PerImage
<1>2. s \in Resources
  BY <1>1 DEF Effect
<1>. HIDE DEF s
<1>3. Effect(s, t, {}, {}, new, {})
  BY <1>2, ObjectDescriptionSets
<1>4. RebuildObjectDescriptions(r) = t
  BY DEF RebuildObjectDescriptions, s
<1>. HIDE DEF t
<1>5. t.refs = RefsAfter(r, {"objectDescriptions"}, {}, new)
  BY <1>1, <1>3 DEF Effect, RefsAfter
<1>6. t.sized = SizedAfter(r, {"objectDescriptions"})
  BY <1>1, <1>3 DEF Effect, SizedAfter
<1>7. Effect(r, t, {"objectDescriptions"}, {}, new, {})
  BY <1>1, <1>3, <1>5, <1>6 DEF Effect
<1>. QED
  BY <1>4, <1>7

\* ... and what stands still stands: the pair of the descriptions is made anew.
LEMMA DescribedStands ==
  ASSUME NEW r \in Resources, NEW rrt1 \in BOOLEAN, Standing(r, rrt1)
  PROVE  LET s == RebuildObjectDescriptions(r)
         IN /\ s \in Resources /\ Standing(s, rrt1)
            /\ s.pipelines = r.pipelines /\ s.boundMode = r.boundMode /\ s.images = r.images
            /\ s.loaded = r.loaded /\ s.tlas = r.tlas
            /\ s.sized["commandBuffers"] = r.sized["commandBuffers"]
<1>. DEFINE s == RebuildObjectDescriptions(r)
            new == {<< "sharedSets", "objectDescriptions" >>}
<1>1. Effect(r, s, {"objectDescriptions"}, {}, new, {})
  BY ObjectDescriptions
<1>. HIDE DEF s
<1>2. Live(s, "sharedSets", "objectDescriptions")
  BY <1>1 DEF Effect, RefsAfter, Live
<1>3. \A user1, used :
         Live(r, user1, used) /\ user1 # "objectDescriptions" /\ used # "objectDescriptions"
           => Live(s, user1, used)
  BY <1>1 DEF Effect, RefsAfter, Live
<1>4. \A pair \in StandingPairs : Live(s, pair[1], pair[2])
  <2>1. \A pair \in StandingPairs :
           \/ pair[1] = "sharedSets" /\ pair[2] = "objectDescriptions"
           \/ pair[1] # "objectDescriptions" /\ pair[2] # "objectDescriptions"
    BY DEF StandingPairs
  <2>. QED
    BY <1>2, <1>3, <2>1 DEF Standing
<1>5. rrt1 => << "accumulation", "swapchain" >> \in s.refs \/ "accumulation" \in s.failed
  BY <1>1 DEF Standing, Effect, RefsAfter
<1>6. << "shadowMap", "sharedSets" >> \in s.refs
  BY <1>1 DEF Standing, Effect, RefsAfter
<1>7. \A array \in ArraysOf(rrt1) : s.sized[array] = s.images
  BY <1>1, SizedStays DEF Standing, ArraysOf
<1>8. s.sized["commandBuffers"] = r.sized["commandBuffers"]
  BY <1>1 DEF Effect, SizedAfter, PerImage
<1>. QED
  BY <1>1, <1>4, <1>5, <1>6, <1>7, <1>8 DEF Standing, Effect, s

\* What stands does not rely on the textures or the acceleration structures.
LEMMA StandsWithout ==
  ASSUME NEW r \in Resources, NEW object \in {"textures", "tlas"}, NEW rrt1 \in BOOLEAN,
         Standing(r, rrt1)
  PROVE  LET s == Replace(r, object)
         IN /\ s \in Resources /\ Standing(s, rrt1)
            /\ s.pipelines = r.pipelines /\ s.boundMode = r.boundMode /\ s.images = r.images
            /\ s.sized["commandBuffers"] = r.sized["commandBuffers"]
<1>. DEFINE s == Replace(r, object)
<1>1. Effect(r, s, {object}, {}, {}, {})
  BY ReplaceEffect DEF Names, PerImage
<1>. HIDE DEF s
<1>2. \A pair \in StandingPairs \cup {<< "accumulation", "swapchain" >>,
                                     << "shadowMap", "sharedSets" >>} :
         /\ pair[1] \notin {"textures", "tlas"} \cup {}
         /\ pair[2] \notin {"textures", "tlas"}
  BY DEF StandingPairs
<1>3. Standing(s, rrt1)
  BY <1>1, <1>2, StillStanding
<1>. QED
  BY <1>1, <1>3 DEF Effect, SizedAfter, PerImage, s

LEMMA ModelsStand ==
  ASSUME NEW r \in Resources, NEW loaded \in BOOLEAN, NEW rrt1 \in BOOLEAN, Standing(r, rrt1)
  PROVE  LET s == ChangeModels(r, loaded)
         IN /\ s \in Resources /\ Standing(s, rrt1)
            /\ s.pipelines = r.pipelines /\ s.boundMode = r.boundMode /\ s.images = r.images
            /\ s.sized["commandBuffers"] = r.sized["commandBuffers"]
<1>. DEFINE a == Replace(r, "textures")
            s == [a EXCEPT !.loaded = loaded]
<1>1. /\ a \in Resources /\ Standing(a, rrt1)
      /\ a.pipelines = r.pipelines /\ a.boundMode = r.boundMode /\ a.images = r.images
      /\ a.sized["commandBuffers"] = r.sized["commandBuffers"]
  BY StandsWithout
<1>2. ChangeModels(r, loaded) = s
  BY DEF ChangeModels
<1>. HIDE DEF a
<1>3. s \in Resources /\ s.pipelines = a.pipelines /\ s.boundMode = a.boundMode
      /\ s.images = a.images /\ s.sized = a.sized /\ s.refs = a.refs /\ s.failed = a.failed
  BY <1>1 DEF Resources
<1>. HIDE DEF s
<1>4. Standing(s, rrt1)
  BY <1>1, <1>3 DEF Standing, Live
<1>. QED
  BY <1>1, <1>2, <1>3, <1>4

LEMMA RefreshCompletes ==
  ASSUME NEW r \in Resources, NEW traced, NEW rrt1 \in BOOLEAN, NEW mode1 \in Modes,
         Standing(r, rrt1), r.pipelines = Stages(rrt1), r.sized["commandBuffers"] = r.images
  PROVE  LET s == RefreshAfterSceneChange(r, mode1, rrt1, traced)
         IN s \in Resources /\ Complete(s, mode1, rrt1) /\ s.boundMode = r.boundMode
<1>. DEFINE c == RebuildObjectDescriptions(r)
            d == Replace(c, "tlas")
            f == [d EXCEPT !.tlas = TRUE]
            e == IF rrt1 /\ traced THEN f ELSE c
<1>1. c \in Resources /\ Standing(c, rrt1) /\ c.pipelines = r.pipelines
      /\ c.boundMode = r.boundMode /\ c.images = r.images
      /\ c.sized["commandBuffers"] = r.sized["commandBuffers"]
  BY DescribedStands
<1>. HIDE DEF c
<1>2. d \in Resources /\ Standing(d, rrt1) /\ d.pipelines = r.pipelines
      /\ d.boundMode = r.boundMode /\ d.images = r.images
      /\ d.sized["commandBuffers"] = r.sized["commandBuffers"]
  BY <1>1, StandsWithout
<1>. HIDE DEF d
<1>3. f \in Resources /\ f.pipelines = d.pipelines /\ f.boundMode = d.boundMode
      /\ f.images = d.images /\ f.sized = d.sized /\ f.refs = d.refs /\ f.failed = d.failed
  BY <1>2 DEF Resources
<1>. HIDE DEF f
<1>4. Standing(f, rrt1)
  BY <1>2, <1>3 DEF Standing, Live
<1>5. e \in Resources /\ Standing(e, rrt1) /\ e.pipelines = r.pipelines
      /\ e.boundMode = r.boundMode /\ e.images = r.images
      /\ e.sized["commandBuffers"] = r.sized["commandBuffers"]
  <2>1. CASE rrt1 /\ traced
    BY <1>2, <1>3, <1>4, <2>1
  <2>2. CASE ~(rrt1 /\ traced)
    BY <1>1, <2>2
  <2>. QED
    BY <2>1, <2>2
<1>6. RefreshAfterSceneChange(r, mode1, rrt1, traced) = UpdateAllDescriptorSets(e, mode1, rrt1)
  BY DEF RefreshAfterSceneChange, c, d, f
<1>. HIDE DEF e
<1>. QED
  BY <1>5, <1>6, DescriptorSetsComplete

\* The refresh completes what another handler left, with the models of then or others.
LEMMA RefreshesComplete ==
  ASSUME NEW r \in Resources, NEW traced, NEW loaded \in BOOLEAN, NEW rrt1 \in BOOLEAN,
         NEW mode1 \in Modes, NEW mode0, Complete(r, mode0, rrt1)
  PROVE  /\ LET s == RefreshAfterSceneChange(r, mode1, rrt1, traced)
            IN s \in Resources /\ Complete(s, mode1, rrt1) /\ s.boundMode = r.boundMode
         /\ LET s == RefreshAfterSceneChange(ChangeModels(r, loaded), mode1, rrt1, traced)
            IN s \in Resources /\ Complete(s, mode1, rrt1) /\ s.boundMode = r.boundMode
<1>1. Standing(r, rrt1) /\ r.pipelines = Stages(rrt1) /\ r.sized["commandBuffers"] = r.images
  BY CompleteStands
<1>2. PICK m : m = ChangeModels(r, loaded)
  OBVIOUS
<1>3. /\ m \in Resources /\ Standing(m, rrt1)
      /\ m.pipelines = r.pipelines /\ m.boundMode = r.boundMode /\ m.images = r.images
      /\ m.sized["commandBuffers"] = r.sized["commandBuffers"]
  BY <1>1, <1>2, ModelsStand
<1>. QED
  BY <1>1, <1>2, <1>3, RefreshCompletes

Reloaded(r, rrt1) ==
  [r EXCEPT !.pipelines = {stage \in Stages(rrt1) :
                             stage = "shadow" => << "shadowMap", "sharedSets" >> \in r.refs},
            !.touched = TRUE]

LEMMA ReloadCompletes ==
  ASSUME NEW r \in Resources, NEW rrt1 \in BOOLEAN, NEW mode1, Complete(r, mode1, rrt1)
  PROVE  LET s == ShaderHotReload(r, rrt1)
         IN s \in Resources /\ Complete(s, mode1, rrt1) /\ s.boundMode = r.boundMode
<1>. DEFINE built1 == {stage \in Stages(rrt1) :
                         stage = "shadow" => << "shadowMap", "sharedSets" >> \in r.refs}
            s == [r EXCEPT !.pipelines = built1, !.touched = TRUE]
<1>1. ShaderHotReload(r, rrt1) = s
  <2>1. ShaderHotReload(r, rrt1) = CHOOSE t \in {Reloaded(x, rrt1) : x \in {r}} : TRUE
    BY DEF ShaderHotReload, Using, Reloaded
  <2>2. ShaderHotReload(r, rrt1) = Reloaded(r, rrt1)
    BY <2>1
  <2>. QED
    BY <2>2 DEF Reloaded
<1>2. built1 = Stages(rrt1)
  BY DEF Complete
<1>3. Stages(rrt1) \in SUBSET Stages(TRUE)
  BY DEF Stages
<1>. HIDE DEF built1
<1>4. s \in Resources /\ s.pipelines = Stages(rrt1) /\ s.boundMode = r.boundMode
      /\ s.images = r.images /\ s.sized = r.sized /\ s.refs = r.refs /\ s.failed = r.failed
      /\ s.loaded = r.loaded /\ s.tlas = r.tlas
  BY <1>2, <1>3 DEF Resources
<1>. HIDE DEF s
<1>5. FrameNeeds(s, mode1, rrt1) = FrameNeeds(r, mode1, rrt1)
  BY <1>4 DEF FrameNeeds
<1>. QED
  BY <1>1, <1>4, <1>5 DEF Complete, ReadsLiveResources

LEMMA ModeChangeCompletes ==
  ASSUME NEW r \in Resources, NEW rrt1 \in BOOLEAN, NEW mode1 \in Modes,
         NEW mode0, Complete(r, mode0, rrt1)
  PROVE  LET s == BindRasterizationMode(r, mode1, rrt1)
         IN s \in Resources /\ Complete(s, mode1, rrt1) /\ s.boundMode = mode1
<1>. DEFINE u == UpdateAllDescriptorSets(r, mode1, rrt1)
            s == [u EXCEPT !.boundMode = mode1]
<1>1. BindRasterizationMode(r, mode1, rrt1) = s
  BY DEF BindRasterizationMode
<1>2. u \in Resources /\ Complete(u, mode1, rrt1)
  BY CompleteStands, DescriptorSetsComplete
<1>. HIDE DEF u
<1>3. s \in Resources /\ s.pipelines = u.pipelines /\ s.boundMode = mode1
      /\ s.images = u.images /\ s.sized = u.sized /\ s.refs = u.refs /\ s.failed = u.failed
      /\ s.loaded = u.loaded /\ s.tlas = u.tlas
  BY <1>2 DEF Resources
<1>. HIDE DEF s
<1>4. FrameNeeds(s, mode1, rrt1) = FrameNeeds(u, mode1, rrt1)
  BY <1>3 DEF FrameNeeds
<1>5. Complete(s, mode1, rrt1)
  BY <1>2, <1>3, <1>4 DEF Complete, ReadsLiveResources
<1>. QED
  BY <1>1, <1>3, <1>5

LEMMA ShadowMap ==
  ASSUME NEW r \in Resources
  PROVE  LET s == ReinitShadowMap(r)
         IN /\ s \in Resources
            /\ s.pipelines = r.pipelines \cup {"shadow"}
            /\ s.images = r.images /\ s.loaded = r.loaded /\ s.tlas = r.tlas
            /\ s.boundMode = r.boundMode /\ s.failed = r.failed
            /\ s.sized = SizedAfter(r, {"shadowMap"})
            /\ s.refs = RefsAfter(r, {"shadowMap"}, {}, {<< "shadowMap", "sharedSets" >>})
<1>. DEFINE map == MakePerImage(r, "shadowMap", {"sharedSets"})
            s == [map EXCEPT !.pipelines = @ \cup {"shadow"}]
<1>1. Effect(r, map, {"shadowMap"}, {}, {<< "shadowMap", "sharedSets" >>}, {})
  <2>1. {"shadowMap"} \X {"sharedSets"} = {<< "shadowMap", "sharedSets" >>}
    OBVIOUS
  <2>2. "shadowMap" \in PerImage /\ {"sharedSets"} \in SUBSET Names
    BY DEF PerImage, Names
  <2>. QED
    BY <2>1, <2>2, MakePerImageEffect
<1>2. ReinitShadowMap(r) = s
  BY DEF ReinitShadowMap
<1>. HIDE DEF map
<1>3. "shadow" \in Stages(TRUE)
  BY DEF Stages
<1>4. map \in Resources
  BY <1>1 DEF Effect
<1>5. s \in Resources /\ s.pipelines = map.pipelines \cup {"shadow"}
      /\ s.images = map.images /\ s.loaded = map.loaded /\ s.tlas = map.tlas
      /\ s.boundMode = map.boundMode /\ s.failed = map.failed
      /\ s.sized = map.sized /\ s.refs = map.refs
  BY <1>3, <1>4 DEF Resources
<1>6. map.failed = r.failed
  BY <1>1, PartsOf DEF Effect, FailedObjects
<1>. HIDE DEF s
<1>. QED
  BY <1>1, <1>2, <1>5, <1>6 DEF Effect

\* A new shadow map leaves what stands, and takes the layout of today.
LEMMA ShadowMapStands ==
  ASSUME NEW r \in Resources, NEW rrt1 \in BOOLEAN, NEW arrays,
         \A array \in arrays : array \in PerImage /\ r.sized[array] = r.images
  PROVE  LET s == ReinitShadowMap(r)
         IN /\ \A array \in arrays \cup {"shadowMap"} : s.sized[array] = s.images
            /\ \A user1, used :
                 /\ Live(r, user1, used) /\ user1 # "shadowMap" /\ used # "shadowMap"
                      => Live(s, user1, used)
                 /\ << user1, used >> \in r.refs /\ user1 # "shadowMap" /\ used # "shadowMap"
                      => << user1, used >> \in s.refs
            /\ << "shadowMap", "sharedSets" >> \in s.refs
<1>. DEFINE s == ReinitShadowMap(r)
<1>1. /\ s.images = r.images /\ s.failed = r.failed
      /\ s.sized = SizedAfter(r, {"shadowMap"})
      /\ s.refs = RefsAfter(r, {"shadowMap"}, {}, {<< "shadowMap", "sharedSets" >>})
  BY ShadowMap
<1>. HIDE DEF s
<1>2. \A array \in arrays \cup {"shadowMap"} : s.sized[array] = s.images
  BY <1>1 DEF SizedAfter, PerImage
<1>3. \A user1, used :
        << user1, used >> \in r.refs /\ user1 # "shadowMap" /\ used # "shadowMap"
          => << user1, used >> \in s.refs
  BY <1>1 DEF RefsAfter
<1>4. << "shadowMap", "sharedSets" >> \in s.refs
  BY <1>1 DEF RefsAfter
<1>. QED
  BY <1>1, <1>2, <1>3, <1>4 DEF s, Live

LEMMA ShadowChangeCompletes ==
  ASSUME NEW r \in Resources, NEW rrt1 \in BOOLEAN, NEW mode1, Complete(r, mode1, rrt1),
         mode1 \in Modes
  PROVE  LET s == ReplaceShadowMap(r)
         IN s \in Resources /\ Complete(s, mode1, rrt1) /\ s.boundMode = r.boundMode
<1>. DEFINE a == ReinitShadowMap(r)
            s == UpdateTextures(a)
            arrays == ArraysOf(rrt1) \cup {"commandBuffers"}
<1>1. Standing(r, rrt1) /\ r.pipelines = Stages(rrt1) /\ r.sized["commandBuffers"] = r.images
  BY CompleteStands
<1>2. \A array \in arrays : array \in PerImage /\ r.sized[array] = r.images
  BY <1>1 DEF Standing, ArraysOf, PerImage
<1>3. /\ a \in Resources /\ a.pipelines = r.pipelines
      /\ a.images = r.images /\ a.loaded = r.loaded /\ a.tlas = r.tlas
      /\ a.boundMode = r.boundMode /\ a.failed = r.failed
  <2>1. "shadow" \in Stages(rrt1)
    BY DEF Stages
  <2>. QED
    BY <1>1, <2>1, ShadowMap
<1>. HIDE DEF arrays
<1>4. /\ \A array \in arrays : a.sized[array] = a.images
      /\ \A user1, used :
           Live(r, user1, used) /\ user1 # "shadowMap" /\ used # "shadowMap"
             => Live(a, user1, used)
      /\ << "shadowMap", "sharedSets" >> \in a.refs
  BY <1>2, ShadowMapStands
<1>. HIDE DEF a
<1>5. Effect(a, s, {}, {}, {<< "sharedSets", "shadowMap" >>}
               \cup (IF a.loaded THEN {<< "sharedSets", "textures" >>} ELSE {}), {})
  BY <1>3, Textures
<1>. HIDE DEF s
<1>6. /\ s \in Resources /\ s.pipelines = r.pipelines /\ s.images = a.images
      /\ s.loaded = r.loaded /\ s.tlas = r.tlas /\ s.boundMode = r.boundMode
      /\ s.failed = r.failed
  BY <1>3, <1>5 DEF Effect
<1>7. \A array \in arrays : s.sized[array] = s.images
  BY <1>2, <1>3, <1>4, <1>5, SizedStays
<1>8. \A user1, used :
        Live(r, user1, used) /\ user1 # "shadowMap" /\ used # "shadowMap"
          => Live(s, user1, used)
  BY <1>4, <1>5 DEF Effect, RefsAfter, Live
<1>9. << "shadowMap", "sharedSets" >> \in s.refs /\ Live(s, "sharedSets", "shadowMap")
  BY <1>4, <1>5 DEF Effect, RefsAfter, Live
<1>10. \A pair \in FrameNeeds(r, mode1, rrt1) :
         << pair[1], pair[2] >> = pair /\ Live(r, pair[1], pair[2])
  <2>1. \A pair \in FrameNeeds(r, mode1, rrt1) : << pair[1], pair[2] >> = pair
    BY DEF FrameNeeds
  <2>. QED
    BY <2>1 DEF Complete, ReadsLiveResources, Live
<1>11. \A pair \in FrameNeeds(s, mode1, rrt1) :
         /\ pair \in FrameNeeds(r, mode1, rrt1)
         /\ pair[1] # "shadowMap"
         /\ pair[2] = "shadowMap" => pair[1] = "sharedSets"
  BY <1>6 DEF FrameNeeds, Modes
<1>12. \A pair \in FrameNeeds(s, mode1, rrt1) :
          pair \in s.refs \/ pair[1] \in s.failed \/ pair[2] \in s.failed
  <2>1. \A pair \in FrameNeeds(s, mode1, rrt1) :
           << pair[1], pair[2] >> = pair /\ Live(s, pair[1], pair[2])
    BY <1>8, <1>9, <1>10, <1>11
  <2>. QED
    BY <2>1 DEF Live
<1>13. rrt1 => << "accumulation", "swapchain" >> \in s.refs \/ "accumulation" \in s.failed
  <2>1. Live(r, "accumulation", "swapchain") => Live(s, "accumulation", "swapchain")
    BY <1>8
  <2>. QED
    BY <1>1, <1>6, <2>1, SwapchainIsThere DEF Standing, Live
<1>14. \A array \in PerImage \ (IF rrt1 THEN {} ELSE {"raytracingSets"}) :
         s.sized[array] = s.images
  BY <1>7 DEF arrays, ArraysOf
<1>. QED
  BY <1>1, <1>6, <1>9, <1>12, <1>13, <1>14
  DEF ReplaceShadowMap, Complete, ReadsLiveResources, a, s

-----------------------------------------------------------------------------
(***************************************************************************)
(* recreateSwapChain() and the constructor.                                *)
(***************************************************************************)

\* A step of the construction: what is not among the objects and the users is
\* carried over, the pairs are made, the arrays get one element per image.
Stage(r, s, objects, users, pairs, arrays) ==
  /\ s \in Resources /\ s.images = r.images
  /\ s.pipelines \in {r.pipelines, r.pipelines \cup {"shadow"}}
  /\ s.loaded = r.loaded /\ s.tlas = r.tlas /\ s.boundMode = r.boundMode
  /\ \A user1, used :
       << user1, used >> \in r.refs /\ user1 \notin objects \cup users /\ used \notin objects
         => << user1, used >> \in s.refs
  /\ \A object : object \in r.failed /\ object \notin objects => object \in s.failed
  /\ \A array \in PerImage : array \notin objects => s.sized[array] = r.sized[array]
  /\ \A user1, used : << user1, used >> \in pairs => << user1, used >> \in s.refs
  /\ \A array \in arrays : s.sized[array] = s.images

LEMMA EffectStage ==
  ASSUME NEW r, NEW s, NEW O, NEW U, NEW N, NEW F, Effect(r, s, O, U, N, F)
  PROVE  Stage(r, s, O, U, N, O \cap PerImage)
BY DEF Effect, Stage, RefsAfter, SizedAfter

LEMMA ArrayStage ==
  ASSUME NEW r \in Resources, NEW array \in PerImage, NEW used \in Names
  PROVE  /\ Stage(r, MakePerImage(r, array, {used}), {array}, {}, {<< array, used >>}, {array})
         /\ Stage(r, MakePerImage(r, array, {}), {array}, {}, {}, {array})
<1>1. /\ Effect(r, MakePerImage(r, array, {used}), {array}, {}, {array} \X {used}, {})
      /\ Effect(r, MakePerImage(r, array, {}), {array}, {}, {array} \X {}, {})
  BY MakePerImageEffect
<1>2. {array} \X {used} = {<< array, used >>} /\ {array} \X {} = {}
      /\ {array} \cap PerImage = {array}
  OBVIOUS
<1>. QED
  BY <1>1, <1>2, EffectStage

LEMMA RasterizerStage ==
  ASSUME NEW r \in Resources
  PROVE  Stage(r, CreateRasterizerFrame(r), {"forward", "forwardFramebuffers"}, {},
               {<< "forward", "swapchain" >>, << "forwardFramebuffers", "forward" >>},
               {"forward", "forwardFramebuffers"})
<1>1. {"forward", "forwardFramebuffers"} \cap PerImage = {"forward", "forwardFramebuffers"}
  BY DEF PerImage
<1>. QED
  BY <1>1, Rasterizer, EffectStage

LEMMA DeferredStage ==
  ASSUME NEW r \in Resources
  PROVE  Stage(r, CreateDeferredFrame(r), {"deferred", "deferredFramebuffers"}, {},
               {<< "deferred", "swapchain" >>, << "deferredFramebuffers", "deferred" >>},
               {"deferred", "deferredFramebuffers"})
<1>1. {"deferred", "deferredFramebuffers"} \cap PerImage = {"deferred", "deferredFramebuffers"}
  BY DEF PerImage
<1>. QED
  BY <1>1, Deferred, EffectStage

LEMMA CloudsStage ==
  ASSUME NEW r \in Resources
  PROVE  Stage(r, RecreateClouds(r), {"cloudOutput"}, {},
               {<< "cloudOutput", "swapchain" >>, << "cloudSets", "cloudOutput" >>}, {})
<1>1. {"cloudOutput"} \cap PerImage = {}
  BY DEF PerImage
<1>. QED
  BY <1>1, Clouds, EffectStage

LEMMA SharedSetsStage ==
  ASSUME NEW r \in Resources
  PROVE  Stage(r, InitDescriptorResources(r), {"sharedSets", "postSets", "gbufferSets"}, {},
               {<< "sharedSets", "uniforms" >>}, {"sharedSets", "postSets", "gbufferSets"})
<1>1. {"sharedSets", "postSets", "gbufferSets"} \cap PerImage
        = {"sharedSets", "postSets", "gbufferSets"}
  BY DEF PerImage
<1>. QED
  BY <1>1, SharedSets, EffectStage

LEMMA ShadowMapStage ==
  ASSUME NEW r \in Resources
  PROVE  Stage(r, ReinitShadowMap(r), {"shadowMap"}, {},
               {<< "shadowMap", "sharedSets" >>}, {"shadowMap"})
BY ShadowMap DEF Stage, RefsAfter, SizedAfter, PerImage

\* The accumulation images are made, or their failure is known.
LEMMA AccumulationStage ==
  ASSUME NEW r \in Resources, NEW failures
  PROVE  LET s == CreateAccumulation(r, failures)
         IN /\ Stage(r, s, {"accumulation"}, {}, {}, {})
            /\ << "accumulation", "swapchain" >> \in s.refs \/ "accumulation" \in s.failed
<1>. DEFINE s == CreateAccumulation(r, failures)
<1>0. {"accumulation"} \cap PerImage = {}
  BY DEF PerImage
<1>1. CASE "accumulation" \in failures
  <2>1. Effect(r, s, {"accumulation"}, {}, {}, {"accumulation"})
    BY <1>1, FailEffect DEF CreateAccumulation, FailedObjects
  <2>2. Stage(r, s, {"accumulation"}, {}, {}, {})
    BY <1>0, <2>1, EffectStage
  <2>3. "accumulation" \in s.failed
    BY <2>1 DEF Effect
  <2>. QED
    BY <2>2, <2>3
<1>2. CASE "accumulation" \notin failures
  <2>0. "accumulation" \in Names \ PerImage /\ {"swapchain"} \in SUBSET Names
    BY DEF Names, PerImage
  <2>1. Effect(r, s, {"accumulation"}, {}, {"accumulation"} \X {"swapchain"}, {})
    BY <1>2, <2>0, MakeEffect DEF CreateAccumulation
  <2>2. Stage(r, s, {"accumulation"}, {}, {"accumulation"} \X {"swapchain"}, {})
    BY <1>0, <2>1, EffectStage
  <2>3. << "accumulation", "swapchain" >> \in s.refs
    BY <2>1 DEF Effect, RefsAfter
  <2>. QED
    BY <2>2, <2>3 DEF Stage
<1>. QED
  BY <1>1, <1>2

LEMMA ObjectDescriptionSetsStage ==
  ASSUME NEW r \in Resources
  PROVE  LET s == UpdateObjectDescriptionSets(r)
         IN Stage(r, s, {}, {}, {}, {}) /\ Live(s, "sharedSets", "objectDescriptions")
<1>. DEFINE s == UpdateObjectDescriptionSets(r)
            new == {<< "sharedSets", "objectDescriptions" >>}
<1>1. Effect(r, s, {}, {}, new, {})
  BY ObjectDescriptionSets
<1>. HIDE DEF s
<1>2. Live(s, "sharedSets", "objectDescriptions")
  BY <1>1 DEF Effect, RefsAfter, Live
<1>3. Stage(r, s, {}, {}, {}, {})
  <2>1. Stage(r, s, {}, {}, new, {} \cap PerImage)
    BY <1>1, EffectStage
  <2>. QED
    BY <2>1 DEF Stage
<1>. QED
  BY <1>2, <1>3 DEF s

LEMMA DescriptorSetsStage ==
  ASSUME NEW r \in Resources, r.sized["postSets"] = r.images, NEW mode1 \in Modes,
         NEW rrt1 \in BOOLEAN
  PROVE  Stage(r, UpdateAllDescriptorSets(r, mode1, rrt1), {}, SetsWritten(r, rrt1),
               PairsWritten(r, mode1, rrt1), {})
<1>1. {} \cap PerImage = {}
  OBVIOUS
<1>. QED
  BY <1>1, DescriptorSets, EffectStage

LEMMA Swapchain ==
  ASSUME NEW r \in Resources, NEW images1 \in ImageCounts
  PROVE  LET s == CreateSwapchain(r, images1)
         IN /\ Stage([r EXCEPT !.images = images1], s, {"swapchain"}, {}, {}, {})
            /\ [r EXCEPT !.images = images1] \in Resources
            /\ s.pipelines = r.pipelines
<1>. DEFINE q == [r EXCEPT !.images = images1]
            a == Replace(r, "swapchain")
            s == [a EXCEPT !.images = images1]
<1>0. /\ q \in Resources /\ q.images = images1 /\ q.pipelines = r.pipelines
      /\ q.refs = r.refs /\ q.failed = r.failed /\ q.sized = r.sized
      /\ q.loaded = r.loaded /\ q.tlas = r.tlas /\ q.boundMode = r.boundMode
  BY DEF Resources
<1>1. Effect(r, a, {"swapchain"}, {}, {}, {})
  BY ReplaceEffect DEF Names, PerImage
<1>2. a \in Resources
  BY <1>1 DEF Effect
<1>. HIDE DEF a
<1>3. /\ s \in Resources /\ s.images = images1 /\ s.pipelines = a.pipelines
      /\ s.refs = a.refs /\ s.failed = a.failed /\ s.sized = a.sized
      /\ s.loaded = a.loaded /\ s.tlas = a.tlas /\ s.boundMode = a.boundMode
  BY <1>2 DEF Resources
<1>4. CreateSwapchain(r, images1) = s
  BY DEF CreateSwapchain, a
<1>. HIDE DEF s, q
<1>5. Stage(q, s, {"swapchain"}, {}, {}, {})
  BY <1>0, <1>1, <1>3 DEF Effect, Stage, RefsAfter, SizedAfter
<1>. QED
  BY <1>0, <1>1, <1>3, <1>4, <1>5 DEF q, Effect

\* The pairs of StandingPairs that hold whatever happens to the swapchain.
KeptPairs ==
  {<< "cloudSets", "cloudNoise" >>, << "skySets", "cubeMap" >>,
   << "sharedSets", "objectDescriptions" >>}

\* ... and those recreateSwapChain() makes anew.
FramePairs ==
  {<< "forward", "swapchain" >>, << "forwardFramebuffers", "forward" >>,
   << "deferred", "swapchain" >>, << "deferredFramebuffers", "deferred" >>,
   << "postFramebuffers", "swapchain" >>, << "skyFramebuffers", "swapchain" >>,
   << "cloudOutput", "swapchain" >>, << "cloudSets", "cloudOutput" >>}

FrameArrays ==
  {"forward", "forwardFramebuffers", "deferred", "deferredFramebuffers",
   "postFramebuffers", "skyFramebuffers"}

\* Everything of the swapchain's size, in the order of recreateSwapChain().
LEMMA FrameImages ==
  ASSUME NEW r \in Resources, NEW images1 \in ImageCounts, NEW rrt1 \in BOOLEAN, NEW failures,
         NEW a, a = CreatePostFramebuffers(CreateSwapchain(r, images1)),
         NEW b, b = RecreateClouds(CreateDeferredFrame(CreateRasterizerFrame(a))),
         NEW c, c = IF rrt1 THEN CreateAccumulation(b, failures) ELSE b,
         NEW s, s = CreateSkyFramebuffers(c)
  PROVE  /\ s \in Resources /\ s.images = images1
         /\ s.pipelines \in {r.pipelines, r.pipelines \cup {"shadow"}}
         /\ s.loaded = r.loaded /\ s.tlas = r.tlas /\ s.boundMode = r.boundMode
         /\ \A pair \in FramePairs : pair \in s.refs
         /\ \A array \in FrameArrays : s.sized[array] = s.images
         /\ rrt1 => << "accumulation", "swapchain" >> \in s.refs \/ "accumulation" \in s.failed
         /\ \A pair \in KeptPairs \cup {<< "shadowMap", "sharedSets" >>} :
               pair \in r.refs => pair \in s.refs
         /\ \A object \in {"cubeMap", "objectDescriptions"} :
               object \in r.failed => object \in s.failed
         /\ \A array \in PerImage \ FrameArrays : s.sized[array] = r.sized[array]
<1>. DEFINE q == [r EXCEPT !.images = images1]
            d == CreateSwapchain(r, images1)
            e == CreateRasterizerFrame(a)
            f == CreateDeferredFrame(e)
<1>0. /\ q.images = images1 /\ q.pipelines = r.pipelines
      /\ q.refs = r.refs /\ q.failed = r.failed /\ q.sized = r.sized
      /\ q.loaded = r.loaded /\ q.tlas = r.tlas /\ q.boundMode = r.boundMode
  BY DEF Resources
<1>1. Stage(q, d, {"swapchain"}, {}, {}, {})
  BY Swapchain
<1>. HIDE DEF q, d
<1>2. Stage(d, a, {"postFramebuffers"}, {}, {<< "postFramebuffers", "swapchain" >>},
            {"postFramebuffers"})
  <2>1. "postFramebuffers" \in PerImage /\ "swapchain" \in Names /\ d \in Resources
    BY <1>1 DEF PerImage, Names, Stage
  <2>. QED
    BY <2>1, ArrayStage DEF CreatePostFramebuffers, d
<1>3. Stage(a, e, {"forward", "forwardFramebuffers"}, {},
            {<< "forward", "swapchain" >>, << "forwardFramebuffers", "forward" >>},
            {"forward", "forwardFramebuffers"})
  BY <1>2, RasterizerStage DEF Stage
<1>. HIDE DEF e
<1>4. Stage(e, f, {"deferred", "deferredFramebuffers"}, {},
            {<< "deferred", "swapchain" >>, << "deferredFramebuffers", "deferred" >>},
            {"deferred", "deferredFramebuffers"})
  BY <1>3, DeferredStage DEF Stage
<1>. HIDE DEF f
<1>5. Stage(f, b, {"cloudOutput"}, {},
            {<< "cloudOutput", "swapchain" >>, << "cloudSets", "cloudOutput" >>}, {})
  BY <1>4, CloudsStage DEF Stage, f, e
<1>6. /\ Stage(b, c, {"accumulation"}, {}, {}, {})
      /\ rrt1 => << "accumulation", "swapchain" >> \in c.refs \/ "accumulation" \in c.failed
  <2>1. b \in Resources
    BY <1>5 DEF Stage
  <2>2. CASE rrt1
    BY <2>1, <2>2, AccumulationStage
  <2>3. CASE ~rrt1
    BY <2>1, <2>3 DEF Stage
  <2>. QED
    BY <2>2, <2>3
<1>7. Stage(c, s, {"skyFramebuffers"}, {}, {<< "skyFramebuffers", "swapchain" >>},
            {"skyFramebuffers"})
  <2>1. "skyFramebuffers" \in PerImage /\ "swapchain" \in Names /\ c \in Resources
    BY <1>6 DEF PerImage, Names, Stage
  <2>. QED
    BY <2>1, ArrayStage DEF CreateSkyFramebuffers
<1>8. /\ s \in Resources /\ s.images = images1
      /\ s.pipelines \in {r.pipelines, r.pipelines \cup {"shadow"}}
      /\ s.loaded = r.loaded /\ s.tlas = r.tlas /\ s.boundMode = r.boundMode
  BY <1>0, <1>1, <1>2, <1>3, <1>4, <1>5, <1>6, <1>7 DEF Stage
<1>9. /\ << "forward", "swapchain" >> \in s.refs
      /\ << "forwardFramebuffers", "forward" >> \in s.refs
  BY <1>3, <1>4, <1>5, <1>6, <1>7 DEF Stage
<1>10. /\ << "deferred", "swapchain" >> \in s.refs
       /\ << "deferredFramebuffers", "deferred" >> \in s.refs
  BY <1>4, <1>5, <1>6, <1>7 DEF Stage
<1>11. << "postFramebuffers", "swapchain" >> \in s.refs
  BY <1>2, <1>3, <1>4, <1>5, <1>6, <1>7 DEF Stage
<1>12. /\ << "cloudOutput", "swapchain" >> \in s.refs
       /\ << "cloudSets", "cloudOutput" >> \in s.refs
       /\ << "skyFramebuffers", "swapchain" >> \in s.refs
  BY <1>5, <1>6, <1>7 DEF Stage
<1>13. \A pair \in FramePairs : pair \in s.refs
  BY <1>9, <1>10, <1>11, <1>12 DEF FramePairs
<1>14. \A array \in FrameArrays : s.sized[array] = s.images
  BY <1>2, <1>3, <1>4, <1>5, <1>6, <1>7 DEF FrameArrays, Stage, PerImage
<1>15. rrt1 => << "accumulation", "swapchain" >> \in s.refs \/ "accumulation" \in s.failed
  BY <1>6, <1>7 DEF Stage
<1>16. \A pair \in KeptPairs \cup {<< "shadowMap", "sharedSets" >>} :
               pair \in r.refs => pair \in s.refs
  <2>. SUFFICES ASSUME NEW user1, NEW used,
                       << user1, used >> \in KeptPairs \cup {<< "shadowMap", "sharedSets" >>},
                       << user1, used >> \in r.refs
                PROVE  << user1, used >> \in s.refs
    BY DEF KeptPairs
  <2>. DEFINE made == {"swapchain", "postFramebuffers", "forward", "forwardFramebuffers",
                       "deferred", "deferredFramebuffers", "cloudOutput", "accumulation",
                       "skyFramebuffers"}
  <2>1. user1 \notin made /\ used \notin made
    BY DEF KeptPairs
  <2>2. << user1, used >> \in a.refs
    BY <1>0, <1>1, <1>2, <2>1 DEF Stage
  <2>3. << user1, used >> \in f.refs
    BY <1>3, <1>4, <2>1, <2>2 DEF Stage
  <2>. QED
    BY <1>5, <1>6, <1>7, <2>1, <2>3 DEF Stage
<1>17. \A object \in {"cubeMap", "objectDescriptions"} : object \in r.failed => object \in s.failed
  BY <1>0, <1>1, <1>2, <1>3, <1>4, <1>5, <1>6, <1>7 DEF Stage
<1>18. \A array \in PerImage \ FrameArrays : s.sized[array] = r.sized[array]
  BY <1>0, <1>1, <1>2, <1>3, <1>4, <1>5, <1>6, <1>7 DEF Stage, FrameArrays, PerImage
<1>. QED
  BY <1>8, <1>13, <1>14, <1>15, <1>16, <1>17, <1>18

\* New sets and buffers for a new number of images, and what they are written with.
LEMMA Reprovisioned ==
  ASSUME NEW r \in Resources, NEW rrt1 \in BOOLEAN,
         \A pair \in FramePairs : pair \in r.refs,
         \A array \in FrameArrays : r.sized[array] = r.images,
         rrt1 => << "accumulation", "swapchain" >> \in r.refs \/ "accumulation" \in r.failed,
         Live(r, "cloudSets", "cloudNoise"), Live(r, "skySets", "cubeMap")
  PROVE  LET s == UpdateObjectDescriptionSets(ReprovisionPerImageResources(r, rrt1))
         IN /\ s \in Resources /\ Standing(s, rrt1) /\ s.images = r.images
            /\ s.pipelines \in {r.pipelines, r.pipelines \cup {"shadow"}}
            /\ s.boundMode = r.boundMode
<1>. DEFINE u == CreateUniformBuffers(r)
            v == InitDescriptorResources(u)
            w == ReinitShadowMap(v)
            x == IF rrt1 THEN CreateRaytracingSets(w) ELSE w
            s == UpdateObjectDescriptionSets(x)
<1>1. Stage(r, u, {"uniforms"}, {}, {}, {"uniforms"})
  <2>1. "uniforms" \in PerImage
    BY DEF PerImage
  <2>2. \E used : used \in Names
    BY DEF Names
  <2>. QED
    BY <2>1, <2>2, ArrayStage DEF CreateUniformBuffers
<1>. HIDE DEF u
<1>2. Stage(u, v, {"sharedSets", "postSets", "gbufferSets"}, {}, {<< "sharedSets", "uniforms" >>},
            {"sharedSets", "postSets", "gbufferSets"})
  BY <1>1, SharedSetsStage DEF Stage
<1>. HIDE DEF v
<1>3. Stage(v, w, {"shadowMap"}, {}, {<< "shadowMap", "sharedSets" >>}, {"shadowMap"})
  BY <1>2, ShadowMapStage DEF Stage
<1>. HIDE DEF w
<1>4. /\ Stage(w, x, {"raytracingSets"}, {}, {}, {})
      /\ rrt1 => x.sized["raytracingSets"] = x.images
  <2>0. w \in Resources /\ "raytracingSets" \in PerImage
    BY <1>3 DEF Stage, PerImage
  <2>1. CASE rrt1
    <3>1. \E used : used \in Names
      BY DEF Names
    <3>2. Stage(w, x, {"raytracingSets"}, {}, {}, {"raytracingSets"})
      BY <2>0, <2>1, <3>1, ArrayStage DEF CreateRaytracingSets
    <3>. QED
      BY <3>2 DEF Stage
  <2>2. CASE ~rrt1
    BY <2>0, <2>2 DEF Stage
  <2>. QED
    BY <2>1, <2>2
<1>. HIDE DEF x
<1>5. Stage(x, s, {}, {}, {}, {}) /\ Live(s, "sharedSets", "objectDescriptions")
  BY <1>4, ObjectDescriptionSetsStage DEF Stage
<1>6. UpdateObjectDescriptionSets(ReprovisionPerImageResources(r, rrt1)) = s
  BY DEF ReprovisionPerImageResources, u, v, w, x
<1>. HIDE DEF s
<1>7. /\ s \in Resources /\ s.images = r.images
      /\ s.pipelines \in {r.pipelines, r.pipelines \cup {"shadow"}}
      /\ s.boundMode = r.boundMode
  BY <1>1, <1>2, <1>3, <1>4, <1>5 DEF Stage
<1>8. \A user1, used :
        /\ user1 \notin {"uniforms", "sharedSets", "postSets", "gbufferSets", "shadowMap",
                         "raytracingSets"}
        /\ used \notin {"uniforms", "sharedSets", "postSets", "gbufferSets", "shadowMap",
                        "raytracingSets"}
        => /\ << user1, used >> \in r.refs => << user1, used >> \in s.refs
           /\ user1 \in r.failed => user1 \in s.failed
           /\ used \in r.failed => used \in s.failed
  <2>. SUFFICES ASSUME NEW user1, NEW used,
                  user1 \notin {"uniforms", "sharedSets", "postSets", "gbufferSets", "shadowMap",
                                "raytracingSets"},
                  used \notin {"uniforms", "sharedSets", "postSets", "gbufferSets", "shadowMap",
                               "raytracingSets"}
                PROVE  /\ << user1, used >> \in r.refs => << user1, used >> \in s.refs
                       /\ user1 \in r.failed => user1 \in s.failed
                       /\ used \in r.failed => used \in s.failed
    OBVIOUS
  <2>1. << user1, used >> \in r.refs => << user1, used >> \in v.refs
    BY <1>1, <1>2 DEF Stage
  <2>2. << user1, used >> \in v.refs => << user1, used >> \in s.refs
    BY <1>3, <1>4, <1>5 DEF Stage
  <2>3. /\ user1 \in r.failed => user1 \in s.failed
        /\ used \in r.failed => used \in s.failed
    BY <1>1, <1>2, <1>3, <1>4, <1>5 DEF Stage
  <2>. QED
    BY <2>1, <2>2, <2>3
<1>9. \A pair \in FramePairs : pair \in s.refs
  BY <1>8 DEF FramePairs
<1>10. Live(s, "cloudSets", "cloudNoise") /\ Live(s, "skySets", "cubeMap")
  BY <1>8 DEF Live
<1>11. \A pair \in StandingPairs : Live(s, pair[1], pair[2])
  <2>1. \A pair \in StandingPairs :
          \/ pair \in FramePairs
          \/ pair[1] = "cloudSets" /\ pair[2] = "cloudNoise"
          \/ pair[1] = "skySets" /\ pair[2] = "cubeMap"
          \/ pair[1] = "sharedSets" /\ pair[2] = "objectDescriptions"
    BY DEF StandingPairs, FramePairs
  <2>2. \A pair \in FramePairs : << pair[1], pair[2] >> = pair
    BY DEF FramePairs
  <2>. QED
    BY <1>5, <1>9, <1>10, <2>1, <2>2 DEF Live
<1>12. rrt1 => << "accumulation", "swapchain" >> \in s.refs \/ "accumulation" \in s.failed
  BY <1>8
<1>13. << "shadowMap", "sharedSets" >> \in s.refs
  BY <1>3, <1>4, <1>5 DEF Stage
<1>14. \A array \in ArraysOf(rrt1) : s.sized[array] = s.images
  <2>1. \A array \in FrameArrays : s.sized[array] = s.images
    BY <1>1, <1>2, <1>3, <1>4, <1>5 DEF Stage, FrameArrays, PerImage
  <2>2. /\ s.sized["uniforms"] = s.images /\ s.sized["sharedSets"] = s.images
        /\ s.sized["postSets"] = s.images /\ s.sized["gbufferSets"] = s.images
        /\ s.sized["shadowMap"] = s.images
        /\ rrt1 => s.sized["raytracingSets"] = s.images
    BY <1>1, <1>2, <1>3, <1>4, <1>5 DEF Stage, PerImage
  <2>. QED
    BY <2>1, <2>2 DEF ArraysOf, PerImage, FrameArrays
<1>. QED
  BY <1>6, <1>7, <1>11, <1>12, <1>13, <1>14 DEF Standing

LEMMA SwapChainCompletes ==
  ASSUME NEW r \in Resources, NEW images1 \in ImageCounts, NEW rrt1 \in BOOLEAN,
         NEW mode1 \in Modes, NEW failures, NEW mode0, Complete(r, mode0, rrt1)
  PROVE  LET s == RecreateSwapChain(r, images1, mode1, rrt1, failures)
         IN s \in Resources /\ Complete(s, mode1, rrt1) /\ s.boundMode = r.boundMode
<1>. DEFINE a == CreatePostFramebuffers(CreateSwapchain(r, images1))
            b == RecreateClouds(CreateDeferredFrame(CreateRasterizerFrame(a)))
            c == IF rrt1 THEN CreateAccumulation(b, failures) ELSE b
            d == CreateSkyFramebuffers(c)
            e == IF images1 = r.images THEN d
                 ELSE UpdateObjectDescriptionSets(ReprovisionPerImageResources(d, rrt1))
            f == UpdateAllDescriptorSets(e, mode1, rrt1)
            s == CreateCommandBuffers(f)
<1>1. RecreateSwapChain(r, images1, mode1, rrt1, failures) = s
  BY DEF RecreateSwapChain
<1>2. Standing(r, rrt1) /\ r.pipelines = Stages(rrt1)
  BY CompleteStands
<1>0. /\ a = CreatePostFramebuffers(CreateSwapchain(r, images1))
      /\ b = RecreateClouds(CreateDeferredFrame(CreateRasterizerFrame(a)))
      /\ c = IF rrt1 THEN CreateAccumulation(b, failures) ELSE b
      /\ d = CreateSkyFramebuffers(c)
  OBVIOUS
<1>. HIDE DEF a, b, c, d
<1>3. /\ d \in Resources /\ d.images = images1
      /\ d.pipelines \in {r.pipelines, r.pipelines \cup {"shadow"}}
      /\ d.boundMode = r.boundMode
      /\ \A pair \in FramePairs : pair \in d.refs
      /\ \A array \in FrameArrays : d.sized[array] = d.images
      /\ rrt1 => << "accumulation", "swapchain" >> \in d.refs \/ "accumulation" \in d.failed
      /\ \A pair \in KeptPairs \cup {<< "shadowMap", "sharedSets" >>} :
            pair \in r.refs => pair \in d.refs
      /\ \A object \in {"cubeMap", "objectDescriptions"} : object \in r.failed => object \in d.failed
      /\ \A array \in PerImage \ FrameArrays : d.sized[array] = r.sized[array]
  BY <1>0, FrameImages
<1>5. Live(d, "cloudSets", "cloudNoise") /\ Live(d, "skySets", "cubeMap")
      /\ Live(d, "sharedSets", "objectDescriptions")
  <2>1. /\ << "cloudSets", "cloudNoise" >> \in KeptPairs /\ << "skySets", "cubeMap" >> \in KeptPairs
        /\ << "sharedSets", "objectDescriptions" >> \in KeptPairs
    BY DEF KeptPairs
  <2>2. Live(r, "cloudSets", "cloudNoise") /\ Live(r, "skySets", "cubeMap")
        /\ Live(r, "sharedSets", "objectDescriptions")
    <3>. DEFINE p == << "cloudSets", "cloudNoise" >>
                q == << "skySets", "cubeMap" >>
                t == << "sharedSets", "objectDescriptions" >>
    <3>1. p \in StandingPairs /\ q \in StandingPairs /\ t \in StandingPairs
      BY DEF StandingPairs
    <3>2. /\ p[1] = "cloudSets" /\ p[2] = "cloudNoise" /\ q[1] = "skySets" /\ q[2] = "cubeMap"
          /\ t[1] = "sharedSets" /\ t[2] = "objectDescriptions"
      OBVIOUS
    <3>. HIDE DEF p, q, t
    <3>. QED
      BY <1>2, <3>1, <3>2 DEF Standing
  <2>3. r.failed \subseteq FailedObjects
    BY PartsOf
  <2>. QED
    BY <1>3, <2>1, <2>2, <2>3 DEF Live, FailedObjects
<1>6. e \in Resources /\ Standing(e, rrt1) /\ e.images = images1
      /\ e.pipelines = Stages(rrt1) /\ e.boundMode = r.boundMode
  <2>0. r.pipelines \cup {"shadow"} = r.pipelines
    BY <1>2 DEF Stages
  <2>1. CASE images1 = r.images
    <3>1. \A array \in ArraysOf(rrt1) : d.sized[array] = d.images
      BY <1>2, <1>3, <2>1 DEF Standing, ArraysOf
    <3>2. \A pair \in StandingPairs : Live(d, pair[1], pair[2])
      <4>1. \A pair \in StandingPairs :
              \/ pair \in FramePairs
              \/ pair[1] = "cloudSets" /\ pair[2] = "cloudNoise"
              \/ pair[1] = "skySets" /\ pair[2] = "cubeMap"
              \/ pair[1] = "sharedSets" /\ pair[2] = "objectDescriptions"
        BY DEF StandingPairs, FramePairs
      <4>2. \A pair \in FramePairs : << pair[1], pair[2] >> = pair
        BY DEF FramePairs
      <4>3. \A pair \in FramePairs : Live(d, pair[1], pair[2])
        <5>1. \A pair \in FramePairs : pair \in d.refs
          BY <1>3
        <5>. QED
          BY <4>2, <5>1 DEF Live
      <4>. QED
        BY <1>5, <4>1, <4>3
    <3>3. << "shadowMap", "sharedSets" >> \in d.refs
      BY <1>2, <1>3 DEF Standing
    <3>4. Standing(d, rrt1)
      BY <1>3, <3>1, <3>2, <3>3 DEF Standing
    <3>. QED
      BY <1>2, <1>3, <2>0, <2>1, <3>4
  <2>2. CASE images1 # r.images
    <3>. DEFINE t == UpdateObjectDescriptionSets(ReprovisionPerImageResources(d, rrt1))
    <3>1. /\ t \in Resources /\ Standing(t, rrt1) /\ t.images = d.images
          /\ t.pipelines \in {d.pipelines, d.pipelines \cup {"shadow"}}
          /\ t.boundMode = d.boundMode
      BY <1>3, <1>5, Reprovisioned
    <3>2. e = t
      BY <2>2
    <3>. HIDE DEF e, t
    <3>. QED
      BY <1>2, <1>3, <2>0, <3>1, <3>2
  <2>. QED
    BY <2>1, <2>2
<1>. HIDE DEF e
<1>7. /\ f \in Resources /\ Standing(f, rrt1)
      /\ \A pair \in PairsWritten(f, mode1, rrt1) : Live(f, pair[1], pair[2])
      /\ f.pipelines = Stages(rrt1) /\ f.boundMode = r.boundMode
  BY <1>6, DescriptorSetsComplete
<1>. HIDE DEF f
<1>8. Effect(f, s, {"commandBuffers"}, {}, {"commandBuffers"} \X {}, {})
  BY <1>7, MakePerImageEffect DEF CreateCommandBuffers, PerImage
<1>. HIDE DEF s
<1>9. Standing(s, rrt1)
  <2>1. \A pair \in StandingPairs \cup {<< "accumulation", "swapchain" >>,
                                       << "shadowMap", "sharedSets" >>} :
          pair[1] \notin {"commandBuffers"} \cup {} /\ pair[2] \notin {"commandBuffers"}
    BY DEF StandingPairs
  <2>. QED
    BY <1>7, <1>8, <2>1, StillStanding
<1>10. /\ s \in Resources /\ s.pipelines = Stages(rrt1) /\ s.boundMode = r.boundMode
       /\ s.loaded = f.loaded /\ s.tlas = f.tlas
  BY <1>7, <1>8 DEF Effect
<1>11. s.sized["commandBuffers"] = s.images
  BY <1>7, <1>8, SizedStays DEF PerImage
<1>12. \A pair \in PairsWritten(s, mode1, rrt1) : Live(s, pair[1], pair[2])
  <2>1. PairsWritten(s, mode1, rrt1) = PairsWritten(f, mode1, rrt1)
    BY <1>10 DEF PairsWritten
  <2>2. \A pair \in PairsWritten(f, mode1, rrt1) :
          pair[1] # "commandBuffers" /\ pair[2] # "commandBuffers"
    BY DEF PairsWritten, Modes
  <2>3. \A user1, used :
          Live(f, user1, used) /\ user1 # "commandBuffers" /\ used # "commandBuffers"
            => Live(s, user1, used)
    BY <1>8 DEF Effect, RefsAfter, Live
  <2>. QED
    BY <1>7, <2>1, <2>2, <2>3
<1>. QED
  BY <1>1, <1>9, <1>10, <1>11, <1>12, CompleteFrom

LEMMA NewCloudsStage ==
  ASSUME NEW r \in Resources
  PROVE  Stage(r, InitClouds(r), {"cloudNoise", "cloudOutput", "cloudSets"}, {},
               {<< "cloudOutput", "swapchain" >>, << "cloudSets", "cloudOutput" >>,
                << "cloudSets", "cloudNoise" >>}, {})
<1>. DEFINE a == Make(r, "cloudNoise", {})
            b == Make(a, "cloudOutput", {"swapchain"})
            s == Make(b, "cloudSets", {"cloudOutput", "cloudNoise"})
<1>0. /\ "cloudNoise" \in Names \ PerImage /\ "cloudOutput" \in Names \ PerImage
      /\ "cloudSets" \in Names \ PerImage /\ {} \in SUBSET Names /\ {"swapchain"} \in SUBSET Names
      /\ {"cloudOutput", "cloudNoise"} \in SUBSET Names
  BY DEF Names, PerImage
<1>1. Effect(r, a, {"cloudNoise"}, {}, {"cloudNoise"} \X {}, {})
  BY <1>0, MakeEffect
<1>2. a \in Resources
  BY <1>1 DEF Effect
<1>. HIDE DEF a
<1>3. Effect(a, b, {"cloudOutput"}, {}, {"cloudOutput"} \X {"swapchain"}, {})
  BY <1>0, <1>2, MakeEffect
<1>4. b \in Resources
  BY <1>3 DEF Effect
<1>. HIDE DEF b
<1>5. Effect(b, s, {"cloudSets"}, {}, {"cloudSets"} \X {"cloudOutput", "cloudNoise"}, {})
  BY <1>0, <1>4, MakeEffect
<1>6. InitClouds(r) = s
  BY DEF InitClouds, a, b
<1>. HIDE DEF s
<1>7. {"cloudNoise"} \cap PerImage = {} /\ {"cloudOutput"} \cap PerImage = {}
      /\ {"cloudSets"} \cap PerImage = {}
  BY <1>0
<1>8. Stage(r, a, {"cloudNoise"}, {}, {}, {})
  <2>1. {"cloudNoise"} \X {} = {}
    OBVIOUS
  <2>. QED
    BY <1>1, <1>7, <2>1, EffectStage
<1>9. Stage(a, b, {"cloudOutput"}, {}, {<< "cloudOutput", "swapchain" >>}, {})
  <2>1. {"cloudOutput"} \X {"swapchain"} = {<< "cloudOutput", "swapchain" >>}
    OBVIOUS
  <2>. QED
    BY <1>3, <1>7, <2>1, EffectStage
<1>10. Stage(b, s, {"cloudSets"}, {},
             {<< "cloudSets", "cloudOutput" >>, << "cloudSets", "cloudNoise" >>}, {})
  <2>1. {"cloudSets"} \X {"cloudOutput", "cloudNoise"}
          = {<< "cloudSets", "cloudOutput" >>, << "cloudSets", "cloudNoise" >>}
    OBVIOUS
  <2>. QED
    BY <1>5, <1>7, <2>1, EffectStage
<1>. QED
  BY <1>6, <1>8, <1>9, <1>10 DEF Stage

\* loadCubeMap() leaves a cube map, or says that there is none.
LEMMA CubeMapStage ==
  ASSUME NEW r \in Resources, NEW failures
  PROVE  LET s == LoadCubeMap(r, failures)
         IN Stage(r, s, {"cubeMap"}, {}, {}, {}) /\ Live(s, "skySets", "cubeMap")
<1>. DEFINE s == LoadCubeMap(r, failures)
            loads == failures \cap {"faces", "cubeUpload"} = {} \/ "fallbackUpload" \notin failures
<1>. HIDE DEF s
<1>1. CASE loads
  <2>1. s = Refer(r, "skySets", {"cubeMap"})
    BY <1>1 DEF LoadCubeMap, s
  <2>2. Effect(r, s, {}, {}, {"skySets"} \X {"cubeMap"}, {})
    BY <2>1, ReferEffect DEF Names
  <2>3. Live(s, "skySets", "cubeMap")
    BY <2>2 DEF Effect, RefsAfter, Live
  <2>4. Stage(r, s, {}, {}, {"skySets"} \X {"cubeMap"}, {} \cap PerImage)
    BY <2>2, EffectStage
  <2>5. Stage(r, s, {"cubeMap"}, {}, {}, {})
    BY <2>4 DEF Stage
  <2>. QED
    BY <2>3, <2>5 DEF s
<1>2. CASE ~loads
  <2>1. s = Fail(r, "cubeMap")
    BY <1>2 DEF LoadCubeMap, s
  <2>2. Effect(r, s, {"cubeMap"}, {}, {}, {"cubeMap"})
    BY <2>1, FailEffect DEF FailedObjects
  <2>3. Live(s, "skySets", "cubeMap")
    BY <2>2 DEF Effect, Live
  <2>4. Stage(r, s, {"cubeMap"}, {}, {}, {"cubeMap"} \cap PerImage)
    BY <2>2, EffectStage
  <2>5. Stage(r, s, {"cubeMap"}, {}, {}, {})
    BY <2>4 DEF Stage
  <2>. QED
    BY <2>3, <2>5 DEF s
<1>. QED
  BY <1>1, <1>2

LEMMA ObjectDescriptionsStage ==
  ASSUME NEW r \in Resources
  PROVE  LET s == RebuildObjectDescriptions(r)
         IN /\ Stage(r, s, {"objectDescriptions"}, {}, {}, {})
            /\ Live(s, "sharedSets", "objectDescriptions")
<1>. DEFINE s == RebuildObjectDescriptions(r)
            new == {<< "sharedSets", "objectDescriptions" >>}
<1>1. Effect(r, s, {"objectDescriptions"}, {}, new, {})
  BY ObjectDescriptions
<1>. HIDE DEF s
<1>2. Live(s, "sharedSets", "objectDescriptions")
  BY <1>1 DEF Effect, RefsAfter, Live
<1>3. Stage(r, s, {"objectDescriptions"}, {}, new, {"objectDescriptions"} \cap PerImage)
  BY <1>1, EffectStage
<1>4. Stage(r, s, {"objectDescriptions"}, {}, {}, {})
  BY <1>3 DEF Stage
<1>. QED
  BY <1>2, <1>4 DEF s

LEMMA NothingYet == NoResources \in Resources /\ NoResources.boundMode = "forward"
BY DEF NoResources, Resources, Modes, Stages

LEMMA ConstructCompletes ==
  ASSUME NEW images1 \in ImageCounts, NEW mode1 \in Modes, NEW rrt1 \in BOOLEAN, NEW failures
  PROVE  LET s == Construct(images1, mode1, rrt1, failures)
         IN s \in Resources /\ Complete(s, mode1, rrt1) /\ s.boundMode = "forward"
<1>. DEFINE q == [NoResources EXCEPT !.images = images1]
            a == CreateSwapchain(NoResources, images1)
            b == CreateUniformBuffers(a)
            c == CreateCommandBuffers(b)
            d == InitDescriptorResources(c)
            e == CreateRasterizerFrame(d)
            f == CreateDeferredFrame(e)
            g == InitClouds(f)
            h == ReinitShadowMap(g)
            i == CreatePostFramebuffers(h)
            j == IF rrt1 THEN CreateRaytracingSets(i) ELSE i
            k == IF rrt1 THEN CreateAccumulation(j, failures) ELSE j
            l == UpdateAllDescriptorSets(k, mode1, rrt1)
            m == LoadCubeMap(l, failures)
            n == CreateSkyFramebuffers(m)
            o == RebuildObjectDescriptions(n)
            p == UpdateAllDescriptorSets(o, mode1, rrt1)
            s == [p EXCEPT !.pipelines = Stages(rrt1)]
<1>1. Construct(images1, mode1, rrt1, failures) = s
  <2>1. CASE rrt1
    BY <2>1 DEF Construct
  <2>2. CASE ~rrt1
    BY <2>2 DEF Construct
  <2>. QED
    BY <2>1, <2>2
<1>2. Stage(q, a, {"swapchain"}, {}, {}, {}) /\ q.boundMode = "forward" /\ q.images = images1
  <2>1. q.boundMode = "forward" /\ q.images = images1
    BY DEF NoResources
  <2>. QED
    BY <2>1, NothingYet, Swapchain
<1>. HIDE DEF q, a
<1>3. Stage(a, b, {"uniforms"}, {}, {}, {"uniforms"})
  <2>1. a \in Resources /\ "uniforms" \in PerImage /\ \E used : used \in Names
    BY <1>2 DEF Stage, PerImage, Names
  <2>. QED
    BY <2>1, ArrayStage DEF CreateUniformBuffers
<1>. HIDE DEF b
<1>4. Stage(b, c, {"commandBuffers"}, {}, {}, {"commandBuffers"})
  <2>1. b \in Resources /\ "commandBuffers" \in PerImage /\ \E used : used \in Names
    BY <1>3 DEF Stage, PerImage, Names
  <2>. QED
    BY <2>1, ArrayStage DEF CreateCommandBuffers
<1>. HIDE DEF c
<1>5. Stage(c, d, {"sharedSets", "postSets", "gbufferSets"}, {}, {<< "sharedSets", "uniforms" >>},
            {"sharedSets", "postSets", "gbufferSets"})
  BY <1>4, SharedSetsStage DEF Stage
<1>. HIDE DEF d
<1>6. Stage(d, e, {"forward", "forwardFramebuffers"}, {},
            {<< "forward", "swapchain" >>, << "forwardFramebuffers", "forward" >>},
            {"forward", "forwardFramebuffers"})
  BY <1>5, RasterizerStage DEF Stage
<1>. HIDE DEF e
<1>7. Stage(e, f, {"deferred", "deferredFramebuffers"}, {},
            {<< "deferred", "swapchain" >>, << "deferredFramebuffers", "deferred" >>},
            {"deferred", "deferredFramebuffers"})
  BY <1>6, DeferredStage DEF Stage
<1>. HIDE DEF f
<1>8. Stage(f, g, {"cloudNoise", "cloudOutput", "cloudSets"}, {},
               {<< "cloudOutput", "swapchain" >>, << "cloudSets", "cloudOutput" >>,
                << "cloudSets", "cloudNoise" >>}, {})
  BY <1>7, NewCloudsStage DEF Stage
<1>. HIDE DEF g
<1>9. Stage(g, h, {"shadowMap"}, {}, {<< "shadowMap", "sharedSets" >>}, {"shadowMap"})
  BY <1>8, ShadowMapStage DEF Stage
<1>. HIDE DEF h
<1>10. Stage(h, i, {"postFramebuffers"}, {}, {<< "postFramebuffers", "swapchain" >>},
             {"postFramebuffers"})
  <2>1. h \in Resources /\ "postFramebuffers" \in PerImage /\ "swapchain" \in Names
    BY <1>9 DEF Stage, PerImage, Names
  <2>. QED
    BY <2>1, ArrayStage DEF CreatePostFramebuffers
<1>. HIDE DEF i
<1>11. /\ Stage(i, j, {"raytracingSets"}, {}, {}, {})
       /\ rrt1 => j.sized["raytracingSets"] = j.images
  <2>0. i \in Resources /\ "raytracingSets" \in PerImage /\ \E used : used \in Names
    BY <1>10 DEF Stage, PerImage, Names
  <2>1. CASE rrt1
    <3>1. Stage(i, j, {"raytracingSets"}, {}, {}, {"raytracingSets"})
      BY <2>0, <2>1, ArrayStage DEF CreateRaytracingSets
    <3>. QED
      BY <3>1 DEF Stage
  <2>2. CASE ~rrt1
    BY <2>0, <2>2 DEF Stage
  <2>. QED
    BY <2>1, <2>2
<1>. HIDE DEF j
<1>12. /\ Stage(j, k, {"accumulation"}, {}, {}, {})
       /\ rrt1 => << "accumulation", "swapchain" >> \in k.refs \/ "accumulation" \in k.failed
  <2>1. j \in Resources
    BY <1>11 DEF Stage
  <2>2. CASE rrt1
    BY <2>1, <2>2, AccumulationStage
  <2>3. CASE ~rrt1
    BY <2>1, <2>3 DEF Stage
  <2>. QED
    BY <2>2, <2>3
<1>. HIDE DEF k
<1>13. /\ k.sized["uniforms"] = k.images /\ k.sized["commandBuffers"] = k.images
       /\ k.sized["sharedSets"] = k.images /\ k.sized["postSets"] = k.images
       /\ k.sized["gbufferSets"] = k.images /\ k.sized["forward"] = k.images
       /\ k.sized["forwardFramebuffers"] = k.images /\ k.sized["deferred"] = k.images
       /\ k.sized["deferredFramebuffers"] = k.images /\ k.sized["shadowMap"] = k.images
       /\ k.sized["postFramebuffers"] = k.images
       /\ rrt1 => k.sized["raytracingSets"] = k.images
  <2>1. /\ f.sized["uniforms"] = f.images /\ f.sized["commandBuffers"] = f.images
        /\ f.sized["sharedSets"] = f.images /\ f.sized["postSets"] = f.images
        /\ f.sized["gbufferSets"] = f.images /\ f.sized["forward"] = f.images
        /\ f.sized["forwardFramebuffers"] = f.images /\ f.sized["deferred"] = f.images
        /\ f.sized["deferredFramebuffers"] = f.images
    BY <1>3, <1>4, <1>5, <1>6, <1>7 DEF Stage, PerImage
  <2>. QED
    BY <1>8, <1>9, <1>10, <1>11, <1>12, <2>1 DEF Stage, PerImage
<1>14. /\ << "forward", "swapchain" >> \in k.refs
       /\ << "forwardFramebuffers", "forward" >> \in k.refs
       /\ << "deferred", "swapchain" >> \in k.refs
       /\ << "deferredFramebuffers", "deferred" >> \in k.refs
       /\ << "postFramebuffers", "swapchain" >> \in k.refs
       /\ << "cloudOutput", "swapchain" >> \in k.refs
       /\ << "cloudSets", "cloudOutput" >> \in k.refs
       /\ << "cloudSets", "cloudNoise" >> \in k.refs
       /\ << "shadowMap", "sharedSets" >> \in k.refs
  <2>1. /\ << "forward", "swapchain" >> \in g.refs
        /\ << "forwardFramebuffers", "forward" >> \in g.refs
        /\ << "deferred", "swapchain" >> \in g.refs
        /\ << "deferredFramebuffers", "deferred" >> \in g.refs
    BY <1>6, <1>7, <1>8 DEF Stage
  <2>2. /\ << "cloudOutput", "swapchain" >> \in g.refs
        /\ << "cloudSets", "cloudOutput" >> \in g.refs
        /\ << "cloudSets", "cloudNoise" >> \in g.refs
    BY <1>8 DEF Stage
  <2>. QED
    BY <1>9, <1>10, <1>11, <1>12, <2>1, <2>2 DEF Stage
<1>15. k \in Resources /\ k.images = images1 /\ k.boundMode = "forward"
  BY <1>2, <1>3, <1>4, <1>5, <1>6, <1>7, <1>8, <1>9, <1>10, <1>11, <1>12 DEF Stage
<1>16. Stage(k, l, {}, SetsWritten(k, rrt1), PairsWritten(k, mode1, rrt1), {})
  BY <1>13, <1>15, DescriptorSetsStage
<1>. HIDE DEF l
<1>17. Stage(l, m, {"cubeMap"}, {}, {}, {}) /\ Live(m, "skySets", "cubeMap")
  BY <1>16, CubeMapStage DEF Stage
<1>. HIDE DEF m
<1>18. Stage(m, n, {"skyFramebuffers"}, {}, {<< "skyFramebuffers", "swapchain" >>},
             {"skyFramebuffers"})
  <2>1. m \in Resources /\ "skyFramebuffers" \in PerImage /\ "swapchain" \in Names
    BY <1>17 DEF Stage, PerImage, Names
  <2>. QED
    BY <2>1, ArrayStage DEF CreateSkyFramebuffers
<1>. HIDE DEF n
<1>19. Stage(n, o, {"objectDescriptions"}, {}, {}, {}) /\ Live(o, "sharedSets", "objectDescriptions")
  BY <1>18, ObjectDescriptionsStage DEF Stage
<1>. HIDE DEF o
<1>20. o \in Resources /\ o.images = images1 /\ o.boundMode = "forward"
  BY <1>15, <1>16, <1>17, <1>18, <1>19 DEF Stage
<1>21. \A array \in ArraysOf(rrt1) \cup {"commandBuffers"} : o.sized[array] = o.images
  <2>1. \A array \in (ArraysOf(rrt1) \cup {"commandBuffers"}) \ {"skyFramebuffers"} :
           array \in PerImage /\ k.sized[array] = k.images
    BY <1>13 DEF ArraysOf, PerImage
  <2>2. \A array \in (ArraysOf(rrt1) \cup {"commandBuffers"}) \ {"skyFramebuffers"} :
           o.sized[array] = o.images
    BY <1>16, <1>17, <1>18, <1>19, <2>1 DEF Stage, PerImage
  <2>3. o.sized["skyFramebuffers"] = o.images
    BY <1>18, <1>19 DEF Stage, PerImage
  <2>. QED
    BY <2>2, <2>3
<1>22. /\ << "forward", "swapchain" >> \in o.refs
       /\ << "forwardFramebuffers", "forward" >> \in o.refs
       /\ << "deferred", "swapchain" >> \in o.refs
       /\ << "deferredFramebuffers", "deferred" >> \in o.refs
       /\ << "postFramebuffers", "swapchain" >> \in o.refs
       /\ << "cloudOutput", "swapchain" >> \in o.refs
       /\ << "cloudSets", "cloudOutput" >> \in o.refs
       /\ << "cloudSets", "cloudNoise" >> \in o.refs
       /\ << "shadowMap", "sharedSets" >> \in o.refs
  <2>1. SetsWritten(k, rrt1) \subseteq {"postSets", "gbufferSets", "raytracingSets"}
    BY DEF SetsWritten
  <2>. QED
    BY <1>14, <1>16, <1>17, <1>18, <1>19, <2>1 DEF Stage
<1>23. << "skyFramebuffers", "swapchain" >> \in o.refs
  BY <1>18, <1>19 DEF Stage
<1>24. Live(o, "skySets", "cubeMap")
  BY <1>17, <1>18, <1>19 DEF Stage, Live
<1>25. rrt1 => << "accumulation", "swapchain" >> \in o.refs \/ "accumulation" \in o.failed
  <2>1. SetsWritten(k, rrt1) \subseteq {"postSets", "gbufferSets", "raytracingSets"}
    BY DEF SetsWritten
  <2>. QED
    BY <1>12, <1>16, <1>17, <1>18, <1>19, <2>1 DEF Stage
<1>26. \A pair \in StandingPairs : Live(o, pair[1], pair[2])
  <2>1. \A pair \in StandingPairs :
           \/ pair \in FramePairs
           \/ pair[1] = "cloudSets" /\ pair[2] = "cloudNoise"
           \/ pair[1] = "skySets" /\ pair[2] = "cubeMap"
           \/ pair[1] = "sharedSets" /\ pair[2] = "objectDescriptions"
    BY DEF StandingPairs, FramePairs
  <2>2. \A pair \in FramePairs : << pair[1], pair[2] >> = pair
    BY DEF FramePairs
  <2>3. \A pair \in FramePairs : pair \in o.refs
    BY <1>22, <1>23 DEF FramePairs
  <2>4. \A pair \in FramePairs : Live(o, pair[1], pair[2])
    BY <2>2, <2>3 DEF Live
  <2>5. Live(o, "cloudSets", "cloudNoise")
    BY <1>22 DEF Live
  <2>. QED
    BY <1>19, <1>24, <2>1, <2>4, <2>5
<1>27. Standing(o, rrt1)
  BY <1>21, <1>22, <1>25, <1>26 DEF Standing
<1>28. /\ p \in Resources /\ Standing(p, rrt1)
       /\ \A pair \in PairsWritten(p, mode1, rrt1) : Live(p, pair[1], pair[2])
       /\ p.boundMode = "forward" /\ p.images = o.images
       /\ p.sized["commandBuffers"] = p.images
  BY <1>20, <1>21, <1>27, DescriptorSetsComplete
<1>. HIDE DEF p
<1>29. Stages(rrt1) \in SUBSET Stages(TRUE)
  BY DEF Stages
<1>30. /\ s \in Resources /\ s.pipelines = Stages(rrt1) /\ s.boundMode = "forward"
       /\ s.images = p.images /\ s.sized = p.sized /\ s.refs = p.refs /\ s.failed = p.failed
       /\ s.loaded = p.loaded /\ s.tlas = p.tlas
  BY <1>28, <1>29 DEF Resources
<1>. HIDE DEF s
<1>31. Standing(s, rrt1)
  BY <1>28, <1>30 DEF Standing, Live
<1>32. \A pair \in PairsWritten(s, mode1, rrt1) : Live(s, pair[1], pair[2])
  <2>1. PairsWritten(s, mode1, rrt1) = PairsWritten(p, mode1, rrt1)
    BY <1>30 DEF PairsWritten
  <2>2. \A user1, used : Live(p, user1, used) => Live(s, user1, used)
    BY <1>30 DEF Live
  <2>. QED
    BY <1>28, <2>1, <2>2
<1>. QED
  BY <1>1, <1>28, <1>30, <1>31, <1>32, CompleteFrom

-----------------------------------------------------------------------------
(***************************************************************************)
(* The handlers of a frame.                                                *)
(***************************************************************************)

Handlers == {"handlers", "hotReload", "modeChange", "shadow", "transform", "reload"}

Works == Idled \ {"recreate"}

\* The models of the scene may come or go, and with ray tracing a top level comes.
SceneChanges ==
  /\ alive \ {"models"} \subseteq alive'
  /\ alive' \subseteq alive \cup {"models"} \cup (IF rrt THEN {"accelerationStructures"} ELSE {})

\* A handler that is not asked, one that waits, and the work after a wait.
HandlersPass ==
  /\ pc \in Handlers /\ pc' \in Handlers \cup {"draw"}
  /\ UNCHANGED << built, alive, busy >>

HandlersWait ==
  /\ pc \in Handlers /\ pc' \in Works
  /\ busy' = FALSE /\ UNCHANGED << built, alive >>

HandlersWork ==
  /\ pc \in Works /\ pc' \in Handlers \cup {"draw"}
  /\ busy' = busy /\ SceneChanges

LEMMA ScenesChange ==
  ASSUME NEW loaded, alive' = SceneObjects(loaded)
  PROVE  SceneChanges
<1>1. PICK traced \in BOOLEAN : traced = (rrt /\ built'.tlas)
  OBVIOUS
<1>2. alive' = (alive \ {"models"}) \cup (IF loaded THEN {"models"} ELSE {})
                 \cup (IF traced THEN {"accelerationStructures"} ELSE {})
  BY <1>1 DEF SceneObjects
<1>3. (IF traced THEN {"accelerationStructures"} ELSE {})
        \subseteq (IF rrt THEN {"accelerationStructures"} ELSE {})
  BY <1>1
<1>4. (IF loaded THEN {"models"} ELSE {}) \subseteq {"models"}
  OBVIOUS
<1>5. PICK l, t, u : /\ l = (IF loaded THEN {"models"} ELSE {})
                     /\ t = (IF traced THEN {"accelerationStructures"} ELSE {})
                     /\ u = (IF rrt THEN {"accelerationStructures"} ELSE {})
  OBVIOUS
<1>6. alive' = (alive \ {"models"}) \cup l \cup t /\ l \subseteq {"models"} /\ t \subseteq u
  BY <1>2, <1>3, <1>4, <1>5
<1>7. alive \ {"models"} \subseteq alive' /\ alive' \subseteq alive \cup {"models"} \cup u
  BY <1>6
<1>. QED
  BY <1>5, <1>7 DEF SceneChanges

LEMMA HandlersMove ==
  ASSUME UpdateStateDueToUserInput
  PROVE  HandlersOnly /\ (HandlersPass \/ HandlersWait \/ HandlersWork)
<1>. USE DEF NotAsked, WaitFirst, Goto, Handlers, Works, Idled
<1>0. UNCHANGED alive => SceneChanges
  BY DEF SceneChanges
<1>1. CASE PollModelLoad
  BY <1>1 DEF PollModelLoad, HandlersPass, HandlersWait
<1>2. CASE FinishModelLoad
  BY <1>2, ScenesChange DEF FinishModelLoad, HandlersWork
<1>3. CASE HandleShaderHotReloadRequest
  BY <1>0, <1>3 DEF HandleShaderHotReloadRequest, HandlersPass, HandlersWait, HandlersWork
<1>4. CASE HandleRasterizationModeChange
  BY <1>0, <1>4 DEF HandleRasterizationModeChange, HandlersPass, HandlersWait, HandlersWork
<1>5. CASE HandleShadowResolutionChange
  BY <1>0, <1>5 DEF HandleShadowResolutionChange, HandlersPass, HandlersWait, HandlersWork
<1>6. CASE HandleModelTransformChange
  <2>1. CASE pc = "moveModel"
    <3>1. PICK loaded : loaded = ("models" \in alive)
      OBVIOUS
    <3>2. alive' = SceneObjects(loaded) /\ pc' = "reload" /\ busy' = busy /\ HandlersOnly
      BY <1>6, <2>1, <3>1 DEF HandleModelTransformChange
    <3>. QED
      BY <2>1, <3>2, ScenesChange DEF HandlersWork
  <2>2. CASE pc # "moveModel"
    BY <1>6, <2>2 DEF HandleModelTransformChange, HandlersPass, HandlersWait
  <2>. QED
    BY <2>1, <2>2
<1>7. CASE HandleModelReloadRequest
  <2>1. CASE pc = "reloadModel"
    <3>1. PICK loaded \in BOOLEAN : alive' = SceneObjects(loaded)
      BY <1>7, <2>1 DEF HandleModelReloadRequest
    <3>2. pc' = "draw" /\ busy' = busy /\ HandlersOnly
      BY <1>7, <2>1 DEF HandleModelReloadRequest
    <3>. QED
      BY <2>1, <3>1, <3>2, ScenesChange DEF HandlersWork
  <2>2. CASE pc # "reloadModel"
    BY <1>7, <2>2 DEF HandleModelReloadRequest, HandlersPass, HandlersWait
  <2>. QED
    BY <2>1, <2>2
<1>. QED
  BY <1>1, <1>2, <1>3, <1>4, <1>5, <1>6, <1>7 DEF UpdateStateDueToUserInput

\* Where a handler's step begins and ends.
HandlersAt == Handlers \cup Works

LEMMA HandlersPlaces ==
  ASSUME UpdateStateDueToUserInput
  PROVE  HandlersOnly /\ pc \in HandlersAt /\ pc' \in HandlersAt \cup {"draw"}
BY HandlersMove DEF HandlersPass, HandlersWait, HandlersWork, HandlersAt

-----------------------------------------------------------------------------
(***************************************************************************)
(* The window's input.                                                     *)
(***************************************************************************)

\* render() decides for ImGui, and leaves the window's input alone.
CaptureDecided ==
  /\ wantsMouse' \in BOOLEAN /\ wantsKeyboard' \in BOOLEAN
  /\ UNCHANGED << user, input, cursorEvents, travel >>

InputMoves == UNCHANGED inputVars \/ UserActs \/ ConsumeAxisDelta \/ CaptureDecided

LEMMA InputActions ==
  ASSUME AppRunNext
  PROVE  InputMoves
<1>. USE DEF InputMoves
<1>1. CASE Program
  <2>1. CASE OpenWindow
    BY <2>1 DEF OpenWindow
  <2>2. CASE ChooseDevice
    BY <2>2 DEF ChooseDevice
  <2>3. CASE CreateDevice
    BY <2>3 DEF CreateDevice
  <2>4. CASE ReadCache
    BY <2>4 DEF ReadCache
  <2>5. CASE ConstructRenderer
    BY <2>5 DEF ConstructRenderer
  <2>6. CASE CheckShouldClose
    BY <2>6 DEF CheckShouldClose
  <2>7. CASE PollEvents
    BY <2>7 DEF PollEvents
  <2>8. CASE RenderGui
    <3>1. PICK mouse, keyboard \in BOOLEAN :
            (InTheme("input") \/ ~(mouse \/ keyboard)) /\ DecideCapture(mouse, keyboard)
      BY <2>8, Zenon DEF RenderGui
    <3>2. UNCHANGED << user, input, cursorEvents, travel >>
      BY <2>8 DEF RenderGui
    <3>. QED
      BY <3>1, <3>2 DEF CaptureDecided, DecideCapture
  <2>9. CASE UpdateStateDueToUserInput
    BY <2>9, HandlersMove DEF HandlersOnly
  <2>10. CASE CheckFramebufferSize
    BY <2>10 DEF CheckFramebufferSize
  <2>11. CASE AcquireImage
    BY <2>11 DEF AcquireImage
  <2>12. CASE RecordAndSubmit
    BY <2>12 DEF RecordAndSubmit
  <2>13. CASE PresentImage
    BY <2>13 DEF PresentImage
  <2>14. CASE MeasureFramebuffer
    BY <2>14 DEF MeasureFramebuffer
  <2>15. CASE Remeasure
    BY <2>15 DEF Remeasure
  <2>16. CASE WaitEvents
    BY <2>16 DEF WaitEvents
  <2>17. CASE RebuildSwapChain
    BY <2>17 DEF RebuildSwapChain
  <2>18. CASE LeaveLoop
    BY <2>18 DEF LeaveLoop
  <2>19. CASE TearDown
    BY <2>19 DEF TearDown
  <2>20. CASE OpenCacheFile
    BY <2>20 DEF OpenCacheFile
  <2>21. CASE Exit
    BY <2>21 DEF Exit
  <2>22. CASE WaitForFrames
    BY <2>22 DEF WaitForFrames
  <2>. QED
    BY <1>1, <2>1, <2>2, <2>3, <2>4, <2>5, <2>6, <2>7, <2>8, <2>9, <2>10, <2>11, <2>12, <2>13,
       <2>14, <2>15, <2>16, <2>17, <2>18, <2>19, <2>20, <2>21, <2>22 DEF Program
<1>2. CASE AbortFrame
  BY <1>2 DEF AbortFrame
<1>3. CASE Crash \/ UpdateDriver \/ Relaunch
  <2>1. CASE Crash
    BY <2>1 DEF Crash
  <2>2. CASE UpdateDriver
    BY <2>2 DEF UpdateDriver
  <2>3. CASE Relaunch
    BY <2>3 DEF Relaunch
  <2>. QED
    BY <1>3, <2>1, <2>2, <2>3
<1>4. CASE Stopped
  BY <1>4 DEF Stopped, appVars
<1>5. CASE ResizeWindow \/ RestoreWindow \/ RequestClose
  <2>1. CASE ResizeWindow
    BY <2>1 DEF ResizeWindow, UserOnly
  <2>2. CASE RestoreWindow
    BY <2>2 DEF RestoreWindow, UserOnly
  <2>3. CASE RequestClose
    BY <2>3 DEF RequestClose, UserOnly
  <2>. QED
    BY <1>5, <2>1, <2>2, <2>3
<1>6. CASE DispatchInput
  BY <1>6 DEF DispatchInput
<1>. QED
  BY <1>1, <1>2, <1>3, <1>4, <1>5, <1>6 DEF AppRunNext

LEMMA InputStep ==
  ASSUME WindowInputTypeOK, InputInv,
         InputMoves
  PROVE  WindowInputTypeOK' /\ InputInv'
<1>0. Columns \subseteq Int /\ MaxCursorEvents \in Nat
  BY WindowInputAssumption
<1>1. CASE UNCHANGED inputVars
  BY <1>1 DEF inputVars, WindowInputTypeOK, InputInv, InputFollowsTheUser
<1>2. CASE MoveCursor
  <2>1. PICK x \in Columns \ {user.x} :
          /\ user' = [user EXCEPT !.x = x]
          /\ input' = HandleMouse(input, x, wantsMouse)
          /\ travel' = IF input.look_mode_active /\ ~wantsMouse
                         THEN travel + Span(user.x, x) ELSE travel
    BY <1>2 DEF MoveCursor
  <2>2. user' \in [button : BOOLEAN, key : BOOLEAN, focused : BOOLEAN, x : Columns]
        /\ user'.x = x /\ user'.key = user.key /\ user'.focused = user.focused
    BY <2>1 DEF WindowInputTypeOK
  <2>3. CASE wantsMouse \/ ~input.look_mode_active
    <3>1. input' = [input EXCEPT !.last_x = x]
      BY <2>1, <2>3 DEF HandleMouse
    <3>2. /\ input' \in [key : BOOLEAN, look_mode_active : BOOLEAN, mouse_first_moved : BOOLEAN,
                         last_x : Columns \cup {0}, x_change : Int]
          /\ input'.key = input.key /\ input'.look_mode_active = input.look_mode_active
          /\ input'.last_x = x /\ input'.x_change = input.x_change
      BY <3>1 DEF WindowInputTypeOK
    <3>3. travel' = travel
      BY <2>1, <2>3
    <3>. QED
      BY <1>0, <1>2, <2>2, <3>2, <3>3
      DEF MoveCursor, WindowInputTypeOK, InputInv, InputFollowsTheUser
  <2>4. CASE ~wantsMouse /\ input.look_mode_active
    <3>0. PICK seeded : seeded = IF input.mouse_first_moved THEN x ELSE input.last_x
      OBVIOUS
    <3>1. input' = [input EXCEPT !.mouse_first_moved = FALSE, !.x_change = @ + x - seeded,
                                 !.last_x = x]
      BY <2>1, <2>4, <3>0 DEF HandleMouse
    <3>2. seeded \in Int /\ x \in Int /\ (seeded = x \/ seeded = user.x)
      BY <1>0, <2>1, <2>4, <3>0 DEF WindowInputTypeOK, InputInv
    <3>3. /\ input' \in [key : BOOLEAN, look_mode_active : BOOLEAN, mouse_first_moved : BOOLEAN,
                         last_x : Columns \cup {0}, x_change : Int]
          /\ input'.key = input.key /\ input'.look_mode_active = input.look_mode_active
          /\ input'.last_x = x /\ input'.x_change = input.x_change + x - seeded
      <4>1. PICK turn : turn = input.x_change + x - seeded
        OBVIOUS
      <4>2. turn \in Int
        BY <3>2, <4>1 DEF WindowInputTypeOK
      <4>3. input' = [input EXCEPT !.mouse_first_moved = FALSE, !.x_change = turn, !.last_x = x]
        BY <3>1, <4>1
      <4>. QED
        BY <4>1, <4>2, <4>3 DEF WindowInputTypeOK
    <3>4. travel' = travel + Span(user.x, x)
      BY <2>1, <2>4
    <3>5. user.x \in Int /\ input.x_change \in Int /\ travel \in Nat
      BY <1>0 DEF WindowInputTypeOK
    <3>6. Span(0, input'.x_change) <= travel' /\ travel' \in Nat
      BY <3>2, <3>3, <3>4, <3>5 DEF InputInv, InputFollowsTheUser, Span
    <3>. QED
      BY <1>0, <1>2, <2>2, <3>3, <3>6
      DEF MoveCursor, WindowInputTypeOK, InputInv, InputFollowsTheUser
  <2>. QED
    BY <2>3, <2>4 DEF WindowInputTypeOK
<1>3. CASE PressOrReleaseRightButton
  <2>0. user.x \in Columns
    BY DEF WindowInputTypeOK
  <2>1. PICK columns : columns = IF input'.look_mode_active # input.look_mode_active
                                   THEN Columns ELSE {user.x}
    OBVIOUS
  <2>2. PICK x \in columns : user' = [user EXCEPT !.button = ~@, !.x = x]
    BY <1>3, <2>1, Zenon DEF PressOrReleaseRightButton
  <2>7. x \in Columns /\ (input'.look_mode_active = input.look_mode_active => x = user.x)
    BY <2>0, <2>1
  <2>3. user' \in [button : BOOLEAN, key : BOOLEAN, focused : BOOLEAN, x : Columns]
        /\ user'.x = x /\ user'.key = user.key /\ user'.focused = user.focused
    BY <2>2, <2>7 DEF WindowInputTypeOK
  <2>4. user.focused /\ user.button \in BOOLEAN
    BY <1>3 DEF PressOrReleaseRightButton, WindowInputTypeOK
  <2>5. CASE ~user.button /\ wantsMouse
    <3>1. input' = input
      BY <1>3, <2>5 DEF PressOrReleaseRightButton, HandleRightButton
    <3>2. user'.x = user.x
      BY <2>3, <2>7, <3>1
    <3>. QED
      BY <1>3, <2>3, <2>4, <3>1, <3>2
      DEF PressOrReleaseRightButton, WindowInputTypeOK, InputInv, InputFollowsTheUser
  <2>6. CASE user.button \/ ~wantsMouse
    <3>1. input' = [input EXCEPT !.mouse_first_moved = TRUE, !.look_mode_active = ~user.button]
      BY <1>3, <2>4, <2>6 DEF PressOrReleaseRightButton, HandleRightButton
    <3>2. /\ input' \in [key : BOOLEAN, look_mode_active : BOOLEAN, mouse_first_moved : BOOLEAN,
                         last_x : Columns \cup {0}, x_change : Int]
          /\ input'.key = input.key /\ input'.mouse_first_moved = TRUE
          /\ input'.x_change = input.x_change
      BY <2>4, <3>1 DEF WindowInputTypeOK
    <3>. QED
      BY <1>3, <2>3, <2>4, <3>2
      DEF PressOrReleaseRightButton, WindowInputTypeOK, InputInv, InputFollowsTheUser
  <2>. QED
    BY <2>4, <2>5, <2>6 DEF WindowInputTypeOK
<1>4. CASE PressOrReleaseKey
  <2>1. user' \in [button : BOOLEAN, key : BOOLEAN, focused : BOOLEAN, x : Columns]
        /\ user'.x = user.x /\ user'.key = ~user.key /\ user'.focused = user.focused
    BY <1>4 DEF PressOrReleaseKey, WindowInputTypeOK
  <2>2. input' = HandleKey(input, ~user.key, wantsKeyboard)
    BY <1>4 DEF PressOrReleaseKey
  <2>3. /\ input' \in [key : BOOLEAN, look_mode_active : BOOLEAN, mouse_first_moved : BOOLEAN,
                       last_x : Columns \cup {0}, x_change : Int]
        /\ input'.key => ~user.key
        /\ input'.mouse_first_moved = input.mouse_first_moved
        /\ input'.look_mode_active = input.look_mode_active
        /\ input'.last_x = input.last_x /\ input'.x_change = input.x_change
    <3>1. user.key \in BOOLEAN /\ wantsKeyboard \in BOOLEAN
          /\ input.key => user.key
      BY DEF WindowInputTypeOK, InputInv, InputFollowsTheUser
    <3>2. CASE ~user.key /\ wantsKeyboard
      BY <2>2, <3>1, <3>2 DEF HandleKey, WindowInputTypeOK
    <3>3. CASE user.key \/ ~wantsKeyboard
      <4>1. input' = [input EXCEPT !.key = ~user.key]
        BY <2>2, <3>1, <3>3 DEF HandleKey
      <4>. QED
        BY <3>1, <4>1 DEF WindowInputTypeOK
    <3>. QED
      BY <3>1, <3>2, <3>3
  <2>. QED
    BY <1>4, <2>1, <2>3 DEF PressOrReleaseKey, WindowInputTypeOK, InputInv, InputFollowsTheUser
<1>5. CASE LoseFocus
  <2>1. user' \in [button : BOOLEAN, key : BOOLEAN, focused : BOOLEAN, x : Columns]
    BY <1>5 DEF LoseFocus, WindowInputTypeOK
  <2>0. PICK left : left = HandleFocusLost(input)
    OBVIOUS
  <2>2. /\ left \in [key : BOOLEAN, look_mode_active : BOOLEAN, mouse_first_moved : BOOLEAN,
                     last_x : Columns \cup {0}, x_change : Int]
        /\ left.key = FALSE /\ left.x_change = input.x_change
    BY <2>0 DEF HandleFocusLost, WindowInputTypeOK
  <2>3. input' = [left EXCEPT !.mouse_first_moved = TRUE, !.look_mode_active = FALSE]
    BY <1>5, <2>0 DEF LoseFocus, HandleRightButton
  <2>4. /\ input' \in [key : BOOLEAN, look_mode_active : BOOLEAN, mouse_first_moved : BOOLEAN,
                       last_x : Columns \cup {0}, x_change : Int]
        /\ input'.key = FALSE /\ input'.look_mode_active = FALSE
        /\ input'.x_change = input.x_change
    BY <2>2, <2>3
  <2>. QED
    BY <1>5, <2>1, <2>4 DEF LoseFocus, WindowInputTypeOK, InputInv, InputFollowsTheUser
<1>6. CASE RegainFocus
  <2>1. PICK x \in Columns : user' = [user EXCEPT !.focused = TRUE, !.x = x]
    BY <1>6, Zenon DEF RegainFocus
  <2>2. user' \in [button : BOOLEAN, key : BOOLEAN, focused : BOOLEAN, x : Columns]
        /\ user'.key = user.key
    BY <2>1 DEF WindowInputTypeOK
  <2>3. ~input.look_mode_active /\ ~input.key
    BY <1>6 DEF RegainFocus, InputInv, InputFollowsTheUser
  <2>. QED
    BY <1>6, <2>2, <2>3 DEF RegainFocus, WindowInputTypeOK, InputInv, InputFollowsTheUser
<1>7. CASE ConsumeAxisDelta
  <2>1. input' = [input EXCEPT !.x_change = 0]
    BY <1>7 DEF ConsumeAxisDelta
  <2>2. /\ input' \in [key : BOOLEAN, look_mode_active : BOOLEAN, mouse_first_moved : BOOLEAN,
                       last_x : Columns \cup {0}, x_change : Int]
        /\ input'.key = input.key /\ input'.look_mode_active = input.look_mode_active
        /\ input'.mouse_first_moved = input.mouse_first_moved
        /\ input'.last_x = input.last_x /\ input'.x_change = 0
    BY <2>1 DEF WindowInputTypeOK
  <2>3. Span(0, 0) <= 0
    BY DEF Span
  <2>. QED
    BY <1>0, <1>7, <2>2, <2>3
    DEF ConsumeAxisDelta, WindowInputTypeOK, InputInv, InputFollowsTheUser
<1>8. CASE CaptureDecided
  BY <1>8 DEF CaptureDecided, WindowInputTypeOK, InputInv, InputFollowsTheUser
<1>. QED
  BY <1>1, <1>2, <1>3, <1>4, <1>5, <1>6, <1>7, <1>8 DEF UserActs, InputMoves

-----------------------------------------------------------------------------
(***************************************************************************)
(* The pipeline cache.                                                     *)
(***************************************************************************)

LEMMA CacheTypeStep ==
  ASSUME PipelineCacheTypeOK, AppRunNext
  PROVE  PipelineCacheTypeOK'
<1>. USE DEF cacheVars, machineVars
<1>1. CASE Program
  <2>1. CASE ReadCache
    <3>1. PICK creates : creates = machine.caches
      OBVIOUS
    <3>2. PICK read \in {cacheFile # "absent", FALSE}, takes \in {TRUE, cacheFile = "whole"} :
            pipeline_cache' = CreatedCache(creates, read, takes)
      BY <2>1, <3>1, Zenon DEF ReadCache, CreatePipelineCache
    <3>3. pipeline_cache' \in {"none", "empty", "seeded"}
      BY <3>2 DEF CreatedCache
    <3>. QED
      BY <2>1, <3>3 DEF ReadCache, CreatePipelineCache, PipelineCacheTypeOK
  <2>2. CASE TearDown
    BY <2>2 DEF TearDown, WriteCacheFile, KeepCacheFile, PipelineCacheTypeOK, CacheFile
  <2>3. CASE OpenCacheFile
    BY <2>3 DEF OpenCacheFile, TruncateCacheFile, PipelineCacheTypeOK, CacheFile
  <2>4. CASE UNCHANGED cacheVars
    BY <2>4 DEF PipelineCacheTypeOK
  <2>5. ReadCache \/ TearDown \/ OpenCacheFile \/ UNCHANGED cacheVars
    BY <1>1, HandlersMove
    DEF Program, OpenWindow, ChooseDevice, CreateDevice, ConstructRenderer,
        CheckShouldClose, PollEvents, RenderGui, HandlersOnly, CheckFramebufferSize,
        AcquireImage, RecordAndSubmit, PresentImage, MeasureFramebuffer, Remeasure, WaitEvents,
        WaitForFrames, RebuildSwapChain, LeaveLoop, Exit
  <2>. QED
    BY <2>1, <2>2, <2>3, <2>4, <2>5
<1>2. CASE AbortFrame
  BY <1>2 DEF AbortFrame, PipelineCacheTypeOK
<1>3. CASE Crash
  BY <1>3 DEF Crash, PipelineCacheTypeOK
<1>4. CASE UpdateDriver
  BY <1>4 DEF UpdateDriver, DriverUpdate, PipelineCacheTypeOK, CacheFile
<1>5. CASE Relaunch
  BY <1>5 DEF Relaunch, FreshProcess, PipelineCacheTypeOK
<1>6. CASE Stopped
  BY <1>6 DEF Stopped, appVars, PipelineCacheTypeOK
<1>7. CASE ResizeWindow
  BY <1>7 DEF ResizeWindow, UserOnly, PipelineCacheTypeOK
<1>8. CASE RestoreWindow
  BY <1>8 DEF RestoreWindow, UserOnly, PipelineCacheTypeOK
<1>9. CASE RequestClose
  BY <1>9 DEF RequestClose, UserOnly, PipelineCacheTypeOK
<1>10. CASE DispatchInput
  BY <1>10 DEF DispatchInput, PipelineCacheTypeOK
<1>. QED
  BY <1>1, <1>2, <1>3, <1>4, <1>5, <1>6, <1>7, <1>8, <1>9, <1>10 DEF AppRunNext

LEMMA CacheStep ==
  ASSUME resume \in {"top", "acquire"}, CacheSurvivesStaleData, AppRunNext
  PROVE  CacheSurvivesStaleData'
<1>. USE DEF CacheSurvivesStaleData, cacheVars, deviceVars, machineVars
<1>1. CASE Program
  <2>1. CASE ReadCache
    <3>1. PICK creates : creates = machine.caches
      OBVIOUS
    <3>2. PICK read \in {cacheFile # "absent", FALSE}, takes \in {TRUE, cacheFile = "whole"} :
            pipeline_cache' = CreatedCache(creates, read, takes)
      BY <2>1, <3>1, Zenon DEF ReadCache, CreatePipelineCache
    <3>3. pipeline_cache' = "none" => ~creates
      BY <3>2 DEF CreatedCache
    <3>. QED
      BY <2>1, <3>1, <3>3 DEF ReadCache
  <2>2. pc' = "construct" => ReadCache
    BY <1>1, HandlersPlaces
    DEF Program, Goto, Recreate, OpenWindow, ChooseDevice, CreateDevice, ReadCache,
        ConstructRenderer, CheckShouldClose, PollEvents, RenderGui, CheckFramebufferSize,
        AcquireImage, RecordAndSubmit, PresentImage, MeasureFramebuffer, Remeasure, WaitEvents,
        WaitForFrames, RebuildSwapChain, LeaveLoop, TearDown, OpenCacheFile, Exit,
        HandlersAt, Handlers, Works, Idled
  <2>. QED
    BY <2>1, <2>2
<1>2. CASE AbortFrame
  BY <1>2 DEF AbortFrame
<1>3. CASE Crash
  BY <1>3 DEF Crash
<1>4. CASE UpdateDriver
  BY <1>4 DEF UpdateDriver, BetweenRuns, Ended
<1>5. CASE Relaunch
  BY <1>5 DEF Relaunch, FreshProcess
<1>6. CASE Stopped
  BY <1>6 DEF Stopped, appVars
<1>7. CASE ResizeWindow
  BY <1>7 DEF ResizeWindow, UserOnly
<1>8. CASE RestoreWindow
  BY <1>8 DEF RestoreWindow, UserOnly
<1>9. CASE RequestClose
  BY <1>9 DEF RequestClose, UserOnly
<1>10. CASE DispatchInput
  BY <1>10 DEF DispatchInput
<1>. QED
  BY <1>1, <1>2, <1>3, <1>4, <1>5, <1>6, <1>7, <1>8, <1>9, <1>10 DEF AppRunNext

-----------------------------------------------------------------------------
(***************************************************************************)
(* The resources of a frame.                                               *)
(***************************************************************************)

\* The types the steps of the resources rely on.
BuiltOK == built \in Resources /\ mode \in Modes /\ rrt \in BOOLEAN /\ resume \in {"top", "acquire"}

LEMMA ImageCountsMetAreCounts == ImageCountsMet \subseteq ImageCounts
BY FrameResourcesAssumption DEF ImageCountsMet

LEMMA RrtIsKnown ==
  ASSUME CreateDevice
  PROVE  rrt' \in BOOLEAN
<1>1. device' = LogicalDevice(physical_device) /\ rrt' = device'.supportsHardwareRRT
  BY DEF CreateDevice, CreateLogicalDevice
<1>2. LogicalDevice(physical_device).supportsHardwareRRT = SupportsHardwareRRT(physical_device)
  BY DEF LogicalDevice
<1>3. SupportsHardwareRRT(physical_device) \in BOOLEAN
  BY DEF SupportsHardwareRRT
<1>. QED
  BY <1>1, <1>2, <1>3

\* The actions that touch the resources, or the mode they are written for.
LEMMA ConstructStep ==
  ASSUME BuiltOK, BuiltInv, ConstructRenderer
  PROVE  BuiltOK' /\ BuiltInv'
<1>1. mode = "forward" /\ mode' = mode /\ rrt' = rrt /\ resume' = resume
  BY DEF ConstructRenderer, BuiltInv, Starting
<1>2. CASE window.size = 0
  <2>1. pc' = "aborted" /\ built' = built
    BY <1>2 DEF ConstructRenderer
  <2>. QED
    BY <1>1, <2>1 DEF BuiltOK, BuiltInv, Starting, Looping, Unbound, Idled
<1>3. CASE window.size # 0
  <2>1. PICK images \in ImageCountsMet, failures \in SUBSET Failures :
          Failing(failures) /\ built' = Construct(images, mode, rrt, failures)
    BY <1>3, Zenon DEF ConstructRenderer
  <2>2. PICK s : s = Construct(images, mode, rrt, failures)
    OBVIOUS
  <2>3. s \in Resources /\ Complete(s, mode, rrt) /\ s.boundMode = "forward"
    BY <2>2, ImageCountsMetAreCounts, ConstructCompletes DEF BuiltOK
  <2>4. pc' = "top"
    BY <1>3 DEF ConstructRenderer
  <2>. QED
    BY <1>1, <2>1, <2>2, <2>3, <2>4 DEF BuiltOK, BuiltInv, Starting, Looping, Unbound, Idled
<1>. QED
  BY <1>2, <1>3

LEMMA RebuildStep ==
  ASSUME BuiltOK, BuiltInv, RebuildSwapChain
  PROVE  BuiltOK' /\ BuiltInv'
<1>1. /\ mode' = mode /\ rrt' = rrt /\ resume' = resume /\ mode = built.boundMode
      /\ Complete(built, mode, rrt)
  BY DEF RebuildSwapChain, BuiltInv, Looping, Unbound, Idled, machineVars
<1>2. CASE window.size = 0
  <2>1. pc' = "aborted" /\ built' = built
    BY <1>2 DEF RebuildSwapChain
  <2>. QED
    BY <1>1, <2>1 DEF BuiltOK, BuiltInv, Starting, Looping, Unbound, Idled
<1>3. CASE window.size # 0
  <2>1. PICK images \in ImageCountsMet, failures \in SUBSET {"accumulation"} :
          Failing(failures) /\ built' = RecreateSwapChain(built, images, mode, rrt, failures)
    BY <1>3, Zenon DEF RebuildSwapChain
  <2>2. PICK s : s = RecreateSwapChain(built, images, mode, rrt, failures)
    OBVIOUS
  <2>3. s \in Resources /\ Complete(s, mode, rrt) /\ s.boundMode = mode
    BY <1>1, <2>2, ImageCountsMetAreCounts, SwapChainCompletes DEF BuiltOK
  <2>4. pc' \in {"top", "acquire"}
    BY <1>3 DEF RebuildSwapChain, BuiltOK
  <2>. QED
    BY <1>1, <2>1, <2>2, <2>3, <2>4 DEF BuiltOK, BuiltInv, Starting, Looping, Unbound, Idled
<1>. QED
  BY <1>2, <1>3

LEMMA Untouched ==
  ASSUME NEW r \in Resources, NEW rrt1, NEW mode1, Complete(r, mode1, rrt1)
  PROVE  LET s == [r EXCEPT !.touched = FALSE]
         IN s \in Resources /\ Complete(s, mode1, rrt1) /\ s.boundMode = r.boundMode
<1>. DEFINE s == [r EXCEPT !.touched = FALSE]
<1>1. /\ s \in Resources /\ s.pipelines = r.pipelines /\ s.sized = r.sized /\ s.images = r.images
      /\ s.refs = r.refs /\ s.failed = r.failed /\ s.loaded = r.loaded /\ s.tlas = r.tlas
      /\ s.boundMode = r.boundMode
  BY DEF Resources
<1>. HIDE DEF s
<1>2. FrameNeeds(s, mode1, rrt1) = FrameNeeds(r, mode1, rrt1)
  BY <1>1 DEF FrameNeeds
<1>. QED
  BY <1>1, <1>2 DEF Complete, ReadsLiveResources, s

\* What a handler's work leaves.
LEMMA WorkLeaves ==
  ASSUME BuiltOK, NEW s, s \in Resources, built' = s, mode' = mode, rrt' = rrt, resume' = resume,
         Complete(s, mode, rrt) \/ Complete(s, s.boundMode, rrt),
         pc' \in HandlersAt \cup {"draw"},
         pc' \notin Unbound => mode = s.boundMode
  PROVE  BuiltOK' /\ BuiltInv'
BY DEF BuiltOK, BuiltInv, Starting, Looping, HandlersAt, Handlers, Works, Idled

LEMMA HandlersStep ==
  ASSUME BuiltOK, BuiltInv, UpdateStateDueToUserInput
  PROVE  BuiltOK' /\ BuiltInv'
<1>. USE DEF Goto, Unbound
<1>1. /\ mode' = mode /\ rrt' = rrt /\ resume' = resume
      /\ pc \in HandlersAt /\ pc' \in HandlersAt \cup {"draw"}
  BY HandlersPlaces DEF HandlersOnly
<1>2. pc \in Looping
  BY <1>1 DEF Looping, HandlersAt, Handlers, Works, Idled
<1>3. built \in Resources /\ mode \in Modes /\ rrt \in BOOLEAN
  BY DEF BuiltOK
<1>4. /\ Complete(built, built.boundMode, rrt) \/ Complete(built, mode, rrt)
      /\ pc \notin Unbound => mode = built.boundMode
  BY <1>2 DEF BuiltInv
<1>5. PICK mode0 : Complete(built, mode0, rrt) /\ mode0 \in {built.boundMode, mode}
  BY <1>4
<1>6. pc \notin Unbound => mode0 = mode /\ mode = built.boundMode
  BY <1>4, <1>5
<1>7. ASSUME built' = built, pc' \notin Unbound => mode = built.boundMode
      PROVE  BuiltOK' /\ BuiltInv'
  BY <1>1, <1>3, <1>4, <1>7, WorkLeaves
<1>8. CASE PollModelLoad
  BY <1>7, <1>8 DEF PollModelLoad, NotAsked, WaitFirst
<1>9. CASE FinishModelLoad
  <2>1. PICK s : s = RefreshAfterSceneChange(ChangeModels(built, TRUE), mode, rrt, TRUE)
    OBVIOUS
  <2>2. s \in Resources /\ Complete(s, mode, rrt)
    BY <1>3, <1>5, <2>1, RefreshesComplete
  <2>3. built' = s /\ pc' = "hotReload"
    BY <1>9, <2>1 DEF FinishModelLoad
  <2>. QED
    BY <1>1, <2>2, <2>3, WorkLeaves
<1>10. CASE HandleShaderHotReloadRequest
  <2>1. CASE pc = "reloadShaders"
    <3>1. PICK s : s = ShaderHotReload(built, rrt)
      OBVIOUS
    <3>2. s \in Resources /\ Complete(s, mode0, rrt) /\ s.boundMode = built.boundMode
      BY <1>3, <1>5, <3>1, ReloadCompletes
    <3>3. built' = s /\ pc' = "modeChange"
      BY <1>10, <2>1, <3>1 DEF HandleShaderHotReloadRequest, NotAsked, WaitFirst
    <3>. QED
      BY <1>1, <1>5, <3>2, <3>3, WorkLeaves
  <2>2. CASE pc # "reloadShaders"
    BY <1>7, <1>10, <2>2 DEF HandleShaderHotReloadRequest, NotAsked, WaitFirst
  <2>. QED
    BY <2>1, <2>2
<1>11. CASE HandleRasterizationModeChange
  <2>1. CASE pc = "bindMode"
    <3>1. PICK s : s = BindRasterizationMode(built, mode, rrt)
      OBVIOUS
    <3>2. s \in Resources /\ Complete(s, mode, rrt) /\ s.boundMode = mode
      BY <1>3, <1>5, <3>1, ModeChangeCompletes
    <3>3. built' = s /\ pc' = "shadow"
      BY <1>11, <2>1, <3>1 DEF HandleRasterizationModeChange, NotAsked, WaitFirst
    <3>. QED
      BY <1>1, <3>2, <3>3, WorkLeaves
  <2>2. CASE pc # "bindMode"
    BY <1>7, <1>11, <2>2 DEF HandleRasterizationModeChange, NotAsked, WaitFirst
  <2>. QED
    BY <2>1, <2>2
<1>12. CASE HandleShadowResolutionChange
  <2>0. mode0 = mode /\ mode = built.boundMode
    BY <1>6, <1>12 DEF HandleShadowResolutionChange, NotAsked, WaitFirst
  <2>1. CASE pc = "replaceMap"
    <3>1. PICK s : s = ReplaceShadowMap(built)
      OBVIOUS
    <3>2. s \in Resources /\ Complete(s, mode, rrt) /\ s.boundMode = built.boundMode
      BY <1>3, <1>5, <2>0, <3>1, ShadowChangeCompletes
    <3>3. built' = s /\ pc' = "transform"
      BY <1>12, <2>1, <3>1 DEF HandleShadowResolutionChange, NotAsked, WaitFirst
    <3>. QED
      BY <1>1, <2>0, <3>2, <3>3, WorkLeaves
  <2>2. CASE pc # "replaceMap"
    BY <1>7, <1>12, <2>0, <2>2 DEF HandleShadowResolutionChange, NotAsked, WaitFirst
  <2>. QED
    BY <2>1, <2>2
<1>13. CASE HandleModelTransformChange
  <2>0. mode0 = mode /\ mode = built.boundMode
    BY <1>6, <1>13 DEF HandleModelTransformChange, NotAsked, WaitFirst
  <2>1. CASE pc = "moveModel"
    <3>1. PICK s : s = RefreshAfterSceneChange(built, mode, rrt, TRUE)
      OBVIOUS
    <3>2. s \in Resources /\ Complete(s, mode, rrt) /\ s.boundMode = built.boundMode
      BY <1>3, <1>5, <3>1, RefreshesComplete
    <3>3. built' = s /\ pc' = "reload"
      BY <1>13, <2>1, <3>1 DEF HandleModelTransformChange, NotAsked, WaitFirst
    <3>. QED
      BY <1>1, <2>0, <3>2, <3>3, WorkLeaves
  <2>2. CASE pc # "moveModel"
    BY <1>7, <1>13, <2>0, <2>2 DEF HandleModelTransformChange, NotAsked, WaitFirst
  <2>. QED
    BY <2>1, <2>2
<1>14. CASE HandleModelReloadRequest
  <2>0. mode0 = mode /\ mode = built.boundMode
    BY <1>6, <1>14 DEF HandleModelReloadRequest, NotAsked, WaitFirst
  <2>1. CASE pc = "reloadModel"
    <3>1. PICK loaded \in BOOLEAN :
            built' = RefreshAfterSceneChange(ChangeModels(built, loaded), mode, rrt, loaded)
      BY <1>14, <2>1 DEF HandleModelReloadRequest, NotAsked, WaitFirst
    <3>2. PICK s : s = RefreshAfterSceneChange(ChangeModels(built, loaded), mode, rrt, loaded)
      OBVIOUS
    <3>3. s \in Resources /\ Complete(s, mode, rrt) /\ s.boundMode = built.boundMode
      BY <1>3, <1>5, <3>2, RefreshesComplete
    <3>4. built' = s /\ pc' = "draw"
      BY <1>14, <2>1, <3>1, <3>2 DEF HandleModelReloadRequest, NotAsked, WaitFirst
    <3>. QED
      BY <1>1, <2>0, <3>3, <3>4, WorkLeaves
  <2>2. CASE pc # "reloadModel"
    BY <1>7, <1>14, <2>0, <2>2 DEF HandleModelReloadRequest, NotAsked, WaitFirst
  <2>. QED
    BY <2>1, <2>2
<1>. QED
  BY <1>8, <1>9, <1>10, <1>11, <1>12, <1>13, <1>14 DEF UpdateStateDueToUserInput

LEMMA BuiltStep ==
  ASSUME BuiltOK, BuiltInv, AppRunNext
  PROVE  BuiltOK' /\ BuiltInv'
<1>. USE DEF BuiltOK, BuiltInv, Starting, Looping, Unbound, Idled, Ended, frameVars, machineVars
<1>1. CASE Program
  <2>1. CASE OpenWindow
    BY <2>1 DEF OpenWindow
  <2>2. CASE ChooseDevice
    BY <2>2 DEF ChooseDevice
  <2>3. CASE CreateDevice
    BY <2>3, RrtIsKnown DEF CreateDevice, Goto
  <2>4. CASE ReadCache
    BY <2>4 DEF ReadCache, Goto
  <2>5. CASE ConstructRenderer
    BY <2>5, ConstructStep
  <2>6. CASE CheckShouldClose
    BY <2>6 DEF CheckShouldClose
  <2>7. CASE PollEvents
    BY <2>7 DEF PollEvents, Goto
  <2>8. CASE RenderGui
    <3>1. mode' \in Modes
      BY <2>8 DEF RenderGui
    <3>. QED
      BY <2>8, <3>1 DEF RenderGui, Goto
  <2>9. CASE UpdateStateDueToUserInput
    BY <2>9, HandlersStep
  <2>10. CASE CheckFramebufferSize
    BY <2>10 DEF CheckFramebufferSize, Recreate
  <2>11. CASE AcquireImage
    BY <2>11 DEF AcquireImage, Recreate
  <2>12. CASE RecordAndSubmit
    BY <2>12, Untouched DEF RecordAndSubmit, Goto
  <2>13. CASE PresentImage
    BY <2>13 DEF PresentImage, Recreate
  <2>14. CASE MeasureFramebuffer
    BY <2>14 DEF MeasureFramebuffer
  <2>15. CASE Remeasure
    BY <2>15 DEF Remeasure, Goto
  <2>16. CASE WaitEvents
    BY <2>16 DEF WaitEvents
  <2>17. CASE RebuildSwapChain
    BY <2>17, RebuildStep
  <2>18. CASE LeaveLoop
    BY <2>18 DEF LeaveLoop
  <2>19. CASE TearDown
    BY <2>19 DEF TearDown
  <2>20. CASE OpenCacheFile
    BY <2>20 DEF OpenCacheFile
  <2>21. CASE Exit
    BY <2>21 DEF Exit, Goto
  <2>22. CASE WaitForFrames
    BY <2>22 DEF WaitForFrames, Goto
  <2>. QED
    BY <1>1, <2>1, <2>2, <2>3, <2>4, <2>5, <2>6, <2>7, <2>8, <2>9, <2>10, <2>11, <2>12, <2>13,
       <2>14, <2>15, <2>16, <2>17, <2>18, <2>19, <2>20, <2>21, <2>22 DEF Program
<1>2. CASE AbortFrame
  BY <1>2 DEF AbortFrame
<1>3. CASE Crash
  BY <1>3 DEF Crash
<1>4. CASE UpdateDriver
  BY <1>4 DEF UpdateDriver
<1>5. CASE Relaunch
  BY <1>5, NothingYet DEF Relaunch, FreshProcess, Modes
<1>6. CASE Stopped
  BY <1>6 DEF Stopped, appVars
<1>7. CASE ResizeWindow
  BY <1>7 DEF ResizeWindow, UserOnly
<1>8. CASE RestoreWindow
  BY <1>8 DEF RestoreWindow, UserOnly
<1>9. CASE RequestClose
  BY <1>9 DEF RequestClose, UserOnly
<1>10. CASE DispatchInput
  BY <1>10 DEF DispatchInput
<1>. QED
  BY <1>1, <1>2, <1>3, <1>4, <1>5, <1>6, <1>7, <1>8, <1>9, <1>10 DEF AppRunNext

-----------------------------------------------------------------------------
(***************************************************************************)
(* What the GPU may still read.                                            *)
(***************************************************************************)

LEMMA HeadOfConcat ==
  ASSUME NEW S, NEW s \in Seq(S), NEW t \in Seq(S), s # << >>
  PROVE  s \o t \in Seq(S) /\ s \o t # << >> /\ Head(s \o t) = Head(s)
OBVIOUS

LEMMA EmptyConcat ==
  ASSUME NEW S, NEW s \in Seq(S)
  PROVE  << >> \o s = s
OBVIOUS

LEMMA AssociativePair ==
  ASSUME NEW S, NEW s \in Seq(S), NEW t \in Seq(S), NEW u \in Seq(S)
  PROVE  /\ (s \o t) \o u = s \o (t \o u)
         /\ s \o t \in Seq(S) /\ (s \o t) \o u \in Seq(S)
OBVIOUS

LEMMA Associative ==
  ASSUME NEW S, NEW s \in Seq(S), NEW t \in Seq(S), NEW u \in Seq(S), NEW v \in Seq(S)
  PROVE  /\ ((s \o t) \o u) \o v = s \o (t \o (u \o v))
         /\ s \o (t \o (u \o v)) \in Seq(S)
<1>1. (s \o t) \o u = s \o (t \o u) /\ t \o u \in Seq(S)
  BY AssociativePair
<1>2. (s \o (t \o u)) \o v = s \o ((t \o u) \o v) /\ (s \o (t \o u)) \o v \in Seq(S)
  <2>1. PICK w \in Seq(S) : w = t \o u
    BY <1>1
  <2>2. (s \o w) \o v = s \o (w \o v) /\ (s \o w) \o v \in Seq(S)
    BY AssociativePair
  <2>. QED
    BY <2>1, <2>2
<1>3. (t \o u) \o v = t \o (u \o v)
  BY AssociativePair
<1>. QED
  BY <1>1, <1>2, <1>3

\* The parts of a teardown are sequences of sets of objects.
LEMMA TeardownParts ==
  /\ DeviceCleanUp \in Seq(SUBSET Objects)
  /\ SceneCleanUp \in Seq(SUBSET Objects)
  /\ GuiCleanUp \in Seq(SUBSET Objects)
  /\ << {"window"} >> \in Seq(SUBSET Objects)
  /\ << {"surface"}, {"instance"} >> \in Seq(SUBSET Objects)
  /\ << WaitIdle >> \in Seq(SUBSET Objects)
<1>1. /\ {"pipelineCache"} \subseteq Objects /\ {"allocator"} \subseteq Objects
      /\ {"device"} \subseteq Objects /\ {"models"} \subseteq Objects
      /\ {"guiPool"} \subseteq Objects /\ {"imgui"} \subseteq Objects
      /\ {"window"} \subseteq Objects /\ {"surface"} \subseteq Objects
      /\ {"instance"} \subseteq Objects
  BY DEF Objects, Allocations, DeviceObjects
<1>. QED
  BY <1>1 DEF DeviceCleanUp, SceneCleanUp, GuiCleanUp, WaitIdle

TracingCleanUp(rrt1) ==
  << WaitIdle >>
  \o (IF rrt1 THEN << {"accumulation"}, {"pathTracing"}, {"raytracing"}, {"accelerationStructures"} >>
      ELSE << >>)

StagesCleanUp ==
  << {"forward"}, {"deferred"}, {"sky"}, {"clouds"}, {"shadowMap"}, {"post"},
     {"objectDescriptions"}, {"capture"}, {"staging"}, {"timings"}, {"sync"},
     {"uniforms"}, {"commandPool"}, {"descriptorSets"}, {"raytracingSets"}, {"swapchain"} >>

LEMMA RendererParts ==
  ASSUME NEW rrt1 \in BOOLEAN
  PROVE  /\ TracingCleanUp(rrt1) \in Seq(SUBSET Objects)
         /\ StagesCleanUp \in Seq(SUBSET Objects)
<1>1. {{"accumulation"}, {"pathTracing"}, {"raytracing"}, {"accelerationStructures"}}
        \subseteq SUBSET Objects
  BY DEF Objects, Allocations, DeviceObjects
<1>2. {{"forward"}, {"deferred"}, {"sky"}, {"clouds"}, {"shadowMap"}, {"post"},
       {"objectDescriptions"}, {"capture"}}
        \subseteq SUBSET Objects
  BY DEF Objects, Allocations, DeviceObjects
<1>3. {{"staging"}, {"timings"}, {"sync"},
       {"uniforms"}, {"commandPool"}, {"descriptorSets"}, {"raytracingSets"}, {"swapchain"}}
        \subseteq SUBSET Objects
  BY DEF Objects, Allocations, DeviceObjects
<1>. HIDE DEF Objects
<1>4. TracingCleanUp(rrt1) \in Seq(SUBSET Objects)
  <2>1. << {"accumulation"}, {"pathTracing"}, {"raytracing"}, {"accelerationStructures"} >>
          \in Seq(SUBSET Objects)
    BY <1>1
  <2>2. << >> \in Seq(SUBSET Objects) /\ << WaitIdle >> \in Seq(SUBSET Objects)
    BY DEF WaitIdle
  <2>3. PICK w \in Seq(SUBSET Objects), t \in Seq(SUBSET Objects) :
          /\ w = << WaitIdle >>
          /\ t = IF rrt1 THEN << {"accumulation"}, {"pathTracing"}, {"raytracing"},
                                 {"accelerationStructures"} >>
                 ELSE << >>
    BY <2>1, <2>2
  <2>4. w \o t \in Seq(SUBSET Objects)
    OBVIOUS
  <2>. QED
    BY <2>3, <2>4 DEF TracingCleanUp
<1>5. StagesCleanUp \in Seq(SUBSET Objects)
  BY <1>2, <1>3 DEF StagesCleanUp
<1>. QED
  BY <1>4, <1>5

\* The renderer's cleanUp() as its parts, without the nesting of the concatenations.
RestCleanUp == DeviceCleanUp \o << {"surface"}, {"instance"} >>

LEMMA RendererCleanUpIs ==
  ASSUME NEW rrt1 \in BOOLEAN
  PROVE  /\ RendererCleanUp(rrt1) = TracingCleanUp(rrt1) \o (StagesCleanUp \o RestCleanUp)
         /\ RendererCleanUp(rrt1) \in Seq(SUBSET Objects)
         /\ RendererCleanUp(rrt1) # << >>
         /\ Head(RendererCleanUp(rrt1)) = WaitIdle
<1>1. RendererCleanUp(rrt1)
        = ((TracingCleanUp(rrt1) \o StagesCleanUp) \o DeviceCleanUp) \o << {"surface"}, {"instance"} >>
  BY DEF RendererCleanUp, TracingCleanUp, StagesCleanUp
<1>2. PICK a, b, c, d : /\ a = TracingCleanUp(rrt1) /\ b = StagesCleanUp /\ c = DeviceCleanUp
                        /\ d = << {"surface"}, {"instance"} >>
  OBVIOUS
<1>3. /\ a \in Seq(SUBSET Objects) /\ b \in Seq(SUBSET Objects)
      /\ c \in Seq(SUBSET Objects) /\ d \in Seq(SUBSET Objects)
  BY <1>2, TeardownParts, RendererParts
<1>4. ((a \o b) \o c) \o d = a \o (b \o (c \o d)) /\ a \o (b \o (c \o d)) \in Seq(SUBSET Objects)
  BY <1>3, Associative
<1>5. c \o d \in Seq(SUBSET Objects) /\ b \o (c \o d) \in Seq(SUBSET Objects)
  BY <1>3
<1>6. a # << >> /\ Head(a) = WaitIdle
  <2>1. {"accumulation"} \subseteq Objects /\ {"pathTracing"} \subseteq Objects
        /\ {"raytracing"} \subseteq Objects /\ {"accelerationStructures"} \subseteq Objects
    BY DEF Objects, Allocations, DeviceObjects
  <2>2. /\ << {"accumulation"}, {"pathTracing"}, {"raytracing"}, {"accelerationStructures"} >>
             \in Seq(SUBSET Objects)
        /\ << >> \in Seq(SUBSET Objects)
    BY <2>1
  <2>3. PICK t \in Seq(SUBSET Objects) :
          t = IF rrt1 THEN << {"accumulation"}, {"pathTracing"}, {"raytracing"},
                              {"accelerationStructures"} >>
              ELSE << >>
    BY <2>2
  <2>4. PICK w : w = << WaitIdle >>
    OBVIOUS
  <2>5. w \in Seq(SUBSET Objects) /\ w # << >> /\ Head(w) = WaitIdle
    BY <2>4, TeardownParts
  <2>6. a = w \o t
    BY <1>2, <2>3, <2>4 DEF TracingCleanUp
  <2>. QED
    BY <2>5, <2>6, HeadOfConcat
<1>7. a \o (b \o (c \o d)) # << >> /\ Head(a \o (b \o (c \o d))) = WaitIdle
  BY <1>3, <1>5, <1>6, HeadOfConcat
<1>. QED
  BY <1>1, <1>2, <1>4, <1>7 DEF RestCleanUp

\* What the destructors find to do after the renderer's cleanUp().
FirstCleanUp(lost1) ==
  IF lost1 THEN << >> ELSE << WaitIdle >> \o SceneCleanUp \o GuiCleanUp

LastCleanUp == << {"window"} >> \o (GuiCleanUp \o SceneCleanUp)

LEMMA AppTeardownIs ==
  ASSUME NEW lost1 \in BOOLEAN, NEW rrt1 \in BOOLEAN
  PROVE  /\ AppTeardown(lost1, rrt1)
              = FirstCleanUp(lost1) \o (RendererCleanUp(rrt1) \o LastCleanUp)
         /\ AppTeardown(lost1, rrt1) \in Seq(SUBSET Objects)
         /\ AppTeardown(lost1, rrt1) # << >>
         /\ Head(AppTeardown(lost1, rrt1)) = WaitIdle
<1>1. PICK a, b, c, d, e : /\ a = FirstCleanUp(lost1) /\ b = RendererCleanUp(rrt1)
                           /\ c = << {"window"} >> /\ d = GuiCleanUp /\ e = SceneCleanUp
  OBVIOUS
<1>0. PICK S : S = SUBSET Objects
  OBVIOUS
<1>2. b \in Seq(S) /\ c \in Seq(S) /\ d \in Seq(S) /\ e \in Seq(S)
  BY <1>0, <1>1, TeardownParts, RendererCleanUpIs
<1>13. b # << >> /\ Head(b) = WaitIdle
  BY <1>1, RendererCleanUpIs
<1>17. PICK w : w = << WaitIdle >>
  OBVIOUS
<1>3. w \in Seq(S) /\ w # << >> /\ Head(w) = WaitIdle
  BY <1>0, <1>17, TeardownParts
<1>14. w \o e \in Seq(S) /\ w \o e # << >> /\ Head(w \o e) = WaitIdle
  BY <1>2, <1>3, HeadOfConcat
<1>15. /\ (w \o e) \o d \in Seq(S) /\ (w \o e) \o d # << >>
       /\ Head((w \o e) \o d) = WaitIdle
  <2>1. PICK v \in Seq(S) : v = w \o e
    BY <1>14
  <2>. QED
    BY <1>2, <1>14, <2>1, HeadOfConcat
<1>16. /\ a \in Seq(S)
       /\ lost1 => a = << >>
       /\ ~lost1 => a # << >> /\ Head(a) = WaitIdle
  <2>1. << >> \in Seq(S)
    OBVIOUS
  <2>. QED
    BY <1>1, <1>17, <1>15, <2>1 DEF FirstCleanUp
<1>4. AppTeardown(lost1, rrt1) = (((a \o b) \o c) \o d) \o e
  BY <1>1 DEF AppTeardown, FirstCleanUp
<1>5. a \o b \in Seq(S) /\ c \o (d \o e) \in Seq(S)
  <2>1. a \o b \in Seq(S) /\ d \o e \in Seq(S)
    BY <1>2, <1>16
  <2>. QED
    BY <1>2, <2>1
<1>6. \A f \in Seq(S) :
        /\ ((f \o c) \o d) \o e = f \o (c \o (d \o e))
        /\ f \o (c \o (d \o e)) \in Seq(S)
  BY <1>2, Associative
<1>7. PICK g \in Seq(S) : g = c \o (d \o e)
  BY <1>5
<1>8. (a \o b) \o g = a \o (b \o g) /\ (a \o b) \o g \in Seq(S)
  BY <1>2, <1>16, AssociativePair
<1>9. b \o g \in Seq(S) /\ b \o g # << >> /\ Head(b \o g) = Head(b)
  BY <1>2, <1>13, HeadOfConcat
<1>10. AppTeardown(lost1, rrt1) = a \o (b \o g)
  BY <1>4, <1>5, <1>6, <1>7, <1>8
<1>11. /\ a \o (b \o g) \in Seq(S) /\ a \o (b \o g) # << >>
       /\ Head(a \o (b \o g)) = WaitIdle
  <2>1. PICK h \in Seq(S) : h = b \o g /\ h # << >> /\ Head(h) = WaitIdle
    BY <1>9, <1>13
  <2>2. CASE lost1
    BY <1>16, <2>1, <2>2, EmptyConcat
  <2>3. CASE ~lost1
    BY <1>16, <2>1, <2>3, HeadOfConcat
  <2>. QED
    BY <2>2, <2>3
<1>. QED
  BY <1>0, <1>1, <1>7, <1>10, <1>11 DEF LastCleanUp

\* What replaces, rewrites or destroys something finds the GPU idle.
NothingIsPulled == pc \notin Ended /\ (built'.touched \/ ~(alive \subseteq alive')) => ~busy

IdleOK == lost \in BOOLEAN /\ rrt \in BOOLEAN /\ busy \in BOOLEAN /\ resume \in {"top", "acquire"}

\* A handler's wait comes before its work, whichever handlers ran before.
LEMMA HandlersIdle ==
  ASSUME IdleOK, IdleInv, UpdateStateDueToUserInput
  PROVE  IdleInv' /\ NothingIsPulled
<1>. USE DEF IdleInv, NothingIsPulled, Starting, Idled, Handlers, Works
<1>1. CASE HandlersPass
  BY <1>1 DEF HandlersPass
<1>2. CASE HandlersWait
  BY <1>2 DEF HandlersWait
<1>3. CASE HandlersWork
  BY <1>3 DEF HandlersWork
<1>. QED
  BY <1>1, <1>2, <1>3, HandlersMove

LEMMA IdleStep ==
  ASSUME IdleOK, IdleInv, AppRunNext
  PROVE  IdleInv' /\ NothingIsPulled
<1>. USE DEF IdleOK, IdleInv, NothingIsPulled, Starting, Idled, Ended, frameVars, machineVars,
             teardownVars
<1>1. CASE Program
  <2>1. CASE OpenWindow
    BY <2>1 DEF OpenWindow
  <2>2. CASE ChooseDevice
    BY <2>2 DEF ChooseDevice
  <2>3. CASE CreateDevice
    BY <2>3 DEF CreateDevice, Goto
  <2>4. CASE ReadCache
    BY <2>4 DEF ReadCache, Goto
  <2>5. CASE ConstructRenderer
    <3>1. ~busy /\ busy' = busy /\ pc' \in {"top", "aborted"}
      BY <2>5 DEF ConstructRenderer
    <3>. QED
      BY <3>1
  <2>6. CASE CheckShouldClose
    BY <2>6 DEF CheckShouldClose
  <2>7. CASE PollEvents
    BY <2>7 DEF PollEvents, Goto
  <2>8. CASE RenderGui
    BY <2>8 DEF RenderGui, Goto
  <2>9. CASE UpdateStateDueToUserInput
    BY <2>9, HandlersIdle
  <2>10. CASE CheckFramebufferSize
    BY <2>10 DEF CheckFramebufferSize, Recreate
  <2>11. CASE AcquireImage
    BY <2>11 DEF AcquireImage, Recreate
  <2>12. CASE RecordAndSubmit
    <3>1. ~built'.touched
      BY <2>12 DEF RecordAndSubmit
    <3>. QED
      BY <2>12, <3>1 DEF RecordAndSubmit, Goto
  <2>13. CASE PresentImage
    BY <2>13 DEF PresentImage, Recreate
  <2>14. CASE MeasureFramebuffer
    BY <2>14 DEF MeasureFramebuffer
  <2>15. CASE Remeasure
    BY <2>15 DEF Remeasure, Goto
  <2>16. CASE WaitEvents
    BY <2>16 DEF WaitEvents
  <2>17. CASE RebuildSwapChain
    <3>1. /\ busy' = busy /\ alive' = alive /\ ~busy
          /\ pc' \in {"top", "acquire", "aborted"}
      BY <2>17 DEF RebuildSwapChain
    <3>. QED
      BY <3>1
  <2>18. CASE LeaveLoop
    <3>1. PICK order : order = AppTeardown(lost, rrt)
      OBVIOUS
    <3>2. order # << >> /\ Head(order) = WaitIdle
      BY <3>1, AppTeardownIs
    <3>3. calls' = order
      BY <2>18, <3>1 DEF LeaveLoop
    <3>. QED
      BY <2>18, <3>2, <3>3 DEF LeaveLoop
  <2>19. CASE TearDown
    <3>1. /\ pc = "teardown" /\ pc' = pc /\ built' = built
          /\ busy' = (busy /\ Head(calls) # WaitIdle) /\ alive' = alive \ Head(calls)
      BY <2>19 DEF TearDown, DestroyNext
    <3>2. CASE busy
      <4>1. Head(calls) = {}
        BY <3>1, <3>2 DEF WaitIdle
      <4>2. alive' = alive /\ ~busy'
        BY <3>1, <4>1 DEF WaitIdle
      <4>. QED
        BY <3>1, <4>2
    <3>3. CASE ~busy
      <4>1. ~busy'
        BY <3>1, <3>3
      <4>. QED
        BY <3>1, <3>3, <4>1
    <3>. QED
      BY <3>2, <3>3
  <2>20. CASE OpenCacheFile
    BY <2>20 DEF OpenCacheFile
  <2>21. CASE Exit
    BY <2>21 DEF Exit, Goto
  <2>22. CASE WaitForFrames
    BY <2>22 DEF WaitForFrames, Goto
  <2>. QED
    BY <1>1, <2>1, <2>2, <2>3, <2>4, <2>5, <2>6, <2>7, <2>8, <2>9, <2>10, <2>11, <2>12, <2>13,
       <2>14, <2>15, <2>16, <2>17, <2>18, <2>19, <2>20, <2>21, <2>22 DEF Program
<1>2. CASE AbortFrame
  BY <1>2 DEF AbortFrame
<1>3. CASE Crash
  BY <1>3 DEF Crash
<1>4. CASE UpdateDriver
  BY <1>4 DEF UpdateDriver
<1>5. CASE Relaunch
  <2>1. ~built'.touched
    BY <1>5 DEF Relaunch, FreshProcess, NoResources
  <2>. QED
    BY <1>5, <2>1 DEF Relaunch, FreshProcess, BetweenRuns
<1>6. CASE Stopped
  BY <1>6 DEF Stopped, appVars
<1>7. CASE ResizeWindow
  BY <1>7 DEF ResizeWindow, UserOnly
<1>8. CASE RestoreWindow
  BY <1>8 DEF RestoreWindow, UserOnly
<1>9. CASE RequestClose
  BY <1>9 DEF RequestClose, UserOnly
<1>10. CASE DispatchInput
  BY <1>10 DEF DispatchInput
<1>. QED
  BY <1>1, <1>2, <1>3, <1>4, <1>5, <1>6, <1>7, <1>8, <1>9, <1>10 DEF AppRunNext

-----------------------------------------------------------------------------
(***************************************************************************)
(* The order of the teardown.                                              *)
(***************************************************************************)

\* Everything an order of calls destroys.
Destroyed(order) == {object \in Objects : \E i \in DOMAIN order : object \in order[i]}

\* The objects others are made of.
Owners == {"instance", "surface", "device", "allocator", "window"}

LEMMA ParentsAreOwners == \A object : Parents(object) \subseteq Owners
BY DEF Parents, Owners

LEMMA OwnersAreObjects == Owners \subseteq Objects
BY DEF Owners, Objects

\* One call of an order that serves everything in order.
LEMMA OneCall ==
  ASSUME NEW objects, NEW order \in Seq(SUBSET Objects), order # << >>,
         InOrder(objects, order), ServesAll(objects, order),
         \A object \in objects : Parents(object) \subseteq objects
  PROVE  LET left == objects \ Head(order)
         IN /\ InOrder(left, Tail(order)) /\ ServesAll(left, Tail(order))
            /\ \A object \in left : Parents(object) \subseteq left
<1>. DEFINE left == objects \ Head(order)
            rest == Tail(order)
<1>1. /\ DOMAIN order = 1 .. Len(order) /\ Len(order) \in Nat \ {0} /\ Head(order) = order[1]
      /\ DOMAIN rest = 1 .. Len(order) - 1
      /\ \A i \in DOMAIN rest : rest[i] = order[i + 1] /\ i + 1 \in DOMAIN order
      /\ \A j \in DOMAIN order : j # 1 => j - 1 \in DOMAIN rest /\ rest[j - 1] = order[j]
  OBVIOUS
<1>2. \A object \in left : object \in objects /\ object \notin order[1]
  BY <1>1
<1>. HIDE DEF rest
<1>3. InOrder(left, rest)
  <2>. SUFFICES ASSUME NEW object \in left, NEW i \in DOMAIN rest,
                       Parents(object) \cap rest[i] # {}
                PROVE  \E j \in 1 .. i : object \in rest[j]
    BY DEF InOrder
  <2>. HIDE DEF left
  <2>1. i + 1 \in DOMAIN order /\ Parents(object) \cap order[i + 1] # {}
    BY <1>1
  <2>2. PICK j \in 1 .. i + 1 : object \in order[j]
    BY <1>2, <2>1 DEF InOrder
  <2>3. j # 1
    BY <1>2, <2>2
  <2>4. j \in DOMAIN order /\ j - 1 \in 1 .. i
    BY <1>1, <2>1, <2>2, <2>3
  <2>5. object \in rest[j - 1]
    BY <1>1, <2>2, <2>3, <2>4
  <2>. QED
    BY <2>4, <2>5
<1>4. ServesAll(left, rest)
  <2>. SUFFICES ASSUME NEW object \in left
                PROVE  \E i \in DOMAIN rest : object \in rest[i]
    BY DEF ServesAll
  <2>. HIDE DEF left
  <2>1. PICK j \in DOMAIN order : object \in order[j]
    BY <1>2 DEF ServesAll
  <2>2. j # 1
    BY <1>2, <2>1
  <2>. QED
    BY <1>1, <2>1, <2>2
<1>5. ASSUME NEW object \in left, NEW parent \in Parents(object)
      PROVE  parent \in left
  <2>1. parent \in objects
    BY <1>2
  <2>2. parent \notin order[1]
    <3>. SUFFICES ASSUME parent \in order[1] PROVE FALSE
      OBVIOUS
    <3>1. \E j \in 1 .. 1 : object \in order[j]
      BY <1>1, <1>2 DEF InOrder
    <3>. QED
      BY <1>2, <3>1
  <2>. QED
    BY <1>1, <2>1, <2>2
<1>. QED
  BY <1>3, <1>4, <1>5 DEF rest

LEMMA ConcatParts ==
  ASSUME NEW S, NEW s \in Seq(S), NEW t \in Seq(S)
  PROVE  /\ s \o t \in Seq(S)
         /\ DOMAIN s = 1 .. Len(s) /\ DOMAIN t = 1 .. Len(t) /\ Len(s) \in Nat /\ Len(t) \in Nat
         /\ DOMAIN (s \o t) = 1 .. Len(s) + Len(t) /\ Len(s \o t) = Len(s) + Len(t)
         /\ \A i \in DOMAIN s : (s \o t)[i] = s[i]
         /\ \A i \in DOMAIN t : (s \o t)[i + Len(s)] = t[i]
OBVIOUS

\* One order after another.
LEMMA InOrderThen ==
  ASSUME NEW s \in Seq(SUBSET Objects), NEW t \in Seq(SUBSET Objects), NEW objects,
         objects \subseteq Objects, InOrder(objects, s), InOrder(objects \ Destroyed(s), t)
  PROVE  InOrder(objects, s \o t)
<1>. SUFFICES ASSUME NEW object \in objects, NEW i \in DOMAIN (s \o t),
                     Parents(object) \cap (s \o t)[i] # {}
              PROVE  \E j \in 1 .. i : object \in (s \o t)[j]
  BY DEF InOrder
<1>1. PICK st : st = s \o t
  OBVIOUS
<1>2. /\ DOMAIN s = 1 .. Len(s) /\ DOMAIN t = 1 .. Len(t) /\ Len(s) \in Nat /\ Len(t) \in Nat
      /\ DOMAIN st = 1 .. Len(s) + Len(t)
      /\ \A k \in DOMAIN s : st[k] = s[k]
      /\ \A k \in DOMAIN t : st[k + Len(s)] = t[k]
  BY <1>1, ConcatParts
<1>3. i \in DOMAIN st /\ Parents(object) \cap st[i] # {}
  BY <1>1
<1>4. CASE i \in DOMAIN s
  <2>1. PICK j \in 1 .. i : object \in s[j]
    BY <1>2, <1>3, <1>4 DEF InOrder
  <2>2. j \in DOMAIN s
    BY <1>2, <1>4, <2>1
  <2>. QED
    BY <1>1, <1>2, <2>1, <2>2
<1>5. CASE i \notin DOMAIN s
  <2>1. i - Len(s) \in DOMAIN t /\ st[i] = t[i - Len(s)] /\ i \in Nat
    <3>1. i - Len(s) \in DOMAIN t /\ i \in Nat
      BY <1>2, <1>3, <1>5
    <3>2. (i - Len(s)) + Len(s) = i
      BY <1>2, <3>1
    <3>. QED
      BY <1>2, <3>1, <3>2
  <2>2. CASE object \in Destroyed(s)
    <3>1. PICK j \in DOMAIN s : object \in s[j]
      BY <2>2 DEF Destroyed
    <3>2. j \in 1 .. i /\ object \in st[j]
      BY <1>2, <1>5, <2>1, <3>1
    <3>. QED
      BY <1>1, <3>2
  <2>3. CASE object \notin Destroyed(s)
    <3>1. PICK k \in 1 .. i - Len(s) : object \in t[k]
      BY <1>3, <2>1, <2>3 DEF InOrder
    <3>2. k \in DOMAIN t /\ k + Len(s) \in 1 .. i
      BY <1>2, <2>1, <3>1
    <3>3. object \in st[k + Len(s)]
      BY <1>2, <3>1, <3>2
    <3>. QED
      BY <1>1, <3>2, <3>3
  <2>. QED
    BY <2>2, <2>3
<1>. QED
  BY <1>4, <1>5

LEMMA DestroyedThen ==
  ASSUME NEW s \in Seq(SUBSET Objects), NEW t \in Seq(SUBSET Objects)
  PROVE  Destroyed(s \o t) = Destroyed(s) \cup Destroyed(t)
<1>1. PICK st : st = s \o t
  OBVIOUS
<1>2. /\ DOMAIN s = 1 .. Len(s) /\ DOMAIN t = 1 .. Len(t) /\ Len(s) \in Nat /\ Len(t) \in Nat
      /\ DOMAIN st = 1 .. Len(s) + Len(t)
      /\ \A k \in DOMAIN s : st[k] = s[k]
      /\ \A k \in DOMAIN t : st[k + Len(s)] = t[k]
  BY <1>1, ConcatParts
<1>3. ASSUME NEW object \in Destroyed(st)
      PROVE  object \in Destroyed(s) \cup Destroyed(t)
  <2>1. PICK i \in DOMAIN st : object \in st[i]
    BY DEF Destroyed
  <2>2. CASE i \in DOMAIN s
    BY <1>2, <2>1, <2>2 DEF Destroyed
  <2>3. CASE i \notin DOMAIN s
    <3>1. i - Len(s) \in DOMAIN t /\ (i - Len(s)) + Len(s) = i
      BY <1>2, <2>1, <2>3
    <3>2. object \in t[i - Len(s)]
      BY <1>2, <2>1, <3>1
    <3>. QED
      BY <3>1, <3>2 DEF Destroyed
  <2>. QED
    BY <2>2, <2>3
<1>4. ASSUME NEW object \in Destroyed(s)
      PROVE  object \in Destroyed(st)
  <2>1. PICK i \in DOMAIN s : object \in s[i]
    BY DEF Destroyed
  <2>2. i \in DOMAIN st /\ object \in st[i]
    BY <1>2, <2>1
  <2>. QED
    BY <2>2 DEF Destroyed
<1>5. ASSUME NEW object \in Destroyed(t)
      PROVE  object \in Destroyed(st)
  <2>1. PICK i \in DOMAIN t : object \in t[i]
    BY DEF Destroyed
  <2>2. i + Len(s) \in DOMAIN st /\ object \in st[i + Len(s)]
    BY <1>2, <2>1
  <2>. QED
    BY <2>2 DEF Destroyed
<1>. QED
  BY <1>1, <1>3, <1>4, <1>5

\* Calls that destroy nothing others are made of come in any order.
LEMMA HarmlessCalls ==
  ASSUME NEW s, \A i \in DOMAIN s : s[i] \cap Owners = {}, NEW objects
  PROVE  InOrder(objects, s)
BY ParentsAreOwners DEF InOrder

LEMMA StagesDestroyed ==
  /\ Destroyed(StagesCleanUp)
       = {"forward", "deferred", "sky", "clouds", "shadowMap", "post", "objectDescriptions",
          "capture", "staging", "timings", "sync", "uniforms", "commandPool",
          "descriptorSets", "raytracingSets", "swapchain"}
  /\ \A i \in DOMAIN StagesCleanUp : StagesCleanUp[i] \cap Owners = {}
<1>. DEFINE gone == {"forward", "deferred", "sky", "clouds", "shadowMap", "post",
                     "objectDescriptions", "capture", "staging", "timings", "sync", "uniforms",
                     "commandPool", "descriptorSets", "raytracingSets", "swapchain"}
            s == StagesCleanUp
<1>1. /\ DOMAIN s = 1 .. 16
      /\ s[1] = {"forward"} /\ s[2] = {"deferred"} /\ s[3] = {"sky"} /\ s[4] = {"clouds"}
      /\ s[5] = {"shadowMap"} /\ s[6] = {"post"} /\ s[7] = {"objectDescriptions"}
      /\ s[8] = {"capture"} /\ s[9] = {"staging"} /\ s[10] = {"timings"} /\ s[11] = {"sync"}
      /\ s[12] = {"uniforms"} /\ s[13] = {"commandPool"} /\ s[14] = {"descriptorSets"}
      /\ s[15] = {"raytracingSets"} /\ s[16] = {"swapchain"}
  BY DEF StagesCleanUp
<1>. HIDE DEF s
<1>2. \A i \in DOMAIN s : \E object \in gone : s[i] = {object}
  <2>1. \A i \in 1 .. 16 : \/ i = 1 \/ i = 2 \/ i = 3 \/ i = 4 \/ i = 5 \/ i = 6 \/ i = 7 \/ i = 8
                           \/ i = 9 \/ i = 10 \/ i = 11 \/ i = 12 \/ i = 13 \/ i = 14 \/ i = 15
                           \/ i = 16
    OBVIOUS
  <2>. QED
    BY <1>1, <2>1
<1>3. gone \subseteq Objects /\ gone \cap Owners = {}
  BY DEF Objects, Allocations, DeviceObjects, Owners
<1>4. \A object \in gone : \E i \in DOMAIN s : object \in s[i]
  BY <1>1
<1>. HIDE DEF gone
<1>5. Destroyed(s) = gone
  BY <1>2, <1>3, <1>4 DEF Destroyed
<1>6. \A i \in DOMAIN s : s[i] \cap Owners = {}
  BY <1>2, <1>3
<1>. QED
  BY <1>5, <1>6 DEF s, gone

\* The calls of the ray tracing stages, behind the wait.
LEMMA TracingCalls ==
  ASSUME NEW rrt1 \in BOOLEAN
  PROVE  LET s == TracingCleanUp(rrt1)
         IN /\ rrt1 => /\ DOMAIN s = 1 .. 5
                       /\ s[1] = {} /\ s[2] = {"accumulation"} /\ s[3] = {"pathTracing"}
                       /\ s[4] = {"raytracing"} /\ s[5] = {"accelerationStructures"}
            /\ ~rrt1 => DOMAIN s = 1 .. 1 /\ s[1] = {}
<1>1. PICK w \in Seq(SUBSET Objects), t \in Seq(SUBSET Objects) :
        /\ w = << {} >>
        /\ t = IF rrt1 THEN << {"accumulation"}, {"pathTracing"}, {"raytracing"},
                               {"accelerationStructures"} >>
               ELSE << >>
  <2>1. {} \in SUBSET Objects /\ {"accumulation"} \in SUBSET Objects
        /\ {"pathTracing"} \in SUBSET Objects /\ {"raytracing"} \in SUBSET Objects
        /\ {"accelerationStructures"} \in SUBSET Objects
    BY DEF Objects, Allocations, DeviceObjects
  <2>2. PICK S : S = SUBSET Objects
    OBVIOUS
  <2>3. /\ << {"accumulation"}, {"pathTracing"}, {"raytracing"}, {"accelerationStructures"} >>
             \in Seq(S)
        /\ << {} >> \in Seq(S) /\ << >> \in Seq(S)
    BY <2>1, <2>2
  <2>. QED
    BY <2>2, <2>3
<1>2. PICK s : s = w \o t
  OBVIOUS
<1>3. TracingCleanUp(rrt1) = s
  BY <1>1, <1>2 DEF TracingCleanUp, WaitIdle
<1>4. /\ DOMAIN s = 1 .. Len(w) + Len(t)
      /\ \A i \in 1 .. Len(w) : s[i] = w[i]
      /\ \A i \in 1 .. Len(t) : s[i + Len(w)] = t[i]
  BY <1>2, ConcatParts
<1>5. Len(w) = 1 /\ w[1] = {}
  BY <1>1
<1>6. CASE rrt1
  <2>1. /\ Len(t) = 4 /\ t[1] = {"accumulation"} /\ t[2] = {"pathTracing"}
        /\ t[3] = {"raytracing"} /\ t[4] = {"accelerationStructures"}
    BY <1>1, <1>6
  <2>2. /\ DOMAIN s = 1 .. 5 /\ s[1] = {} /\ s[2] = {"accumulation"} /\ s[3] = {"pathTracing"}
        /\ s[4] = {"raytracing"} /\ s[5] = {"accelerationStructures"}
    BY <1>4, <1>5, <2>1
  <2>. QED
    BY <1>3, <1>6, <2>2
<1>7. CASE ~rrt1
  <2>1. Len(t) = 0
    BY <1>1, <1>7
  <2>2. DOMAIN s = 1 .. 1 /\ s[1] = {}
    BY <1>4, <1>5, <2>1
  <2>. QED
    BY <1>3, <1>7, <2>2
<1>. QED
  BY <1>6, <1>7

LEMMA TracingDestroyed ==
  ASSUME NEW rrt1 \in BOOLEAN
  PROVE  /\ Destroyed(TracingCleanUp(rrt1))
              = IF rrt1 THEN {"accumulation", "pathTracing", "raytracing", "accelerationStructures"}
                ELSE {}
         /\ \A i \in DOMAIN TracingCleanUp(rrt1) : TracingCleanUp(rrt1)[i] \cap Owners = {}
<1>. DEFINE s == TracingCleanUp(rrt1)
            gone == IF rrt1 THEN {"accumulation", "pathTracing", "raytracing",
                                  "accelerationStructures"}
                    ELSE {}
<1>1. \A i \in DOMAIN s : s[i] \subseteq gone
  <2>1. CASE rrt1
    <3>1. /\ DOMAIN s = 1 .. 5
          /\ s[1] = {} /\ s[2] = {"accumulation"} /\ s[3] = {"pathTracing"}
          /\ s[4] = {"raytracing"} /\ s[5] = {"accelerationStructures"}
      BY <2>1, TracingCalls
    <3>. HIDE DEF s
    <3>. QED
      BY <2>1, <3>1
  <2>2. CASE ~rrt1
    <3>1. DOMAIN s = 1 .. 1 /\ s[1] = {}
      BY <2>2, TracingCalls
    <3>. HIDE DEF s
    <3>. QED
      BY <2>2, <3>1
  <2>. QED
    BY <2>1, <2>2
<1>2. \A object \in gone : \E i \in DOMAIN s : object \in s[i]
  <2>1. CASE rrt1
    <3>1. /\ DOMAIN s = 1 .. 5
          /\ s[2] = {"accumulation"} /\ s[3] = {"pathTracing"}
          /\ s[4] = {"raytracing"} /\ s[5] = {"accelerationStructures"}
      BY <2>1, TracingCalls
    <3>. HIDE DEF s
    <3>. QED
      BY <2>1, <3>1
  <2>2. CASE ~rrt1
    BY <2>2
  <2>. QED
    BY <2>1, <2>2
<1>3. gone \subseteq Objects /\ gone \cap Owners = {}
  BY DEF Objects, Allocations, DeviceObjects, Owners
<1>. HIDE DEF s, gone
<1>4. Destroyed(s) = gone
  BY <1>1, <1>2, <1>3 DEF Destroyed
<1>5. \A i \in DOMAIN s : s[i] \cap Owners = {}
  BY <1>1, <1>3
<1>. QED
  BY <1>4, <1>5 DEF s, gone

LEMMA FirstDestroyed ==
  /\ Destroyed(FirstCleanUp(FALSE)) = {"models", "guiPool", "imgui"}
  /\ \A i \in DOMAIN FirstCleanUp(FALSE) : FirstCleanUp(FALSE)[i] \cap Owners = {}
  /\ FirstCleanUp(FALSE) \in Seq(SUBSET Objects)
<1>. DEFINE s == FirstCleanUp(FALSE)
            gone == {"models", "guiPool", "imgui"}
<1>1. PICK a \in Seq(SUBSET Objects), b \in Seq(SUBSET Objects), w \in Seq(SUBSET Objects) :
        a = SceneCleanUp /\ b = GuiCleanUp /\ w = << WaitIdle >>
  BY TeardownParts
<1>2. PICK v : v = w \o a
  OBVIOUS
<1>3. s = v \o b
  BY <1>1, <1>2 DEF FirstCleanUp
<1>4. /\ Len(w) = 1 /\ w[1] = {}
      /\ Len(a) = 1 /\ a[1] = {"models"}
      /\ Len(b) = 2 /\ b[1] = {"guiPool"} /\ b[2] = {"imgui"}
  BY <1>1 DEF SceneCleanUp, GuiCleanUp, WaitIdle
<1>5. v \in Seq(SUBSET Objects) /\ Len(v) = 2 /\ v[1] = {} /\ v[2] = {"models"}
  <2>1. /\ v \in Seq(SUBSET Objects) /\ Len(v) = Len(w) + Len(a)
        /\ \A i \in 1 .. Len(w) : v[i] = w[i]
        /\ \A i \in 1 .. Len(a) : v[i + Len(w)] = a[i]
    BY <1>2, ConcatParts
  <2>2. Len(v) = 2 /\ v[1] = {}
    BY <1>4, <2>1
  <2>3. v[1 + Len(w)] = {"models"}
    BY <1>4, <2>1
  <2>. QED
    BY <1>4, <2>1, <2>2, <2>3
<1>. HIDE DEF s
<1>. DEFINE t == v \o b
<1>12. /\ t \in Seq(SUBSET Objects) /\ Len(t) = Len(v) + Len(b) /\ DOMAIN t = 1 .. Len(v) + Len(b)
       /\ \A i \in 1 .. Len(v) : t[i] = v[i]
       /\ \A i \in 1 .. Len(b) : t[i + Len(v)] = b[i]
  <2>1. v \in Seq(SUBSET Objects)
    BY <1>5
  <2>. QED
    BY <2>1, ConcatParts
<1>. HIDE DEF t
<1>6. /\ s \in Seq(SUBSET Objects) /\ DOMAIN s = 1 .. 4
      /\ s[1] = {} /\ s[2] = {"models"} /\ s[3] = {"guiPool"} /\ s[4] = {"imgui"}
  <2>1. /\ s \in Seq(SUBSET Objects) /\ DOMAIN s = 1 .. Len(v) + Len(b)
        /\ \A i \in 1 .. Len(v) : s[i] = v[i]
        /\ \A i \in 1 .. Len(b) : s[i + Len(v)] = b[i]
    BY <1>12, <1>3 DEF t
  <2>2. DOMAIN s = 1 .. 4 /\ s[1] = {} /\ s[2] = {"models"}
    BY <1>4, <1>5, <2>1
  <2>3. PICK n \in Nat : n = 2
    OBVIOUS
  <2>4. \A i \in 1 .. n : s[i + n] = b[i]
    BY <1>4, <1>5, <2>1, <2>3
  <2>5. 1 \in 1 .. n /\ 2 \in 1 .. n
    BY <2>3
  <2>6. s[1 + n] = b[1] /\ s[2 + n] = b[2]
    BY <2>4, <2>5
  <2>7. 1 + n = 3 /\ 2 + n = 4
    BY <2>3
  <2>8. s[3] = {"guiPool"} /\ s[4] = {"imgui"}
    BY <1>4, <2>6, <2>7
  <2>. QED
    BY <2>1, <2>2, <2>8
<1>7. gone \subseteq Objects /\ gone \cap Owners = {}
  BY DEF Objects, Allocations, DeviceObjects, Owners
<1>8. \A i \in DOMAIN s : s[i] \subseteq gone
  BY <1>6
<1>9. \A object \in gone : \E i \in DOMAIN s : object \in s[i]
  BY <1>6
<1>. HIDE DEF gone
<1>10. Destroyed(s) = gone
  BY <1>7, <1>8, <1>9 DEF Destroyed
<1>11. \A i \in DOMAIN s : s[i] \cap Owners = {}
  BY <1>7, <1>8
<1>. QED
  BY <1>6, <1>10, <1>11 DEF s, gone

\* What is left when the stages have gone: the device's own and what it is made of.
LEMMA RestInOrder ==
  /\ RestCleanUp \in Seq(SUBSET Objects)
  /\ Destroyed(RestCleanUp) = {"pipelineCache", "allocator", "device", "surface", "instance"}
  /\ \A objects : objects \subseteq {"pipelineCache"} \cup Owners => InOrder(objects, RestCleanUp)
<1>. DEFINE s == RestCleanUp
            gone == {"pipelineCache", "allocator", "device", "surface", "instance"}
<1>1. PICK a \in Seq(SUBSET Objects), b \in Seq(SUBSET Objects) :
        a = DeviceCleanUp /\ b = << {"surface"}, {"instance"} >>
  BY TeardownParts
<1>10. s = a \o b
  BY <1>1 DEF RestCleanUp
<1>11. /\ Len(a) = 3 /\ a[1] = {"pipelineCache"} /\ a[2] = {"allocator"} /\ a[3] = {"device"}
       /\ Len(b) = 2 /\ b[1] = {"surface"} /\ b[2] = {"instance"}
  BY <1>1 DEF DeviceCleanUp
<1>. HIDE DEF s
<1>2. /\ DOMAIN s = 1 .. 5
      /\ s[1] = {"pipelineCache"} /\ s[2] = {"allocator"} /\ s[3] = {"device"}
      /\ s[4] = {"surface"} /\ s[5] = {"instance"}
  <2>1. /\ DOMAIN s = 1 .. Len(a) + Len(b)
        /\ \A i \in 1 .. Len(a) : s[i] = a[i]
        /\ \A i \in 1 .. Len(b) : s[i + Len(a)] = b[i]
    BY <1>10, ConcatParts
  <2>. QED
    BY <1>11, <2>1
<1>3. gone \subseteq Objects
  BY DEF Objects, Allocations, DeviceObjects
<1>4. s \in Seq(SUBSET Objects)
  BY <1>10, ConcatParts
<1>5. \A i \in DOMAIN s : \E object \in gone : s[i] = {object}
  BY <1>2
<1>6. \A object \in gone : \E i \in DOMAIN s : object \in s[i]
  BY <1>2
<1>7. Destroyed(s) = gone
  BY <1>3, <1>5, <1>6 DEF Destroyed
<1>8. ASSUME NEW object \in {"pipelineCache"} \cup Owners, NEW i \in DOMAIN s,
             Parents(object) \cap s[i] # {}
      PROVE  \E j \in 1 .. i : object \in s[j]
  <2>1. CASE object \in {"pipelineCache", "allocator"}
    <3>1. Parents(object) = {"device"}
      BY <2>1 DEF Parents, Allocations, DeviceObjects
    <3>2. i = 3
      BY <1>2, <1>8, <3>1
    <3>. QED
      BY <1>2, <2>1, <3>2
  <2>2. CASE object \in {"device", "surface"}
    <3>1. Parents(object) = {"instance"}
      BY <2>2 DEF Parents, Allocations, DeviceObjects
    <3>2. i = 5
      BY <1>2, <1>8, <3>1
    <3>. QED
      BY <1>2, <2>2, <3>2
  <2>3. CASE object \in {"instance", "window"}
    <3>1. Parents(object) = {}
      BY <2>3 DEF Parents, Allocations, DeviceObjects
    <3>. QED
      BY <1>8, <3>1
  <2>. QED
    BY <2>1, <2>2, <2>3 DEF Owners
<1>9. ASSUME NEW objects, objects \subseteq {"pipelineCache"} \cup Owners
      PROVE  InOrder(objects, s)
  BY <1>8, <1>9 DEF InOrder
<1>. QED
  BY <1>4, <1>7, <1>9 DEF s, gone

LEMMA LastInOrder ==
  /\ LastCleanUp \in Seq(SUBSET Objects)
  /\ "window" \in Destroyed(LastCleanUp)
  /\ \A objects : objects \subseteq {"window"} => InOrder(objects, LastCleanUp)
<1>1. PICK a \in Seq(SUBSET Objects), b \in Seq(SUBSET Objects), c \in Seq(SUBSET Objects) :
        a = << {"window"} >> /\ b = GuiCleanUp /\ c = SceneCleanUp
  BY TeardownParts
<1>2. b \o c \in Seq(SUBSET Objects)
  BY ConcatParts
<1>3. LastCleanUp \in Seq(SUBSET Objects)
  BY <1>1, <1>2, ConcatParts DEF LastCleanUp
<1>6. Destroyed(LastCleanUp) = Destroyed(a) \cup Destroyed(b \o c)
  BY <1>1, <1>2, DestroyedThen DEF LastCleanUp
<1>4. "window" \in Destroyed(a)
  <2>1. 1 \in DOMAIN a /\ "window" \in a[1]
    BY <1>1
  <2>. QED
    BY <2>1, OwnersAreObjects DEF Destroyed, Owners
<1>5. Parents("window") = {}
  BY DEF Parents, Allocations, DeviceObjects
<1>. QED
  BY <1>3, <1>4, <1>5, <1>6 DEF InOrder

LEMMA TeardownInOrder ==
  ASSUME NEW rrt1 \in BOOLEAN, NEW objects, objects \subseteq Objects,
         ~rrt1 => objects \cap (RaytracingObjects \ {"raytracingSets"}) = {}
  PROVE  /\ InOrder(objects, AppTeardown(FALSE, rrt1))
         /\ ServesAll(objects, AppTeardown(FALSE, rrt1))
<1>1. PICK first, tracing, stages, rest, last :
        /\ first = FirstCleanUp(FALSE) /\ tracing = TracingCleanUp(rrt1) /\ stages = StagesCleanUp
        /\ rest = RestCleanUp /\ last = LastCleanUp
  OBVIOUS
<1>2. /\ first \in Seq(SUBSET Objects) /\ tracing \in Seq(SUBSET Objects)
      /\ stages \in Seq(SUBSET Objects) /\ rest \in Seq(SUBSET Objects)
      /\ last \in Seq(SUBSET Objects)
  BY <1>1, FirstDestroyed, RendererParts, RestInOrder, LastInOrder
<1>3. /\ stages \o rest \in Seq(SUBSET Objects)
      /\ Destroyed(stages \o rest) = Destroyed(stages) \cup Destroyed(rest)
  BY <1>2, ConcatParts, DestroyedThen
<1>4. PICK renderer \in Seq(SUBSET Objects) : renderer = RendererCleanUp(rrt1)
  BY RendererCleanUpIs
<1>5. renderer = tracing \o (stages \o rest)
  BY <1>1, <1>4, RendererCleanUpIs
<1>6. Destroyed(renderer) = Destroyed(tracing) \cup Destroyed(stages) \cup Destroyed(rest)
  <2>1. PICK t \in Seq(SUBSET Objects) : t = stages \o rest
    BY <1>3
  <2>2. Destroyed(tracing \o t) = Destroyed(tracing) \cup Destroyed(t)
    BY <1>2, DestroyedThen
  <2>. QED
    BY <1>3, <1>5, <2>1, <2>2
<1>7. /\ renderer \o last \in Seq(SUBSET Objects)
      /\ Destroyed(renderer \o last) = Destroyed(renderer) \cup Destroyed(last)
  BY <1>2, ConcatParts, DestroyedThen
<1>8. AppTeardown(FALSE, rrt1) = first \o (renderer \o last)
  BY <1>1, <1>4, AppTeardownIs
<1>9. Destroyed(first \o (renderer \o last))
        = Destroyed(first) \cup Destroyed(renderer) \cup Destroyed(last)
  <2>1. PICK t \in Seq(SUBSET Objects) : t = renderer \o last
    BY <1>7
  <2>2. Destroyed(first \o t) = Destroyed(first) \cup Destroyed(t)
    BY <1>2, DestroyedThen
  <2>. QED
    BY <1>7, <2>1, <2>2
<1>10. /\ InOrder(objects, first)
       /\ InOrder(objects \ Destroyed(first), tracing)
       /\ InOrder((objects \ Destroyed(first)) \ Destroyed(tracing), stages)
  BY <1>1, FirstDestroyed, TracingDestroyed, StagesDestroyed, HarmlessCalls
<1>11. ((objects \ Destroyed(first)) \ Destroyed(tracing)) \ Destroyed(stages)
         \subseteq {"pipelineCache"} \cup Owners
  <2>1. ASSUME NEW object \in objects, object \notin {"pipelineCache"} \cup Owners
        PROVE  object \in Destroyed(first) \cup Destroyed(tracing) \cup Destroyed(stages)
    <3>1. \/ object \in {"models", "guiPool", "imgui"}
          \/ object \in {"accumulation", "pathTracing", "raytracing", "accelerationStructures"}
          \/ object \in {"forward", "deferred", "sky", "clouds", "shadowMap", "post",
                         "objectDescriptions", "capture", "staging", "timings", "sync", "uniforms",
                         "commandPool", "descriptorSets", "raytracingSets", "swapchain"}
      BY <2>1 DEF Objects, Allocations, DeviceObjects, Owners
    <3>2. object \in {"accumulation", "pathTracing", "raytracing", "accelerationStructures"} => rrt1
      BY DEF RaytracingObjects
    <3>. QED
      BY <1>1, <3>1, <3>2, FirstDestroyed, TracingDestroyed, StagesDestroyed
  <2>. QED
    BY <2>1
<1>12. InOrder(((objects \ Destroyed(first)) \ Destroyed(tracing)) \ Destroyed(stages), rest)
  BY <1>1, <1>11, RestInOrder
<1>13. InOrder((objects \ Destroyed(first)) \ Destroyed(tracing), stages \o rest)
  BY <1>2, <1>10, <1>12, InOrderThen
<1>14. InOrder(objects \ Destroyed(first), renderer)
  BY <1>2, <1>3, <1>5, <1>10, <1>13, InOrderThen
<1>15. (objects \ Destroyed(first)) \ Destroyed(renderer) \subseteq {"window"}
  <2>1. Destroyed(rest) = {"pipelineCache", "allocator", "device", "surface", "instance"}
    BY <1>1, RestInOrder
  <2>. QED
    BY <1>6, <1>11, <2>1 DEF Owners
<1>16. InOrder((objects \ Destroyed(first)) \ Destroyed(renderer), last)
  BY <1>1, <1>15, LastInOrder
<1>17. InOrder(objects \ Destroyed(first), renderer \o last)
  BY <1>2, <1>14, <1>16, InOrderThen
<1>18. InOrder(objects, first \o (renderer \o last))
  BY <1>2, <1>7, <1>10, <1>17, InOrderThen
<1>19. objects \subseteq Destroyed(first \o (renderer \o last))
  <2>1. "window" \in Destroyed(last)
    BY <1>1, LastInOrder
  <2>. QED
    BY <1>9, <1>15, <2>1
<1>20. ServesAll(objects, first \o (renderer \o last))
  BY <1>19 DEF ServesAll, Destroyed
<1>. QED
  BY <1>8, <1>18, <1>20

AliveOK ==
  /\ alive \subseteq Objects /\ rrt \in BOOLEAN /\ lost \in BOOLEAN
  /\ resume \in {"top", "acquire"}

\* Without ray tracing there is nothing of it.
NotTraced(objects) == objects \cap (RaytracingObjects \ {"raytracingSets"}) = {}

LEMMA Constructed ==
  ASSUME NEW rrt1 \in BOOLEAN, NEW cache \in BOOLEAN
  PROVE  /\ ConstructedObjects(rrt1, cache) \subseteq Objects
         /\ Owners \subseteq ConstructedObjects(rrt1, cache)
         /\ ~rrt1 => NotTraced(ConstructedObjects(rrt1, cache))
<1>. DEFINE objects == ConstructedObjects(rrt1, cache)
<1>1. Owners \subseteq objects
  BY DEF Owners, ConstructedObjects
<1>2. ASSUME NEW object \in objects
      PROVE  object \in Objects /\ (~rrt1 => object \notin RaytracingObjects \ {"raytracingSets"})
  <2>1. \/ object \in {"window", "instance", "surface", "device", "allocator", "imgui"}
        \/ object \in Allocations \ (RaytracingObjects \cup {"models"})
        \/ object \in DeviceObjects \ (RaytracingObjects \cup {"pipelineCache"})
        \/ object \in RaytracingObjects \ {"accelerationStructures"} /\ rrt1
        \/ object = "pipelineCache"
    BY DEF ConstructedObjects
  <2>2. {"window", "instance", "surface", "device", "allocator", "imgui", "pipelineCache"}
          \cap RaytracingObjects = {}
    BY DEF RaytracingObjects
  <2>3. RaytracingObjects \subseteq Objects /\ Allocations \subseteq Objects
        /\ DeviceObjects \subseteq Objects /\ "pipelineCache" \in DeviceObjects
        /\ {"window", "instance", "surface", "device", "allocator", "imgui"} \subseteq Objects
    BY DEF RaytracingObjects, Objects, Allocations, DeviceObjects
  <2>. QED
    BY <2>1, <2>2, <2>3
<1>. QED
  BY <1>1, <1>2 DEF NotTraced

\* What App::run() and the handlers leave alive.
LEMMA ConstructAlive ==
  ASSUME AliveOK, AliveInv, ConstructRenderer
  PROVE  alive' \subseteq Objects /\ AliveInv'
<1>1. /\ alive = {} /\ calls' = calls /\ rrt' = rrt /\ lost' = lost /\ pc' \in {"aborted", "top"}
  BY DEF ConstructRenderer, AliveInv, Starting
<1>2. CASE window.size = 0
  <2>1. alive' = {} /\ pc' = "aborted"
    BY <1>1, <1>2 DEF ConstructRenderer
  <2>. QED
    BY <1>1, <2>1 DEF AliveInv, Starting, Looping, Unbound, Idled, TeardownIsOrdered, ParentsOutlive
<1>3. CASE window.size # 0
  <2>1. PICK cache \in BOOLEAN : cache = (pipeline_cache # "none")
    OBVIOUS
  <2>2. alive' = ConstructedObjects(rrt, cache) /\ pc' = "top"
    BY <1>3, <2>1 DEF ConstructRenderer
  <2>3. PICK objects : objects = ConstructedObjects(rrt, cache)
    OBVIOUS
  <2>4. objects \subseteq Objects /\ Owners \subseteq objects /\ (~rrt => NotTraced(objects))
    BY <2>3, Constructed DEF AliveOK
  <2>. QED
    BY <1>1, <2>2, <2>3, <2>4, ParentsAreOwners
    DEF AliveInv, Starting, Looping, Unbound, Idled, TeardownIsOrdered, ParentsOutlive, Owners,
        NotTraced
<1>. QED
  BY <1>2, <1>3

LEMMA HandlersAlive ==
  ASSUME AliveOK, AliveInv, UpdateStateDueToUserInput
  PROVE  alive' \subseteq Objects /\ AliveInv'
<1>1. /\ pc \in Looping /\ pc' \in Looping
      /\ calls' = calls /\ rrt' = rrt /\ lost' = lost
  BY HandlersPlaces DEF HandlersOnly, HandlersAt, Handlers, Works, Idled, Unbound, Looping
<1>2. SceneChanges
  BY HandlersMove DEF HandlersPass, HandlersWait, HandlersWork, SceneChanges
<1>3. PICK traced : traced = (IF rrt THEN {"accelerationStructures"} ELSE {})
  OBVIOUS
<1>4. alive \ {"models"} \subseteq alive' /\ alive' \subseteq alive \cup {"models"} \cup traced
  BY <1>2, <1>3 DEF SceneChanges
<1>5. /\ "models" \in Objects /\ "models" \notin RaytracingObjects /\ "models" \notin Owners
      /\ traced \subseteq Objects /\ (~rrt => traced = {})
  BY <1>3 DEF Objects, Allocations, RaytracingObjects, Owners
<1>6. Owners \subseteq alive /\ (~rrt => NotTraced(alive))
  BY <1>1 DEF AliveInv, Owners, NotTraced
<1>7. alive \subseteq Objects /\ alive' \subseteq Objects
  BY <1>4, <1>5 DEF AliveOK
<1>8. Owners \subseteq alive' /\ (~rrt' => NotTraced(alive'))
  BY <1>1, <1>4, <1>5, <1>6 DEF NotTraced
<1>9. ParentsOutlive'
  BY <1>8, ParentsAreOwners DEF ParentsOutlive
<1>10. pc' \notin Starting \cup {"teardown", "exited"}
  BY <1>1 DEF Looping, Unbound, Idled, Starting
<1>. QED
  BY <1>7, <1>8, <1>9, <1>10 DEF AliveInv, TeardownIsOrdered, Owners, NotTraced

\* The teardown begins in order, and stays so with every call.
LEMMA LeaveAlive ==
  ASSUME AliveOK, AliveInv, LeaveLoop
  PROVE  alive' \subseteq Objects /\ AliveInv'
<1>1. /\ pc = "top" /\ pc' = "teardown" /\ alive' = alive /\ lost' = lost
      /\ calls' = AppTeardown(lost, rrt)
  BY DEF LeaveLoop, frameVars
<1>2. /\ alive \subseteq Objects
      /\ ~rrt => alive \cap (RaytracingObjects \ {"raytracingSets"}) = {}
  BY <1>1 DEF AliveOK, AliveInv, Looping
<1>3. ASSUME ~lost
      PROVE  InOrder(alive', calls') /\ ServesAll(alive', calls')
  <2>1. lost = FALSE /\ rrt \in BOOLEAN
    BY <1>3 DEF AliveOK
  <2>2. PICK order : order = AppTeardown(FALSE, rrt)
    BY Zenon
  <2>3. InOrder(alive, order) /\ ServesAll(alive, order)
    BY <1>2, <2>1, <2>2, TeardownInOrder
  <2>. QED
    BY <1>1, <2>1, <2>2, <2>3
<1>4. TeardownIsOrdered'
  BY <1>1 DEF AliveInv, TeardownIsOrdered, ParentsOutlive
<1>. QED
  BY <1>1, <1>2, <1>3, <1>4 DEF AliveInv, Starting, Looping, Unbound, Idled

LEMMA TearDownAlive ==
  ASSUME AliveOK, AliveInv, calls \in Seq(SUBSET Objects), TearDown
  PROVE  alive' \subseteq Objects /\ AliveInv'
<1>1. /\ pc = "teardown" /\ pc' = "teardown" /\ calls # << >> /\ lost' = lost
      /\ alive' = alive \ Head(calls) /\ calls' = Tail(calls)
  BY DEF TearDown, DestroyNext
<1>2. PICK order : order = calls
  OBVIOUS
<1>3. PICK objects : objects = alive
  OBVIOUS
<1>4. ASSUME ~lost
      PROVE  InOrder(alive', calls') /\ ServesAll(alive', calls') /\ ParentsOutlive'
  <2>1. InOrder(objects, order) /\ ServesAll(objects, order)
        /\ \A object \in objects : Parents(object) \subseteq objects
    BY <1>1, <1>2, <1>3, <1>4 DEF AliveInv, TeardownIsOrdered, ParentsOutlive
  <2>2. order \in Seq(SUBSET Objects) /\ order # << >>
    BY <1>1, <1>2
  <2>3. PICK left : left = objects \ Head(order)
    OBVIOUS
  <2>4. InOrder(left, Tail(order)) /\ ServesAll(left, Tail(order))
        /\ \A object \in left : Parents(object) \subseteq left
    BY <2>1, <2>2, <2>3, OneCall
  <2>5. alive' = left /\ calls' = Tail(order)
    BY <1>1, <1>2, <1>3, <2>3
  <2>. QED
    BY <2>4, <2>5 DEF ParentsOutlive
<1>. QED
  BY <1>1, <1>4 DEF AliveInv, AliveOK, Starting, Looping, Unbound, Idled, TeardownIsOrdered

\* What is left when the last call was made: nothing.
LEMMA ExitAlive ==
  ASSUME AliveOK, AliveInv, Exit
  PROVE  alive' \subseteq Objects /\ AliveInv'
<1>1. /\ pc = "teardown" /\ pc' = "exited" /\ calls = << >> /\ lost' = lost /\ alive' = alive
  BY DEF Exit, Goto, machineVars, teardownVars, frameVars
<1>2. ~lost => alive = {} /\ ParentsOutlive
  BY <1>1 DEF AliveInv, ServesAll, TeardownIsOrdered
<1>. QED
  BY <1>1, <1>2 DEF AliveInv, AliveOK, Starting, Looping, Unbound, Idled, TeardownIsOrdered, ParentsOutlive

LEMMA AliveStep ==
  ASSUME AliveOK, AliveInv, calls \in Seq(SUBSET Objects), AppRunNext
  PROVE  alive' \subseteq Objects /\ AliveInv'
<1>. USE DEF AliveOK, AliveInv, Starting, Looping, Unbound, Idled, Ended, TeardownIsOrdered,
             ParentsOutlive,
             frameVars, machineVars, teardownVars
<1>1. CASE Program
  <2>1. CASE OpenWindow
    BY <2>1 DEF OpenWindow
  <2>2. CASE ChooseDevice
    BY <2>2 DEF ChooseDevice
  <2>3. CASE CreateDevice
    BY <2>3 DEF CreateDevice, Goto
  <2>4. CASE ReadCache
    BY <2>4 DEF ReadCache, Goto
  <2>5. CASE ConstructRenderer
    BY <2>5, ConstructAlive
  <2>6. CASE CheckShouldClose
    BY <2>6 DEF CheckShouldClose
  <2>7. CASE PollEvents
    BY <2>7 DEF PollEvents, Goto
  <2>8. CASE RenderGui
    BY <2>8 DEF RenderGui, Goto
  <2>9. CASE UpdateStateDueToUserInput
    BY <2>9, HandlersAlive
  <2>10. CASE CheckFramebufferSize
    BY <2>10 DEF CheckFramebufferSize, Recreate
  <2>11. CASE AcquireImage
    BY <2>11 DEF AcquireImage, Recreate
  <2>12. CASE RecordAndSubmit
    BY <2>12 DEF RecordAndSubmit, Goto
  <2>13. CASE PresentImage
    BY <2>13 DEF PresentImage, Recreate
  <2>14. CASE MeasureFramebuffer
    BY <2>14 DEF MeasureFramebuffer
  <2>15. CASE Remeasure
    BY <2>15 DEF Remeasure, Goto
  <2>16. CASE WaitEvents
    BY <2>16 DEF WaitEvents
  <2>17. CASE RebuildSwapChain
    <3>1. /\ alive' = alive /\ calls' = calls /\ rrt' = rrt /\ lost' = lost
          /\ pc = "recreate" /\ pc' \in {"top", "acquire", "aborted"}
      BY <2>17 DEF RebuildSwapChain
    <3>. QED
      BY <3>1
  <2>18. CASE LeaveLoop
    BY <2>18, LeaveAlive
  <2>19. CASE TearDown
    BY <2>19, TearDownAlive
  <2>20. CASE OpenCacheFile
    BY <2>20 DEF OpenCacheFile
  <2>21. CASE Exit
    BY <2>21, ExitAlive
  <2>22. CASE WaitForFrames
    BY <2>22 DEF WaitForFrames, Goto
  <2>. QED
    BY <1>1, <2>1, <2>2, <2>3, <2>4, <2>5, <2>6, <2>7, <2>8, <2>9, <2>10, <2>11, <2>12, <2>13,
       <2>14, <2>15, <2>16, <2>17, <2>18, <2>19, <2>20, <2>21, <2>22 DEF Program
<1>2. CASE AbortFrame
  <2>1. /\ pc \in {"draw", "acquire", "record", "present"} /\ pc' = "top"
        /\ UNCHANGED << alive, calls, rrt, resume >>
    BY <1>2 DEF AbortFrame
  <2>2. ~lost' => ~lost
    BY <1>2 DEF AbortFrame
  <2>. QED
    BY <2>1, <2>2
<1>3. CASE Crash
  BY <1>3 DEF Crash
<1>4. CASE UpdateDriver
  BY <1>4 DEF UpdateDriver
<1>5. CASE Relaunch
  BY <1>5 DEF Relaunch, FreshProcess
<1>6. CASE Stopped
  BY <1>6 DEF Stopped, appVars
<1>7. CASE ResizeWindow
  BY <1>7 DEF ResizeWindow, UserOnly
<1>8. CASE RestoreWindow
  BY <1>8 DEF RestoreWindow, UserOnly
<1>9. CASE RequestClose
  BY <1>9 DEF RequestClose, UserOnly
<1>10. CASE DispatchInput
  BY <1>10 DEF DispatchInput
<1>. QED
  BY <1>1, <1>2, <1>3, <1>4, <1>5, <1>6, <1>7, <1>8, <1>9, <1>10 DEF AppRunNext

-----------------------------------------------------------------------------
(***************************************************************************)
(* The device.                                                             *)
(***************************************************************************)

\* A set of naturals that has zero and every successor has all of them.
LEMMA InductiveSets ==
  ASSUME NEW S, 0 \in S, \A n \in Nat : n \in S => n + 1 \in S
  PROVE  \A n \in Nat : n \in S
<1>. SUFFICES ASSUME NEW m \in Nat, m \notin S PROVE FALSE
  OBVIOUS
<1>. DEFINE T == { n \in Nat : n \notin S }
<1>1. T \subseteq Nat /\ T # {}
  OBVIOUS
<1>. HIDE DEF T
<1>. DEFINE R == { ss \in Nat \X Nat : ss[1] < ss[2] }
<1>2. IsWellFoundedOn(R, Nat)
  BY NatLessThanWellFounded DEF OpToRel
<1>. HIDE DEF R
<1>3. PICK n \in T : \A k \in T : << k, n >> \notin R
  BY <1>1, <1>2, WFMin
<1>4. n \in Nat /\ n # 0 /\ n \notin S
  BY <1>1, <1>3 DEF T
<1>5. n - 1 \in Nat /\ (n - 1) + 1 = n /\ n - 1 < n
  BY <1>4
<1>6. n - 1 \in S
  BY <1>1, <1>3, <1>4, <1>5 DEF T, R
<1>. QED
  BY <1>4, <1>5, <1>6

\* A pass over a list, whose step n is Steps[n], defines a function.
LEMMA PassExists ==
  ASSUME NEW S, NEW first \in S, NEW N \in Nat, NEW Pass \in [1 .. N -> [S -> S]]
  PROVE  \E g \in [0 .. N -> S] :
            g[0] = first /\ \A n \in 1 .. N : g[n] = Pass[n][g[n - 1]]
<1>. DEFINE Passes(g, m) ==
              /\ g \in [0 .. m -> S]
              /\ g[0] = first
              /\ \A k \in 1 .. m : g[k] = Pass[k][g[k - 1]]
            T == { m \in Nat : m <= N => \E g \in [0 .. m -> S] : Passes(g, m) }
<1>1. 0 \in T
  <2>1. Passes([k \in 0 .. 0 |-> first], 0)
    OBVIOUS
  <2>. QED
    BY <2>1
<1>2. ASSUME NEW m \in Nat, m \in T PROVE m + 1 \in T
  <2>. SUFFICES ASSUME m + 1 <= N PROVE \E h \in [0 .. m + 1 -> S] : Passes(h, m + 1)
    OBVIOUS
  <2>1. PICK g \in [0 .. m -> S] : Passes(g, m)
    BY <1>2
  <2>2. Pass[m + 1] \in [S -> S] /\ g[m] \in S
    OBVIOUS
  <2>. DEFINE h == [k \in 0 .. m + 1 |-> IF k = m + 1 THEN Pass[m + 1][g[m]] ELSE g[k]]
  <2>3. h \in [0 .. m + 1 -> S]
    BY <2>2
  <2>4. \A k \in 1 .. m + 1 : h[k] = Pass[k][h[k - 1]]
    <3>1. SUFFICES ASSUME NEW k \in 1 .. m + 1 PROVE h[k] = Pass[k][h[k - 1]]
      OBVIOUS
    <3>2. CASE k = m + 1
      BY <3>2
    <3>3. CASE k \in 1 .. m
      BY <2>1, <3>3
    <3>. QED
      BY <3>2, <3>3
  <2>5. h[0] = first
    BY <2>1
  <2>6. Passes(h, m + 1)
    BY <2>3, <2>4, <2>5
  <2>. HIDE DEF h, Passes
  <2>. QED
    BY <2>3, <2>6
<1>3. N \in T
  <2>. HIDE DEF T
  <2>. QED
    BY <1>1, <1>2, InductiveSets
<1>4. PICK g \in [0 .. N -> S] : Passes(g, N)
  BY <1>3
<1>. QED
  BY <1>4

\* getQueueFamilies(): what is found serves the use, and is found if it is there.
LEMMA QueueFamiliesServe ==
  ASSUME NEW gpu, gpu.families \in Seq(SUBSET Uses)
  PROVE  /\ QueueFamilies(gpu) \in [Uses -> 0 .. Len(gpu.families)]
         /\ \A use \in Uses : QueueFamilies(gpu)[use] > 0 =>
              use \in gpu.families[QueueFamilies(gpu)[use]]
         /\ IsValid(QueueFamilies(gpu)) <=>
              \A use \in Uses : \E i \in DOMAIN gpu.families : use \in gpu.families[i]
<1>. DEFINE N == Len(gpu.families)
            S == [Uses -> Nat]
            Next1(x, n) == IF IsValid(x) THEN x
                           ELSE [use \in Uses |-> IF use \in gpu.families[n] THEN n ELSE x[use]]
            Pass == [n \in 1 .. N |-> [x \in S |-> Next1(x, n)]]
            after == CHOOSE g : g = [n \in 0 .. N |->
                       IF n = 0 THEN NoFamilies
                       ELSE IF IsValid(g[n - 1]) THEN g[n - 1]
                       ELSE [use \in Uses |-> IF use \in gpu.families[n] THEN n
                                              ELSE g[n - 1][use]]]
<1>0. N \in Nat
  OBVIOUS
<1>1. NoFamilies \in S
  BY DEF NoFamilies, Uses
<1>2. Pass \in [1 .. N -> [S -> S]]
  OBVIOUS
<1>3. PICK g \in [0 .. N -> S] : g[0] = NoFamilies /\ \A n \in 1 .. N : g[n] = Pass[n][g[n - 1]]
  <2>. HIDE DEF Pass, S, N
  <2>. QED
    BY <1>0, <1>1, <1>2, PassExists
<1>4. g = [n \in 0 .. N |->
             IF n = 0 THEN NoFamilies
             ELSE IF IsValid(g[n - 1]) THEN g[n - 1]
             ELSE [use \in Uses |-> IF use \in gpu.families[n] THEN n ELSE g[n - 1][use]]]
  <2>1. ASSUME NEW n \in 1 .. N PROVE g[n] = Next1(g[n - 1], n)
    <3>1. g[n - 1] \in S
      <4>1. n - 1 \in 0 .. N
        BY <1>0
      <4>. HIDE DEF N, S
      <4>. QED
        BY <4>1
    <3>2. Pass[n] = [x \in S |-> Next1(x, n)]
      BY Zenon
    <3>3. PICK x \in S : x = g[n - 1]
      BY <3>1
    <3>4. [y \in S |-> Next1(y, n)][x] = Next1(x, n)
      <4>. HIDE DEF S
      <4>. QED
        BY Zenon
    <3>5. Pass[n][g[n - 1]] = Next1(g[n - 1], n)
      <4>. HIDE DEF Pass
      <4>. QED
        BY <3>2, <3>3, <3>4
    <3>. QED
      BY <1>3, <3>5
  <2>2. \A n \in 0 .. N :
           g[n] = IF n = 0 THEN NoFamilies
                  ELSE IF IsValid(g[n - 1]) THEN g[n - 1]
                  ELSE [use \in Uses |-> IF use \in gpu.families[n] THEN n ELSE g[n - 1][use]]
    BY <1>0, <1>3, <2>1
  <2>. HIDE DEF N, Pass, S
  <2>. QED
    BY <2>2
<1>5. after = [n \in 0 .. N |->
             IF n = 0 THEN NoFamilies
             ELSE IF IsValid(after[n - 1]) THEN after[n - 1]
             ELSE [use \in Uses |-> IF use \in gpu.families[n] THEN n ELSE after[n - 1][use]]]
  BY <1>4
<1>6. QueueFamilies(gpu) = after[N]
  BY DEF QueueFamilies
<1>. HIDE DEF after, Pass, S
<1>7. /\ after[0] = NoFamilies
      /\ \A n \in 1 .. N : after[n] = Next1(after[n - 1], n)
  <2>1. 0 \in 0 .. N /\ \A n \in 1 .. N : n \in 0 .. N /\ n # 0
    BY <1>0
  <2>. HIDE DEF N
  <2>. QED
    BY <1>5, <2>1
<1>. DEFINE Good(n) ==
              /\ after[n] \in [Uses -> 0 .. n]
              /\ \A use \in Uses : after[n][use] > 0 => use \in gpu.families[after[n][use]]
              /\ \A use \in Uses : after[n][use] = 0 => \A i \in 1 .. n : use \notin gpu.families[i]
            T == { n \in Nat : n <= N => Good(n) }
<1>8. 0 \in T
  BY <1>7 DEF NoFamilies, Uses
<1>9. ASSUME NEW n \in Nat, n \in T PROVE n + 1 \in T
  <2>. SUFFICES ASSUME n + 1 <= N PROVE Good(n + 1)
    OBVIOUS
  <2>1. Good(n)
    BY <1>9
  <2>2. after[n + 1] = Next1(after[n], n + 1)
    BY <1>7
  <2>3. CASE IsValid(after[n])
    <3>1. after[n + 1] = after[n]
      BY <2>2, <2>3
    <3>2. \A use \in Uses : after[n + 1][use] > 0
      BY <2>3, <3>1 DEF IsValid
    <3>. QED
      BY <2>1, <3>1, <3>2
  <2>4. CASE ~IsValid(after[n])
    <3>1. after[n + 1] = [use \in Uses |-> IF use \in gpu.families[n + 1] THEN n + 1
                                           ELSE after[n][use]]
      BY <2>2, <2>4
    <3>. QED
      BY <2>1, <3>1
  <2>. QED
    BY <2>3, <2>4
<1>10. N \in T
  <2>. HIDE DEF T
  <2>. QED
    BY <1>0, <1>8, <1>9, InductiveSets
<1>11. Good(N)
  BY <1>0, <1>10
<1>12. DOMAIN gpu.families = 1 .. N
  OBVIOUS
<1>. HIDE DEF N
<1>. QED
  BY <1>0, <1>6, <1>11, <1>12 DEF IsValid

LEMMA SuitableIsWorkable ==
  ASSUME NEW gpu \in PhysicalDevices
  PROVE  Suitable(gpu) <=> Workable(gpu)
BY QueueFamiliesServe DEF Suitable, Workable, PhysicalDevices

\* What a pass that keeps the best keeps: nothing where nothing was eligible,
\* else an eligible device that no other ranks above.
Tops(best, gpus, eligible) ==
  IF eligible = {} THEN best = Nothing
  ELSE \E i \in eligible :
         /\ best = gpus[i]
         /\ \A j \in eligible : ~ScoresAbove(gpus[j], best)

LEMMA ScoresAreOrdered ==
  ASSUME NEW a \in PhysicalDevices, NEW b \in PhysicalDevices, NEW c \in PhysicalDevices
  PROVE  /\ a # Nothing /\ ~ScoresAbove(a, a)
         /\ ScoresAbove(a, b) /\ ~ScoresAbove(c, b) => ~ScoresAbove(c, a)
<1>1. \A gpu \in PhysicalDevices : /\ gpu # Nothing
                                   /\ TypeRank[gpu.type] \in Nat /\ gpu.capability \in Nat
  BY DeviceChoicesAssumption DEF TypeRank, PhysicalDevices
<1>. HIDE DEF TypeRank
<1>. QED
  BY <1>1 DEF ScoresAbove

LEMMA TopsKept ==
  ASSUME NEW gpus \in Seq(PhysicalDevices), NEW eligible \in SUBSET DOMAIN gpus,
         NEW n \in DOMAIN gpus, NEW best, Tops(best, gpus, eligible)
  PROVE  Tops(IF ScoresAbove(gpus[n], best) THEN gpus[n] ELSE best, gpus, eligible \cup {n})
<1>1. \A i \in DOMAIN gpus : gpus[i] \in PhysicalDevices
  OBVIOUS
<1>2. CASE eligible = {}
  <2>1. best = Nothing /\ ScoresAbove(gpus[n], best)
    BY <1>2 DEF Tops, ScoresAbove
  <2>2. ~ScoresAbove(gpus[n], gpus[n])
    BY <1>1, ScoresAreOrdered
  <2>. QED
    BY <1>2, <2>1, <2>2 DEF Tops
<1>3. CASE eligible # {}
  <2>1. PICK i \in eligible : best = gpus[i] /\ \A j \in eligible : ~ScoresAbove(gpus[j], best)
    BY <1>3 DEF Tops
  <2>2. CASE ScoresAbove(gpus[n], best)
    <3>1. \A j \in eligible \cup {n} : ~ScoresAbove(gpus[j], gpus[n])
      BY <1>1, <2>1, <2>2, ScoresAreOrdered
    <3>. QED
      BY <2>2, <3>1 DEF Tops
  <2>3. CASE ~ScoresAbove(gpus[n], best)
    BY <2>1, <2>3 DEF Tops
  <2>. QED
    BY <2>2, <2>3
<1>. QED
  BY <1>2, <1>3

WorkableAmong(gpus, n) == {i \in 1 .. n : Workable(gpus[i])}
MatchingAmong(gpus, selection, n) == {i \in WorkableAmong(gpus, n) : MatchesSelectionMode(gpus[i], selection)}

\* get_physical_device(): one pass finds the best device and the best one of the
\* wanted type.
LEMMA BestDevicesAreTops ==
  ASSUME NEW gpus \in Seq(PhysicalDevices), NEW selection
  PROVE  /\ Tops(BestDevices(gpus, selection).fallback, gpus, WorkableAmong(gpus, Len(gpus)))
         /\ Tops(BestDevices(gpus, selection).matching, gpus, MatchingAmong(gpus, selection, Len(gpus)))
<1>. DEFINE N == Len(gpus)
            Found == PhysicalDevices \cup {Nothing}
            S == [fallback : Found, matching : Found]
            None == [fallback |-> Nothing, matching |-> Nothing]
            Consider(best, gpu) ==
              IF ~Suitable(gpu) THEN best
              ELSE [fallback |-> IF ScoresAbove(gpu, best.fallback) THEN gpu ELSE best.fallback,
                    matching |-> IF MatchesSelectionMode(gpu, selection) /\ ScoresAbove(gpu, best.matching)
                                   THEN gpu ELSE best.matching]
            Pass == [n \in 1 .. N |-> [best \in S |-> Consider(best, gpus[n])]]
            after == CHOOSE g : g = [n \in 0 .. N |->
                       IF n = 0 THEN None ELSE Consider(g[n - 1], gpus[n])]
<1>1. N \in Nat /\ None \in S /\ \A n \in 1 .. N : gpus[n] \in PhysicalDevices
  OBVIOUS
<1>2. \A best \in S, gpu \in PhysicalDevices : Consider(best, gpu) \in S
  OBVIOUS
<1>. HIDE DEF S, N, None, Consider
<1>3. Pass \in [1 .. N -> [S -> S]]
  BY <1>1, <1>2
<1>4. \A n \in 1 .. N : \A best \in S : Pass[n][best] = Consider(best, gpus[n])
  OBVIOUS
<1>. HIDE DEF Pass
<1>5. PICK g \in [0 .. N -> S] : g[0] = None /\ \A n \in 1 .. N : g[n] = Pass[n][g[n - 1]]
  <2>1. N \in Nat
    BY <1>1
  <2>2. None \in S
    BY <1>1
  <2>. QED
    BY <1>3, <2>1, <2>2, PassExists
<1>6. \A n \in 1 .. N : n - 1 \in 0 .. N
  BY <1>1
<1>7. \A n \in 0 .. N : g[n] = IF n = 0 THEN None ELSE Consider(g[n - 1], gpus[n])
  <2>1. \A n \in 1 .. N : g[n] = Consider(g[n - 1], gpus[n])
    BY <1>4, <1>5, <1>6
  <2>. QED
    BY <1>1, <1>5, <2>1
<1>8. g = [n \in 0 .. N |-> IF n = 0 THEN None ELSE Consider(g[n - 1], gpus[n])]
  BY <1>7
<1>9. after = [n \in 0 .. N |-> IF n = 0 THEN None ELSE Consider(after[n - 1], gpus[n])]
  BY <1>8
<1>10. BestDevices(gpus, selection) = after[N]
  BY DEF BestDevices, N, None, Consider
<1>. HIDE DEF after
<1>11. after[0] = None /\ \A n \in 1 .. N : after[n] = Consider(after[n - 1], gpus[n])
  <2>1. 0 \in 0 .. N /\ \A n \in 1 .. N : n \in 0 .. N /\ n # 0
    BY <1>1
  <2>. QED
    BY <1>9, <2>1
<1>. DEFINE Good(n) == /\ Tops(after[n].fallback, gpus, WorkableAmong(gpus, n))
                       /\ Tops(after[n].matching, gpus, MatchingAmong(gpus, selection, n))
            T == {n \in Nat : n <= N => Good(n)}
<1>12. 0 \in T
  <2>1. WorkableAmong(gpus, 0) = {} /\ MatchingAmong(gpus, selection, 0) = {}
    BY DEF WorkableAmong, MatchingAmong
  <2>. QED
    BY <1>11, <2>1 DEF Tops, None
<1>13. ASSUME NEW n \in Nat, n \in T PROVE n + 1 \in T
  <2>. SUFFICES ASSUME n + 1 <= N PROVE Good(n + 1)
    OBVIOUS
  <2>1. PICK m, gpu, best : m = n + 1 /\ gpu = gpus[m] /\ best = after[n]
    OBVIOUS
  <2>2. /\ m \in 1 .. N /\ DOMAIN gpus = 1 .. N /\ gpu \in PhysicalDevices
        /\ after[m] = Consider(best, gpu)
    <3>1. n + 1 \in 1 .. N /\ (n + 1) - 1 = n
      BY <1>1
    <3>2. DOMAIN gpus = 1 .. N
      BY DEF N
    <3>. QED
      BY <1>1, <1>11, <2>1, <3>1, <3>2
  <2>3. /\ Tops(best.fallback, gpus, WorkableAmong(gpus, n))
        /\ Tops(best.matching, gpus, MatchingAmong(gpus, selection, n))
    <3>1. n <= N
      BY <1>1
    <3>2. Good(n)
      BY <1>13, <3>1
    <3>. QED
      BY <2>1, <3>2
  <2>4. /\ WorkableAmong(gpus, n) \in SUBSET DOMAIN gpus
        /\ MatchingAmong(gpus, selection, n) \in SUBSET DOMAIN gpus
    <3>1. 1 .. n \subseteq DOMAIN gpus
      BY <1>1, <2>2
    <3>. QED
      BY <3>1 DEF WorkableAmong, MatchingAmong
  <2>5. Suitable(gpu) <=> Workable(gpu)
    BY <2>2, SuitableIsWorkable
  <2>6. 1 .. m = 1 .. n \cup {m}
    BY <2>1
  <2>7. /\ WorkableAmong(gpus, m) = WorkableAmong(gpus, n) \cup (IF Workable(gpu) THEN {m} ELSE {})
        /\ MatchingAmong(gpus, selection, m)
             = MatchingAmong(gpus, selection, n)
                 \cup (IF Workable(gpu) /\ MatchesSelectionMode(gpu, selection) THEN {m} ELSE {})
    BY <2>1, <2>6 DEF WorkableAmong, MatchingAmong
  <2>8. CASE ~Workable(gpu)
    <3>1. after[m] = best
      BY <2>2, <2>5, <2>8 DEF Consider
    <3>2. /\ WorkableAmong(gpus, m) = WorkableAmong(gpus, n)
          /\ MatchingAmong(gpus, selection, m) = MatchingAmong(gpus, selection, n)
      BY <2>7, <2>8
    <3>. QED
      BY <2>1, <2>3, <3>1, <3>2
  <2>9. CASE Workable(gpu)
    <3>1. /\ after[m].fallback = IF ScoresAbove(gpu, best.fallback) THEN gpu ELSE best.fallback
          /\ after[m].matching = IF MatchesSelectionMode(gpu, selection) /\ ScoresAbove(gpu, best.matching)
                                   THEN gpu ELSE best.matching
      BY <2>2, <2>5, <2>9 DEF Consider
    <3>2. Tops(after[m].fallback, gpus, WorkableAmong(gpus, n) \cup {m})
      BY <2>1, <2>2, <2>3, <2>4, <3>1, TopsKept
    <3>3. Tops(IF ScoresAbove(gpu, best.matching) THEN gpu ELSE best.matching,
               gpus, MatchingAmong(gpus, selection, n) \cup {m})
      BY <2>1, <2>2, <2>3, <2>4, TopsKept
    <3>4. Tops(after[m].matching, gpus, MatchingAmong(gpus, selection, m))
      <4>1. CASE MatchesSelectionMode(gpu, selection)
        BY <2>7, <2>9, <3>1, <3>3, <4>1
      <4>2. CASE ~MatchesSelectionMode(gpu, selection)
        <5>1. MatchingAmong(gpus, selection, m) = MatchingAmong(gpus, selection, n)
          BY <2>7, <4>2
        <5>. QED
          BY <2>3, <3>1, <4>2, <5>1
      <4>. QED
        BY <4>1, <4>2
    <3>. QED
      BY <2>1, <2>7, <2>9, <3>2, <3>4
  <2>. QED
    BY <2>8, <2>9
<1>14. N \in T
  <2>. HIDE DEF T
  <2>. QED
    BY <1>1, <1>12, <1>13, InductiveSets
<1>. QED
  BY <1>1, <1>10, <1>14 DEF N

\* The device that is taken: refused only when none works, and otherwise the best
\* of the wanted type, or of all when none of that type works.
LEMMA PickIsBest ==
  ASSUME NEW gpus \in Seq(PhysicalDevices), NEW selection
  PROVE  LET workable == {i \in DOMAIN gpus : Workable(gpus[i])}
             matching == {i \in workable : MatchesSelectionMode(gpus[i], selection)}
             eligible == IF matching = {} THEN workable ELSE matching
         IN  Tops(PickPhysicalDevice(gpus, selection), gpus, eligible)
<1>1. DOMAIN gpus = 1 .. Len(gpus) /\ \A i \in DOMAIN gpus : gpus[i] \in PhysicalDevices
  OBVIOUS
<1>2. PICK best : best = BestDevices(gpus, selection)
  OBVIOUS
<1>3. PICK workable, matching :
        /\ workable = WorkableAmong(gpus, Len(gpus))
        /\ matching = MatchingAmong(gpus, selection, Len(gpus))
  OBVIOUS
<1>4. Tops(best.fallback, gpus, workable) /\ Tops(best.matching, gpus, matching)
  BY <1>2, <1>3, BestDevicesAreTops
<1>5. best.matching = Nothing <=> matching = {}
  <2>1. \A i \in matching : gpus[i] # Nothing
    BY <1>1, <1>3, ScoresAreOrdered DEF MatchingAmong, WorkableAmong
  <2>. QED
    BY <1>4, <2>1 DEF Tops
<1>6. PickPhysicalDevice(gpus, selection) = IF matching = {} THEN best.fallback ELSE best.matching
  BY <1>2, <1>5 DEF PickPhysicalDevice
<1>7. /\ workable = {i \in DOMAIN gpus : Workable(gpus[i])}
      /\ matching = {i \in workable : MatchesSelectionMode(gpus[i], selection)}
  BY <1>1, <1>3 DEF WorkableAmong, MatchingAmong
<1>8. Tops(PickPhysicalDevice(gpus, selection), gpus, IF matching = {} THEN workable ELSE matching)
  BY <1>4, <1>6
<1>. QED
  BY <1>7, <1>8

-----------------------------------------------------------------------------
Structs == DOMAIN DeclaredChain

\* Following the pointers of a chain whose structures are laid out in the order
\* of `place`, the last of them at 0: every structure's tail exists.
Follows(from, chain) ==
  from = [s \in DOMAIN chain |-> {s} \cup (IF chain[s] = "end" THEN {} ELSE from[chain[s]])]

\* A chain of which we know what is behind each structure.
LEMMA ChainIs ==
  ASSUME NEW chain, NEW behind, DOMAIN behind = DOMAIN chain, Follows(behind, chain),
         NEW place \in [DOMAIN chain -> Nat], "features2" \in DOMAIN chain,
         \A s \in DOMAIN chain :
            chain[s] = "end" \/ (chain[s] \in DOMAIN chain /\ place[chain[s]] < place[s])
  PROVE  OnChain(chain) = behind["features2"]
<1>. DEFINE from == CHOOSE g : g = [s \in DOMAIN chain |->
                      {s} \cup (IF chain[s] = "end" THEN {} ELSE g[chain[s]])]
            T == {n \in Nat : \A s \in DOMAIN chain : place[s] <= n => from[s] = behind[s]}
<1>1. from = [s \in DOMAIN chain |-> {s} \cup (IF chain[s] = "end" THEN {} ELSE from[chain[s]])]
  BY DEF Follows
<1>2. OnChain(chain) = from["features2"]
  BY DEF OnChain
<1>. HIDE DEF from
<1>3. \A s \in DOMAIN chain :
        /\ from[s] = {s} \cup (IF chain[s] = "end" THEN {} ELSE from[chain[s]])
        /\ behind[s] = {s} \cup (IF chain[s] = "end" THEN {} ELSE behind[chain[s]])
  <2>1. \A s \in DOMAIN chain :
          from[s] = {s} \cup (IF chain[s] = "end" THEN {} ELSE from[chain[s]])
    BY <1>1
  <2>2. \A s \in DOMAIN chain :
          behind[s] = {s} \cup (IF chain[s] = "end" THEN {} ELSE behind[chain[s]])
    BY DEF Follows
  <2>. QED
    BY <2>1, <2>2
<1>4. 0 \in T
  <2>1. \A s \in DOMAIN chain : place[s] <= 0 => chain[s] = "end"
    OBVIOUS
  <2>. QED
    BY <1>3, <2>1
<1>5. ASSUME NEW n \in Nat, n \in T PROVE n + 1 \in T
  <2>1. ASSUME NEW s \in DOMAIN chain, place[s] <= n + 1 PROVE from[s] = behind[s]
    <3>1. CASE chain[s] = "end"
      BY <1>3, <3>1
    <3>2. CASE chain[s] # "end"
      <4>1. chain[s] \in DOMAIN chain /\ place[chain[s]] <= n
        BY <2>1, <3>2
      <4>2. from[chain[s]] = behind[chain[s]]
        BY <1>5, <4>1
      <4>. QED
        BY <1>3, <4>2
    <3>. QED
      BY <3>1, <3>2
  <2>. QED
    BY <2>1
<1>6. \A n \in Nat : n \in T
  <2>. HIDE DEF T
  <2>. QED
    BY <1>4, <1>5, InductiveSets
<1>7. place["features2"] \in T
  BY <1>6
<1>. QED
  BY <1>2, <1>7

\* The chain that create_logical_device() hands over.
Chain(rrt1, quads) ==
  LET rayTraced == IF rrt1 THEN ChainRayTracing(DeclaredChain) ELSE DeclaredChain
  IN  IF quads THEN ChainQuads(rayTraced) ELSE rayTraced

Chained(rrt1, quads) ==
  {"features2", "features11", "features12", "features13"}
    \cup (IF rrt1 THEN StageFeatures ELSE {})
    \cup (IF quads THEN {"computeDerivativeGroupQuads"} ELSE {})

LEMMA ChainParts ==
  ASSUME NEW rrt1 \in BOOLEAN, NEW quads \in BOOLEAN
  PROVE  /\ DOMAIN Chain(rrt1, quads) = Structs
         /\ Chain(rrt1, quads)["features2"] =
              IF quads THEN "computeDerivativeGroupQuads" ELSE "features11"
         /\ Chain(rrt1, quads)["computeDerivativeGroupQuads"] = IF quads THEN "features11" ELSE "end"
         /\ Chain(rrt1, quads)["features11"] = "features12"
         /\ Chain(rrt1, quads)["features12"] = IF rrt1 THEN "rayQuery" ELSE "features13"
         /\ Chain(rrt1, quads)["rayQuery"] = "features13"
         /\ Chain(rrt1, quads)["features13"] = IF rrt1 THEN "accelerationStructure" ELSE "end"
         /\ Chain(rrt1, quads)["accelerationStructure"] = "rayTracingPipeline"
         /\ Chain(rrt1, quads)["rayTracingPipeline"] = "end"
<1>1. CASE rrt1 /\ quads
  BY <1>1 DEF Chain, ChainRayTracing, ChainQuads, DeclaredChain, Structs
<1>2. CASE rrt1 /\ ~quads
  BY <1>2 DEF Chain, ChainRayTracing, DeclaredChain, Structs
<1>3. CASE ~rrt1 /\ quads
  BY <1>3 DEF Chain, ChainQuads, DeclaredChain, Structs
<1>4. CASE ~rrt1 /\ ~quads
  BY <1>4 DEF Chain, DeclaredChain, Structs
<1>. QED
  BY <1>1, <1>2, <1>3, <1>4

LEMMA StructsAre ==
  Structs = {"features2", "features11", "features12", "features13", "computeDerivativeGroupQuads"}
              \cup StageFeatures
BY DEF Structs, DeclaredChain, StageFeatures

\* Every structure that was filled in is on it, and no other.
LEMMA ChainHolds ==
  ASSUME NEW rrt1 \in BOOLEAN, NEW quads \in BOOLEAN
  PROVE  OnChain(Chain(rrt1, quads)) = Chained(rrt1, quads)
<1>. DEFINE place ==
              [features2 |-> 7, computeDerivativeGroupQuads |-> 6, features11 |-> 5,
               features12 |-> 4, rayQuery |-> 3, features13 |-> 2,
               accelerationStructure |-> 1, rayTracingPipeline |-> 0]
            stages == {"accelerationStructure", "rayTracingPipeline"}
            after13 == {"features13"} \cup (IF rrt1 THEN stages ELSE {})
            after12 == {"features12"} \cup (IF rrt1 THEN {"rayQuery"} ELSE {}) \cup after13
            after11 == {"features11"} \cup after12
            behind ==
              [features2 |-> {"features2"} \cup after11
                               \cup (IF quads THEN {"computeDerivativeGroupQuads"} ELSE {}),
               computeDerivativeGroupQuads |->
                 {"computeDerivativeGroupQuads"} \cup (IF quads THEN after11 ELSE {}),
               features11 |-> after11, features12 |-> after12,
               rayQuery |-> {"rayQuery"} \cup after13, features13 |-> after13,
               accelerationStructure |-> stages, rayTracingPipeline |-> {"rayTracingPipeline"}]
            chain == Chain(rrt1, quads)
<1>1. DOMAIN chain = Structs /\ "features2" \in Structs
  BY ChainParts, StructsAre
<1>2. DOMAIN behind = Structs /\ DOMAIN place = Structs
  BY StructsAre DEF StageFeatures
<1>3. place \in [Structs -> Nat]
  BY <1>2, StructsAre DEF StageFeatures
<1>4. \A s \in Structs : chain[s] = "end" \/ (chain[s] \in Structs /\ place[chain[s]] < place[s])
  BY ChainParts, StructsAre DEF StageFeatures
<1>5. behind["features2"] = Chained(rrt1, quads)
  BY DEF Chained, StageFeatures
<1>6. \A s \in Structs : behind[s] = {s} \cup (IF chain[s] = "end" THEN {} ELSE behind[chain[s]])
  <2>1. /\ behind["features2"] = {"features2"} \cup behind[chain["features2"]]
        /\ behind["computeDerivativeGroupQuads"]
             = {"computeDerivativeGroupQuads"}
                 \cup (IF quads THEN behind[chain["computeDerivativeGroupQuads"]] ELSE {})
    BY ChainParts
  <2>2. /\ behind["features11"] = {"features11"} \cup behind[chain["features11"]]
        /\ behind["features12"] = {"features12"} \cup behind[chain["features12"]]
        /\ behind["rayQuery"] = {"rayQuery"} \cup behind[chain["rayQuery"]]
    BY ChainParts
  <2>3. /\ behind["features13"]
             = {"features13"} \cup (IF rrt1 THEN behind[chain["features13"]] ELSE {})
        /\ behind["accelerationStructure"]
             = {"accelerationStructure"} \cup behind[chain["accelerationStructure"]]
        /\ behind["rayTracingPipeline"] = {"rayTracingPipeline"} \cup {}
    BY ChainParts
  <2>. HIDE DEF behind, chain
  <2>. QED
    BY <2>1, <2>2, <2>3, ChainParts, StructsAre DEF StageFeatures, chain
<1>7. Follows(behind, chain)
  <2>1. behind = [s \in Structs |-> {s} \cup (IF chain[s] = "end" THEN {} ELSE behind[chain[s]])]
    <3>. HIDE DEF chain
    <3>1. behind = [s \in Structs |-> behind[s]]
      BY <1>2
    <3>. HIDE DEF behind
    <3>. QED
      BY <1>6, <3>1
  <2>. QED
    BY <1>1, <2>1 DEF Follows
<1>. HIDE DEF behind, place, chain
<1>. QED
  BY <1>1, <1>2, <1>3, <1>4, <1>5, <1>7, ChainIs DEF chain

\* create_logical_device(): nothing that the device lacks, nothing that is asked
\* for in vain, and the flags only with their features.
LEMMA LogicalDeviceSuffices ==
  ASSUME NEW gpu
  PROVE  LET made == LogicalDevice(gpu)
         IN  /\ made.enabled \subseteq gpu.features
             /\ made.extensions \subseteq gpu.extensions
             /\ \A s \in made.structs \cap DOMAIN StructExtension :
                  StructExtension[s] \in made.extensions
             /\ made.lost = {}
             /\ made.supportsHardwareRRT => RayTracingFeatures \subseteq made.enabled
             /\ made.bufferDeviceAddress => "bufferDeviceAddress" \in made.enabled
<1>. DEFINE made == LogicalDevice(gpu)
            rrt1 == SupportsHardwareRRT(gpu)
            quads == EnablesQuads(gpu)
            asked == (CopiedFeatures \cap gpu.features)
                       \cup (IF rrt1 THEN RayTracingFeatures ELSE {})
                       \cup (IF quads THEN {"computeDerivativeGroupQuads"} ELSE {})
            chained == Chained(rrt1, quads)
<1>1. rrt1 \in BOOLEAN /\ quads \in BOOLEAN
  BY DEF SupportsHardwareRRT, EnablesQuads
<1>2. OnChain(Chain(rrt1, quads)) = chained
  BY <1>1, ChainHolds
<1>3. /\ made.structs = OnChain(Chain(rrt1, quads))
      /\ made.enabled = {f \in asked : FeatureStruct(f) \in OnChain(Chain(rrt1, quads))}
      /\ made.lost = {f \in asked : FeatureStruct(f) \notin OnChain(Chain(rrt1, quads))}
      /\ made.extensions = (IF rrt1 THEN RayTracingExtensions ELSE {})
                             \cup (IF quads THEN {"compute_shader_derivatives"} ELSE {})
      /\ made.supportsHardwareRRT = rrt1
      /\ made.bufferDeviceAddress = ("bufferDeviceAddress" \in gpu.features)
  BY DEF LogicalDevice, Chain
<1>. HIDE DEF made
<1>4. rrt1 => RayTracingExtensions \subseteq gpu.extensions /\ RayTracingFeatures \subseteq gpu.features
  BY DEF SupportsHardwareRRT
<1>5. quads => /\ "compute_shader_derivatives" \in gpu.extensions
               /\ "computeDerivativeGroupQuads" \in gpu.features
  BY DEF EnablesQuads
<1>. HIDE DEF rrt1, quads
<1>6. asked \subseteq gpu.features
  BY <1>4, <1>5
<1>7. \A f \in asked : FeatureStruct(f) \in chained
  <2>1. \A f \in CopiedFeatures : FeatureStruct(f) \in {"features11", "features12"}
    BY DEF CopiedFeatures, FeatureStruct, IndexingFeatures
  <2>2. \A f \in RayTracingFeatures : FeatureStruct(f) \in {"features12", "features13"} \cup StageFeatures
    BY DEF RayTracingFeatures, FeatureStruct, IndexingFeatures, StageFeatures
  <2>3. FeatureStruct("computeDerivativeGroupQuads") = "computeDerivativeGroupQuads"
    BY DEF FeatureStruct, IndexingFeatures
  <2>. QED
    BY <2>1, <2>2, <2>3 DEF Chained
<1>8. \A s \in chained \cap DOMAIN StructExtension : StructExtension[s] \in made.extensions
  BY <1>3 DEF Chained, StructExtension, StageFeatures, RayTracingExtensions
<1>9. made.enabled = asked /\ made.lost = {}
  BY <1>2, <1>3, <1>7
<1>10. made.extensions \subseteq gpu.extensions
  BY <1>3, <1>4, <1>5
<1>11. "bufferDeviceAddress" \in gpu.features => "bufferDeviceAddress" \in asked
  BY DEF CopiedFeatures
<1>12. rrt1 => RayTracingFeatures \subseteq asked
  OBVIOUS
<1>. HIDE DEF asked
<1>. QED
  BY <1>2, <1>3, <1>6, <1>8, <1>9, <1>10, <1>11, <1>12 DEF made

\* What was picked and made of it is what the properties ask for.
LEMMA PickedIsBest ==
  ASSUME DeviceInv
  PROVE  BestDeviceIsTaken
<1>. DEFINE workable == {i \in DOMAIN machine.gpus : Workable(machine.gpus[i])}
            matching == {i \in workable : MatchesSelectionMode(machine.gpus[i], machine.mode)}
            eligible == IF matching = {} THEN workable ELSE matching
            picked == PickPhysicalDevice(machine.gpus, machine.mode)
<1>1. ASSUME machine \in Machines
      PROVE  /\ Tops(picked, machine.gpus, eligible)
             /\ \A i \in workable : /\ machine.gpus[i] \in PhysicalDevices
                                    /\ machine.gpus[i] # Nothing
  <2>1. machine.gpus \in Seq(PhysicalDevices)
    BY <1>1, DeviceChoicesAssumption
  <2>2. Tops(picked, machine.gpus, eligible)
    BY <2>1, PickIsBest
  <2>3. \A i \in DOMAIN machine.gpus : machine.gpus[i] \in PhysicalDevices
    BY <2>1
  <2>. QED
    BY <2>2, <2>3, DeviceChoicesAssumption
<1>2. eligible \subseteq workable /\ (eligible = {} => workable = {})
  OBVIOUS
<1>. HIDE DEF picked
<1>3. pc = "refused" => workable = {}
  <2>1. SUFFICES ASSUME pc = "refused", workable # {} PROVE FALSE
    OBVIOUS
  <2>2. machine \in Machines /\ picked = Nothing
    BY <2>1 DEF DeviceInv, picked
  <2>. HIDE DEF workable, eligible
  <2>3. PICK i \in eligible : picked = machine.gpus[i]
    BY <1>1, <1>2, <2>1, <2>2 DEF Tops
  <2>. QED
    BY <1>1, <1>2, <2>2, <2>3
<1>4. ASSUME physical_device # Nothing
      PROVE  \E i \in eligible :
               /\ physical_device = machine.gpus[i]
               /\ \A j \in eligible : ~ScoresAbove(machine.gpus[j], physical_device)
  <2>1. machine \in Machines /\ physical_device = picked
    BY <1>4 DEF DeviceInv, picked
  <2>. HIDE DEF eligible
  <2>. QED
    BY <1>1, <1>4, <2>1 DEF Tops
<1>5. ASSUME device # Nothing
      PROVE  \A use \in Uses : use \in physical_device.families[device.queues[use]]
  <2>1. physical_device # Nothing /\ machine \in Machines
    BY <1>5 DEF DeviceInv
  <2>2. PICK i \in workable : physical_device = machine.gpus[i]
    <3>. HIDE DEF workable, eligible
    <3>. QED
      BY <1>2, <1>4, <2>1
  <2>3. physical_device \in PhysicalDevices /\ Workable(physical_device)
    BY <1>1, <2>1, <2>2
  <2>4. device.queues = QueueFamilies(physical_device)
    BY <1>5 DEF DeviceInv, LogicalDevice
  <2>5. IsValid(QueueFamilies(physical_device))
    BY <2>3, SuitableIsWorkable DEF Suitable
  <2>6. physical_device.families \in Seq(SUBSET Uses)
    BY <2>3 DEF PhysicalDevices
  <2>. QED
    BY <2>4, <2>5, <2>6, QueueFamiliesServe DEF IsValid
<1>. QED
  BY <1>3, <1>4, <1>5 DEF BestDeviceIsTaken, BestDeviceIsChosen

LEMMA MadeIsSufficient ==
  ASSUME DeviceInv
  PROVE  EnabledIsSupportedAndSufficient
<1>1. device # Nothing => device = LogicalDevice(physical_device)
  BY DEF DeviceInv
<1>. QED
  BY <1>1, LogicalDeviceSuffices DEF EnabledIsSupportedAndSufficient

LEMMA MachinesMetAreMachines == MachinesMet \subseteq Machines
BY AppRunAssumption DEF MachinesMet

LEMMA DeviceInvKept ==
  ASSUME DeviceInv, UNCHANGED deviceVars, pc' \notin Starting \cup {"refused"} \/ pc' = pc
  PROVE  DeviceInv'
BY DEF DeviceInv, deviceVars, Starting

LEMMA DeviceStep ==
  ASSUME DeviceInv, resume \in {"top", "acquire"}, AppRunNext
  PROVE  DeviceInv'
<1>. USE DEF machineVars, Starting, Ended
<1>1. CASE Program
  <2>1. CASE OpenWindow
    BY <2>1 DEF OpenWindow, DeviceInv, deviceVars
  <2>2. CASE ChooseDevice
    BY <2>2 DEF ChooseDevice, GetPhysicalDevice, DeviceInv
  <2>3. CASE CreateDevice
    BY <2>3 DEF CreateDevice, CreateLogicalDevice, Goto, DeviceInv
  <2>4. CASE ReadCache
    BY <2>4 DEF ReadCache, Goto, DeviceInv, deviceVars
  <2>5. CASE ConstructRenderer
    <3>1. \/ pc' = "aborted" /\ UNCHANGED deviceVars
          \/ pc' = "top" /\ physical_device' = Nothing /\ device' = Nothing
      BY <2>5 DEF ConstructRenderer
    <3>. QED
      BY <3>1, DeviceInvKept DEF DeviceInv
  <2>6. CASE UpdateStateDueToUserInput
    <3>1. pc' \notin Starting \cup {"refused"} /\ UNCHANGED deviceVars
      BY <2>6, HandlersPlaces DEF HandlersOnly, HandlersAt, Handlers, Works, Idled
    <3>. QED
      BY <3>1, DeviceInvKept
  <2>7. CASE RebuildSwapChain
    <3>1. pc' \in {"aborted", resume} /\ UNCHANGED deviceVars
      BY <2>7 DEF RebuildSwapChain
    <3>. QED
      BY <3>1, DeviceInvKept
  <2>8. CASE \/ CheckShouldClose \/ PollEvents \/ RenderGui \/ CheckFramebufferSize
             \/ AcquireImage \/ RecordAndSubmit \/ PresentImage \/ MeasureFramebuffer
             \/ Remeasure \/ WaitEvents \/ WaitForFrames \/ LeaveLoop \/ TearDown
             \/ OpenCacheFile \/ Exit
    <3>1. /\ UNCHANGED deviceVars
          /\ pc' \notin Starting \cup {"refused"}
      BY <2>8
      DEF CheckShouldClose, PollEvents, RenderGui, CheckFramebufferSize, AcquireImage,
          RecordAndSubmit, PresentImage, MeasureFramebuffer, Remeasure, WaitEvents,
          WaitForFrames, LeaveLoop, TearDown, OpenCacheFile, Exit, Goto, Recreate
    <3>. QED
      BY <3>1, DeviceInvKept
  <2>. QED
    BY <1>1, <2>1, <2>2, <2>3, <2>4, <2>5, <2>6, <2>7, <2>8 DEF Program
<1>2. CASE AbortFrame
  BY <1>2, DeviceInvKept DEF AbortFrame
<1>3. CASE Crash
  BY <1>3, DeviceInvKept DEF Crash
<1>4. CASE UpdateDriver
  BY <1>4, DeviceInvKept DEF UpdateDriver
<1>5. CASE Relaunch
  BY <1>5, MachinesMetAreMachines DEF Relaunch, FreshProcess, DeviceInv
<1>6. CASE Stopped
  BY <1>6, DeviceInvKept DEF Stopped, appVars
<1>7. CASE ResizeWindow
  BY <1>7, DeviceInvKept DEF ResizeWindow, UserOnly
<1>8. CASE RestoreWindow
  BY <1>8, DeviceInvKept DEF RestoreWindow, UserOnly
<1>9. CASE RequestClose
  BY <1>9, DeviceInvKept DEF RequestClose, UserOnly
<1>10. CASE DispatchInput
  BY <1>10, DeviceInvKept DEF DispatchInput
<1>. QED
  BY <1>1, <1>2, <1>3, <1>4, <1>5, <1>6, <1>7, <1>8, <1>9, <1>10 DEF AppRunNext

-----------------------------------------------------------------------------
(***************************************************************************)
(* Types.                                                                  *)
(***************************************************************************)

Windows ==
  [size : Sizes \cup {0}, sizeEvent : BOOLEAN, closeEvent : BOOLEAN,
   resized : BOOLEAN, shouldClose : BOOLEAN]

Steps ==
  {"window", "choose", "logical", "cache", "construct", "top", "poll", "gui",
   "handlers", "hotReload", "modeChange", "shadow", "transform", "reload", "draw",
   "measure", "remeasure", "wait", "rebuild", "acquire", "record", "present",
   "teardown"}

\* The types but for those that are kept above.
OwnTypesOK ==
  /\ theme \in Themes /\ pc \in Ended \cup Idled \cup Steps /\ resume \in {"top", "acquire"}
  /\ window \in Windows
  /\ measured \in Sizes \cup {0} /\ extent \in Sizes \cup {0}
  /\ busy \in BOOLEAN /\ lost \in BOOLEAN
  /\ resizes \in 0 .. MaxResizes /\ runs \in 1 .. MaxRuns
  /\ calls \in Seq(SUBSET Objects)

LEMMA TypesAre ==
  AppRunTypeOK <=> /\ OwnTypesOK /\ BuiltOK /\ alive \subseteq Objects
                   /\ PipelineCacheTypeOK /\ WindowInputTypeOK
BY Zenon DEF AppRunTypeOK, OwnTypesOK, BuiltOK, Windows, Steps

LEMMA SizesMetAreSizes == SizesMet \subseteq Sizes
BY AppRunAssumption DEF SizesMet

LEMMA NewWindowIsWindow == \A size \in Sizes : NewWindow(size) \in Windows
BY DEF NewWindow, Windows

LEMMA DispatchedIsWindow == \A w \in Windows : Dispatched(w) \in Windows
<1>. TAKE w \in Windows
<1>1. /\ (w.resized \/ w.sizeEvent) \in BOOLEAN
      /\ (w.shouldClose \/ w.closeEvent) \in BOOLEAN
  OBVIOUS
<1>2. PICK r \in BOOLEAN, c \in BOOLEAN :
        r = (w.resized \/ w.sizeEvent) /\ c = (w.shouldClose \/ w.closeEvent)
  BY <1>1
<1>3. Dispatched(w) = [w EXCEPT !.resized = r, !.sizeEvent = FALSE,
                                !.shouldClose = c, !.closeEvent = FALSE]
  BY <1>2 DEF Dispatched
<1>. QED
  BY <1>3 DEF Windows

LEMMA TypeStep ==
  ASSUME OwnTypesOK, rrt \in BOOLEAN, AppRunNext
  PROVE  OwnTypesOK'
<1>. USE DEF OwnTypesOK, Ended, Idled, Steps, frameVars, machineVars, teardownVars, windowVars
<1>1. CASE Program
  <2>1. CASE OpenWindow
    BY <2>1 DEF OpenWindow
  <2>2. CASE ChooseDevice
    BY <2>2 DEF ChooseDevice
  <2>3. CASE CreateDevice
    BY <2>3 DEF CreateDevice, Goto
  <2>4. CASE ReadCache
    BY <2>4 DEF ReadCache, Goto
  <2>5. CASE ConstructRenderer
    <3>1. /\ UNCHANGED << theme, resume, window, measured, busy, lost, resizes, runs, calls >>
          /\ pc' \in {"aborted", "top"} /\ extent' \in {extent, window.size}
      BY <2>5 DEF ConstructRenderer
    <3>2. window.size \in Sizes \cup {0}
      BY DEF Windows
    <3>. QED
      BY <3>1, <3>2
  <2>6. CASE CheckShouldClose
    BY <2>6 DEF CheckShouldClose
  <2>7. CASE PollEvents
    BY <2>7, DispatchedIsWindow DEF PollEvents, Goto
  <2>8. CASE RenderGui
    BY <2>8 DEF RenderGui, Goto
  <2>9. CASE UpdateStateDueToUserInput
    <3>1. UNCHANGED << theme, resume, window, measured, extent, lost, resizes, runs, calls >>
      BY <2>9, HandlersMove DEF HandlersOnly
    <3>2. pc' \in Idled \cup Steps
      BY <2>9, HandlersPlaces DEF HandlersAt, Handlers, Works
    <3>3. busy' \in {busy, FALSE}
      BY <2>9, HandlersMove DEF HandlersPass, HandlersWait, HandlersWork
    <3>. QED
      BY <3>1, <3>2, <3>3
  <2>10. CASE CheckFramebufferSize
    <3>1. window' \in Windows
      BY <2>10 DEF CheckFramebufferSize, Windows
    <3>. QED
      BY <2>10, <3>1 DEF CheckFramebufferSize, Recreate
  <2>11. CASE AcquireImage
    BY <2>11 DEF AcquireImage, Recreate
  <2>12. CASE RecordAndSubmit
    BY <2>12 DEF RecordAndSubmit, Goto
  <2>13. CASE PresentImage
    BY <2>13 DEF PresentImage, Recreate
  <2>14. CASE MeasureFramebuffer
    BY <2>14 DEF MeasureFramebuffer, Windows
  <2>15. CASE Remeasure
    BY <2>15 DEF Remeasure, Goto, SizeSeen, Windows
  <2>16. CASE WaitEvents
    BY <2>16, DispatchedIsWindow DEF WaitEvents
  <2>17. CASE RebuildSwapChain
    <3>1. /\ UNCHANGED << theme, resume, window, lost, resizes, runs, calls >>
          /\ pc' \in {"aborted", resume} /\ extent' \in {extent, window.size}
          /\ busy' = busy /\ measured' \in {measured, 0}
      BY <2>17 DEF RebuildSwapChain
    <3>2. window.size \in Sizes \cup {0}
      BY DEF Windows
    <3>. QED
      BY <3>1, <3>2
  <2>18. CASE LeaveLoop
    <3>1. AppTeardown(lost, rrt) \in Seq(SUBSET Objects)
      BY AppTeardownIs
    <3>. QED
      BY <2>18, <3>1 DEF LeaveLoop
  <2>19. CASE TearDown
    <3>1. /\ UNCHANGED << theme, pc, resume, window, measured, extent, lost, resizes, runs >>
          /\ calls # << >> /\ calls' = Tail(calls) /\ busy' \in BOOLEAN
      BY <2>19 DEF TearDown, DestroyNext
    <3>. QED
      BY <3>1
  <2>20. CASE OpenCacheFile
    BY <2>20 DEF OpenCacheFile
  <2>21. CASE Exit
    BY <2>21 DEF Exit, Goto
  <2>22. CASE WaitForFrames
    BY <2>22 DEF WaitForFrames, Goto
  <2>. QED
    BY <1>1, <2>1, <2>2, <2>3, <2>4, <2>5, <2>6, <2>7, <2>8, <2>9, <2>10, <2>11, <2>12, <2>13,
       <2>14, <2>15, <2>16, <2>17, <2>18, <2>19, <2>20, <2>21, <2>22 DEF Program
<1>2. CASE AbortFrame
  <2>1. window' \in Windows /\ lost' \in BOOLEAN
    BY <1>2 DEF AbortFrame, Windows
  <2>. QED
    BY <1>2, <2>1 DEF AbortFrame
<1>3. CASE Crash
  BY <1>3 DEF Crash
<1>4. CASE UpdateDriver
  BY <1>4 DEF UpdateDriver
<1>5. CASE Relaunch
  <2>1. runs' \in 1 .. MaxRuns
    BY <1>5, AppRunAssumption DEF Relaunch, BetweenRuns
  <2>2. window' \in Windows
    BY <1>5, SizesMetAreSizes, NewWindowIsWindow DEF Relaunch, FreshProcess
  <2>3. << >> \in Seq(SUBSET Objects)
    OBVIOUS
  <2>. QED
    BY <1>5, <2>1, <2>2, <2>3 DEF Relaunch, FreshProcess
<1>6. CASE Stopped
  BY <1>6 DEF Stopped, appVars
<1>7. CASE ResizeWindow
  <2>1. window' \in Windows
    BY <1>7 DEF ResizeWindow, Windows
  <2>2. resizes' \in 0 .. MaxResizes
    BY <1>7, AppRunAssumption DEF ResizeWindow
  <2>. QED
    BY <1>7, <2>1, <2>2 DEF ResizeWindow, UserOnly
<1>8. CASE RestoreWindow
  <2>1. window' \in Windows
    BY <1>8 DEF RestoreWindow, Windows
  <2>. QED
    BY <1>8, <2>1 DEF RestoreWindow, UserOnly
<1>9. CASE RequestClose
  <2>1. window' \in Windows
    BY <1>9 DEF RequestClose, Windows
  <2>. QED
    BY <1>9, <2>1 DEF RequestClose, UserOnly
<1>10. CASE DispatchInput
  BY <1>10 DEF DispatchInput
<1>. QED
  BY <1>1, <1>2, <1>3, <1>4, <1>5, <1>6, <1>7, <1>8, <1>9, <1>10 DEF AppRunNext

-----------------------------------------------------------------------------
(***************************************************************************)
(* The inductive invariant.                                                *)
(***************************************************************************)

IInv == AppRunTypeOK /\ AppIInv

LEMMA Initially ==
  ASSUME AppRunInit
  PROVE  IInv
<1>1. OwnTypesOK
  <2>1. window \in Windows
    BY SizesMetAreSizes, NewWindowIsWindow DEF AppRunInit
  <2>2. runs \in 1 .. MaxRuns /\ resizes \in 0 .. MaxResizes
    BY AppRunAssumption DEF AppRunInit
  <2>3. << >> \in Seq(SUBSET Objects)
    OBVIOUS
  <2>. QED
    BY <2>1, <2>2, <2>3 DEF AppRunInit, OwnTypesOK, Steps, Ended, Idled
<1>2. BuiltOK
  BY NothingYet DEF AppRunInit, BuiltOK, Modes
<1>3. alive = {} /\ PipelineCacheTypeOK
  BY DEF AppRunInit, PipelineCacheTypeOK, CacheFile
<1>4. WindowInputTypeOK /\ InputInv
  <2>1. /\ user \in [button : {FALSE}, key : {FALSE}, focused : {TRUE}, x : Columns]
        /\ input = InitialInput /\ wantsMouse = FALSE /\ wantsKeyboard = FALSE
        /\ cursorEvents = 0 /\ travel = 0
    BY DEF AppRunInit, WindowInputInit
  <2>2. user \in [button : BOOLEAN, key : BOOLEAN, focused : BOOLEAN, x : Columns]
    BY <2>1
  <2>3. 0 \in 0 .. MaxCursorEvents
    BY WindowInputAssumption
  <2>4. /\ input \in [key : BOOLEAN, look_mode_active : BOOLEAN, mouse_first_moved : BOOLEAN,
                        last_x : Columns \cup {0}, x_change : Int]
        /\ ~input.key /\ ~input.look_mode_active /\ input.x_change = 0
    BY <2>1 DEF InitialInput
  <2>5. Span(0, 0) = 0
    BY DEF Span
  <2>6. WindowInputTypeOK
    BY <2>1, <2>2, <2>3, <2>4 DEF WindowInputTypeOK
  <2>. QED
    BY <2>1, <2>4, <2>5, <2>6 DEF InputInv, InputFollowsTheUser
<1>5. AppRunTypeOK
  BY <1>1, <1>2, <1>3, <1>4, TypesAre
<1>6. pc = "window"
  BY DEF AppRunInit
<1>7. CacheSurvivesStaleData /\ BuiltInv
  BY <1>6 DEF AppRunInit, CacheSurvivesStaleData, BuiltInv, Looping, Unbound, Idled
<1>8. AliveInv
  BY <1>3, <1>6 DEF AliveInv, TeardownIsOrdered, ParentsOutlive, Looping, Unbound, Idled
<1>9. IdleInv
  <2>1. ~built.touched
    BY DEF AppRunInit, NoResources
  <2>2. ~busy
    BY DEF AppRunInit
  <2>. QED
    BY <1>6, <2>1, <2>2 DEF IdleInv, Idled
<1>10. DeviceInv
  <2>1. machine \in Machines
    BY MachinesMetAreMachines DEF AppRunInit
  <2>. QED
    BY <1>6, <2>1 DEF AppRunInit, DeviceInv
<1>. QED
  BY <1>4, <1>5, <1>7, <1>8, <1>9, <1>10 DEF IInv, AppIInv

LEMMA EveryStep ==
  ASSUME IInv, AppRunNext
  PROVE  IInv' /\ NothingIsPulled
<1>1. /\ OwnTypesOK /\ BuiltOK /\ alive \subseteq Objects
      /\ PipelineCacheTypeOK /\ WindowInputTypeOK
  BY TypesAre DEF IInv
<1>2. DeviceInv /\ InputInv /\ CacheSurvivesStaleData /\ BuiltInv /\ AliveInv /\ IdleInv
  BY DEF IInv, AppIInv
<1>3. /\ resume \in {"top", "acquire"} /\ rrt \in BOOLEAN /\ lost \in BOOLEAN /\ busy \in BOOLEAN
      /\ calls \in Seq(SUBSET Objects)
  BY <1>1 DEF OwnTypesOK, BuiltOK
<1>4. OwnTypesOK'
  BY <1>1, <1>3, TypeStep
<1>5. BuiltOK' /\ BuiltInv'
  BY <1>1, <1>2, BuiltStep
<1>6. alive' \subseteq Objects /\ AliveInv'
  <2>1. AliveOK
    BY <1>1, <1>3 DEF AliveOK
  <2>. QED
    BY <1>2, <1>3, <2>1, AliveStep
<1>7. PipelineCacheTypeOK' /\ CacheSurvivesStaleData'
  BY <1>1, <1>2, <1>3, CacheTypeStep, CacheStep
<1>8. WindowInputTypeOK' /\ InputInv'
  BY <1>1, <1>2, InputActions, InputStep
<1>9. IdleInv' /\ NothingIsPulled
  <2>1. IdleOK
    BY <1>3 DEF IdleOK
  <2>. QED
    BY <1>2, <2>1, IdleStep
<1>10. AppRunTypeOK'
  BY <1>4, <1>5, <1>6, <1>7, <1>8, Zenon DEF AppRunTypeOK, OwnTypesOK, BuiltOK, Windows, Steps
<1>11. DeviceInv'
  BY <1>2, <1>3, DeviceStep
<1>. QED
  BY <1>5, <1>6, <1>7, <1>8, <1>9, <1>10, <1>11 DEF IInv, AppIInv

LEMMA Stuttering ==
  ASSUME IInv, UNCHANGED appVars
  PROVE  IInv'
<1>. USE DEF appVars, machineVars, frameVars, windowVars, inputVars, deviceVars, cacheVars,
             teardownVars
<1>1. AppRunTypeOK'
  BY DEF IInv, AppRunTypeOK, PipelineCacheTypeOK, WindowInputTypeOK
<1>2. InputInv'
  BY DEF IInv, AppIInv, InputInv, InputFollowsTheUser
<1>3. CacheSurvivesStaleData' /\ BuiltInv'
  BY DEF IInv, AppIInv, CacheSurvivesStaleData, BuiltInv
<1>4. AliveInv'
  BY DEF IInv, AppIInv, AliveInv, TeardownIsOrdered, ParentsOutlive
<1>5. IdleInv'
  BY DEF IInv, AppIInv, IdleInv
<1>6. DeviceInv'
  BY DEF IInv, AppIInv, DeviceInv
<1>. QED
  BY <1>1, <1>2, <1>3, <1>4, <1>5, <1>6 DEF IInv, AppIInv

\* In every reachable state everything has its type, and the facts that carry
\* the properties below hold together: the window's input, the pipeline cache,
\* the frame's resources, the order of the teardown and the idle GPU.
THEOREM AppInductive == AppRunSpec => [](AppRunTypeOK /\ AppIInv)
<1>1. AppRunInit => IInv
  BY Initially
<1>2. IInv /\ [AppRunNext]_appVars => IInv'
  BY EveryStep, Stuttering
<1>3. AppRunSpec => []IInv
  BY <1>1, <1>2, PTL DEF AppRunSpec
<1>. QED
  BY <1>3, PTL DEF IInv

\* get_physical_device(): a machine is refused only if no device of it would work,
\* and what is taken is the best working one of the wanted type, or of all; the
\* queues are those of families that serve them.  For any devices, in any order.
THEOREM BestDeviceWins == AppRunSpec => []BestDeviceIsTaken
<1>1. AppRunTypeOK /\ AppIInv => BestDeviceIsTaken
  BY PickedIsBest DEF AppIInv
<1>. QED
  BY <1>1, AppInductive, PTL

\* create_logical_device(): it is created with nothing the device lacks and with
\* all that the flags promise, whatever features and extensions there are.
THEOREM FeaturesSuffice == AppRunSpec => []EnabledIsSupportedAndSufficient
<1>1. AppRunTypeOK /\ AppIInv => EnabledIsSupportedAndSufficient
  BY MadeIsSufficient DEF AppIInv
<1>. QED
  BY <1>1, AppInductive, PTL

\* WindowInputCallbacks.ixx: the camera turns by no more than the user moved the
\* mouse in look mode, and a key is held only while the user holds it, for any
\* cursor positions and number of cursor events a frame.
THEOREM InputIsTheUsers == AppRunSpec => []InputFollowsTheUser
<1>1. AppRunTypeOK /\ AppIInv => InputFollowsTheUser
  BY DEF AppIInv, InputInv
<1>. QED
  BY <1>1, AppInductive, PTL

\* create_pipeline_cache(): whatever is on disk, the pipelines are built with a
\* cache unless the driver makes none.
THEOREM CacheIsMade == AppRunSpec => []CacheSurvivesStaleData
<1>1. AppRunTypeOK /\ AppIInv => CacheSurvivesStaleData
  BY DEF AppIInv
<1>. QED
  BY <1>1, AppInductive, PTL

\* record_commands(): a frame is recorded only from resources that exist, of the
\* swapchain that exists and for every image of it, whatever resizes, settings,
\* reloads, models and logged failures came before, for any image counts.
THEOREM FramesAreComplete == AppRunSpec => []FramesReadLiveResources
<1>1. AppRunTypeOK /\ AppIInv => FramesReadLiveResources
  BY DEF AppIInv, BuiltInv, Looping, Unbound, Complete, FramesReadLiveResources
<1>. QED
  BY <1>1, AppInductive, PTL

\* The end of App::run(): with a device that works, nothing is destroyed before
\* what was made of it, and nothing is left at the exit.
THEOREM TeardownKeepsOrder == AppRunSpec => []TeardownIsOrdered
<1>1. AppRunTypeOK /\ AppIInv => TeardownIsOrdered
  BY DEF AppIInv, AliveInv
<1>. QED
  BY <1>1, AppInductive, PTL

\* updateStateDueToUserInput(), recreateSwapChain() and the teardown: every step that
\* replaces, rewrites or destroys something finds the GPU idle, because the wait of
\* its own handler, recreation or teardown came before it and no frame was submitted
\* in between; whichever handlers were asked, in any frame.
THEOREM WaitsPrecedeChanges == AppRunSpec => NothingIsPulledFromTheGpu
<1>1. IInv /\ [AppRunNext]_appVars => [NothingIsPulled]_appVars
  BY EveryStep
<1>2. AppRunSpec => []IInv
  BY AppInductive, PTL DEF IInv
<1>3. AppRunSpec => [][NothingIsPulled]_appVars
  BY <1>1, <1>2, PTL DEF AppRunSpec
<1>. QED
  BY <1>3, PTL DEF NothingIsPulledFromTheGpu, NothingIsPulled
=============================================================================

---------------------------- MODULE TextureSlots ----------------------------
(***************************************************************************)
(* From a material's texture references to the descriptor a shader samples.*)
(* A loader (scene/ObjLoader.cpp, scene/GltfLoader.cpp) deduplicates the   *)
(* references of one document into model-local texture ids; uploadParsed() *)
(* creates one texture and one sampler per id, whatever fails              *)
(* (scene/ModelAssembly.ixx, scene/Model.cpp); the renderer stamps every   *)
(* mesh with its model's offset and flattens all textures into one array   *)
(* of MAX_TEXTURE_COUNT descriptors (scene/ObjectDescription.ixx), which   *)
(* the shaders index with offset + id (common/scene_types.slang).          *)
(*                                                                         *)
(* An image is a model value: for OBJ the path resolveObjTexturePath()     *)
(* returns, for glTF a cgltf_image.  Slots and texture ids count from 0 as *)
(* in the code, so the texture of id i is element i + 1 of a sequence.     *)
(***************************************************************************)
EXTENDS Integers, FiniteSets, FiniteSetsExt, SequencesExt

CONSTANTS
  Images,            \* the images a document may refer to
  SmallImages,       \* those with a single mip level
  Unreadable,        \* those extractImageBytes() returns no bytes for
  Samplers,          \* GltfSamplerDesc values a texture may name
  DefaultSampler,    \* GltfSamplerDesc{}: OBJ textures and default textures
  MAX_TEXTURE_COUNT, \* the size of the descriptor array
  MaxModels,         \* bound on the models of the scene
  MaxMeshes,         \* bound on the meshes of one model
  MaxParts,          \* bound on the materials and views of all models together
  Skipped, White, Nothing  \* "" in textures, the default texture, no image

ASSUME TextureSlotsAssumption ==
  /\ SmallImages \subseteq Images /\ Unreadable \subseteq Images
  /\ DefaultSampler \in Samplers
  /\ MAX_TEXTURE_COUNT \in Nat \ {0} /\ MaxModels \in Nat
  /\ MaxMeshes \in Nat \ {0} /\ MaxParts \in Nat
  /\ Cardinality({Skipped, White, Nothing}) = 3
  /\ Skipped \notin [image : Images, sampler : Samplers, srgb : BOOLEAN]

Kinds == {"base", "metallicRoughness", "normal", "emissive", "alpha"}

\* The order in which a loader assigns the slots of one material.
KindsOf(f) ==
  IF f = "obj" THEN <<"base", "normal", "emissive", "alpha">>
               ELSE <<"base", "metallicRoughness", "normal", "emissive">>

\* Colour is uploaded sRGB, data linear.
Srgb(kind) == kind \in {"base", "emissive"}

\* What a texture reference names: an image and, in glTF, a sampler.
View(f) == [image : Images, sampler : IF f = "obj" THEN {DefaultSampler} ELSE Samplers]

\* One texture per image, sampler and colour space.
Key(view, kind) == [image |-> view.image, sampler |-> view.sampler, srgb |-> Srgb(kind)]

VARIABLES
  phase,     \* "idle", "parsing" a document, "parsed"
  format,    \* "obj" or "gltf"
  textures,  \* textures and textureSrgb / textureImages, ...SamplerDescs, ...Srgb
  slotOf,    \* pathSlot / imageSlot
  materials, \* the five texture ids of each ObjMaterial, -1 for none
  authored,  \* history: the views each material of the document has
  models     \* Scene::model_list: textures, samplers, materials, meshes

loaderVars == << phase, format, textures, slotOf, materials, authored >>
vars == << loaderVars, models >>

Untextured == [kind \in Kinds |-> -1]

Init ==
  /\ phase = "idle" /\ format = "obj"
  /\ textures = <<>> /\ slotOf = <<>> /\ materials = <<>> /\ authored = <<>>
  /\ models = <<>>

(***************************************************************************)
(* Parsing.  A loader is the record of its textures, its slots and the     *)
(* material it works on.                                                   *)
(***************************************************************************)
\* A key not known yet takes the id.
Known(slots, key, id) ==
  [k \in DOMAIN slots \cup {key} |-> IF k \in DOMAIN slots THEN slots[k] ELSE id]

\* OBJ: a known image pushes an empty entry, a new one takes the next id.
resolveSlot(loader, kind, key) ==
  LET known      == key \in DOMAIN loader.slotOf
      texture_id == Cardinality(DOMAIN loader.slotOf)
      id         == IF known THEN loader.slotOf[key] ELSE texture_id
  IN  [textures |-> Append(loader.textures, IF known THEN Skipped ELSE key),
       slotOf   |-> Known(loader.slotOf, key, texture_id),
       material |-> [loader.material EXCEPT ![kind] = id]]

\* glTF: an image whose bytes cannot be extracted takes no slot.
assignTextureSlot(loader, kind, key) ==
  LET slot == Len(loader.textures)
  IN  CASE key \in DOMAIN loader.slotOf ->
             [loader EXCEPT !.material[kind] = loader.slotOf[key]]
        [] key \notin DOMAIN loader.slotOf /\ key.image \in Unreadable -> loader
        [] OTHER -> [textures |-> Append(loader.textures, key),
                     slotOf   |-> Known(loader.slotOf, key, slot),
                     material |-> [loader.material EXCEPT ![kind] = slot]]

\* OBJ: a material without map_Kd still pushes an entry.
NoTexture(loader, kind) ==
  IF format = "obj" /\ kind = "base"
  THEN [loader EXCEPT !.textures = Append(@, Skipped)]
  ELSE loader

\* One kind of a material: its view, or none.
Assigned(loader, views, kind) ==
  IF kind \notin DOMAIN views THEN NoTexture(loader, kind)
  ELSE IF format = "obj" THEN resolveSlot(loader, kind, Key(views[kind], kind))
       ELSE assignTextureSlot(loader, kind, Key(views[kind], kind))

\* One material: its four kinds in the loader's order.
WithMaterial(views) ==
  LET kinds  == KindsOf(format)
      first  == Assigned([textures |-> textures, slotOf |-> slotOf, material |-> Untextured], views, kinds[1])
      second == Assigned(first, views, kinds[2])
      third  == Assigned(second, views, kinds[3])
  IN  Assigned(third, views, kinds[4])

\* The materials and views of a document.
PartCount(document) ==
  FoldLeft(LAMBDA n, views : n + 1 + Cardinality(DOMAIN views), 0, document)

PartsUsed ==
  FoldLeft(LAMBDA n, model : n + PartCount(model.authored), PartCount(authored), models)

parseCpu(f) ==
  /\ phase = "idle" /\ Len(models) < MaxModels
  /\ phase' = "parsing" /\ format' = f
  /\ textures' = <<>> /\ slotOf' = <<>> /\ materials' = <<>> /\ authored' = <<>>
  /\ UNCHANGED models

ParseMaterial ==
  /\ phase = "parsing"
  /\ \E kinds \in SUBSET ToSet(KindsOf(format)) :
       /\ PartsUsed + 1 + Cardinality(kinds) <= MaxParts
       /\ \E views \in [kinds -> View(format)] :
            LET loader == WithMaterial(views)
            IN  /\ textures' = loader.textures
                /\ slotOf' = loader.slotOf
                /\ materials' = Append(materials, loader.material)
                /\ authored' = Append(authored, views)
  /\ UNCHANGED << phase, format, models >>

\* OBJ without .mtl gets one default material, glTF always the neutral one.
ParsedMaterials ==
  /\ phase = "parsing"
  /\ phase' = "parsed"
  /\ LET extra == format = "gltf" \/ materials = <<>>
     IN  /\ materials' = IF extra THEN Append(materials, Untextured) ELSE materials
         /\ authored' = IF extra THEN Append(authored, <<>>) ELSE authored
  /\ UNCHANGED << format, textures, slotOf, models >>

(***************************************************************************)
(* Uploading.  A texture is what its image holds and the key of its        *)
(* sampler; createFromFile(), createFromMemory() and createDefaultTexture()*)
(* may each fail.                                                          *)
(***************************************************************************)
MipLevel(image) == IF image \in SmallImages THEN 1 ELSE 2

Created(key) ==
  [holds   |-> [image |-> key.image, srgb |-> key.srgb],
   sampler |-> [mipLevel |-> MipLevel(key.image), desc |-> key.sampler]]

DefaultTexture == [holds |-> White, sampler |-> [mipLevel |-> 1, desc |-> DefaultSampler]]
EmptyTexture   == [holds |-> Nothing, sampler |-> [mipLevel |-> 0, desc |-> DefaultSampler]]

\* Faulty variant: a texture that fails to load takes no slot.
addTextureOrSkip(uploaded, key, outcome) ==
  IF outcome = "created" THEN Append(uploaded, Created(key)) ELSE uploaded

addTextureOrDefault(uploaded, key, outcome) ==
  Append(uploaded, CASE outcome = "created" -> Created(key)
                     [] outcome = "default" -> DefaultTexture
                     [] outcome = "empty"   -> EmptyTexture)

ensureAtLeastOneTexture(uploaded, outcome) ==
  IF uploaded # <<>> THEN uploaded
  ELSE << IF outcome = "empty" THEN EmptyTexture ELSE DefaultTexture >>

\* The entries that name a texture.
Entries(list) ==
  LET kept[n \in 0 .. Len(list)] ==
        IF n = 0 THEN <<>>
        ELSE IF list[n] = Skipped THEN kept[n - 1] ELSE Append(kept[n - 1], list[n])
  IN  kept[Len(list)]

\* A texture for every entry.
Loaded(entries, outcome) ==
  LET loaded[n \in 0 .. Len(entries)] ==
        IF n = 0 THEN <<>> ELSE addTextureOrDefault(loaded[n - 1], entries[n], outcome[n])
  IN  loaded[Len(entries)]

\* The first sampler with the key.
findSampler(owned, key) ==
  LET found == { h \in DOMAIN owned : owned[h] = key }
  IN  IF found = {} THEN 0 ELSE CHOOSE h \in found : \A other \in found : h <= other

\* A handle is the position of the sampler in ownedSamplers.
addSampler(acc, texture) ==
  LET existing == findSampler(acc.owned, texture.sampler)
  IN  IF existing # 0
      THEN [acc EXCEPT !.handles = Append(@, existing)]
      ELSE [owned   |-> Append(acc.owned, texture.sampler),
            handles |-> Append(acc.handles, Len(acc.owned) + 1)]

\* The samplers of all textures.
WithSamplers(uploaded) ==
  LET after[n \in 0 .. Len(uploaded)] ==
        IF n = 0 THEN [owned |-> <<>>, handles |-> <<>>] ELSE addSampler(after[n - 1], uploaded[n])
  IN  after[Len(uploaded)]

\* The loader is a local of the function that loads a model.
DiscardLoader ==
  /\ phase' = "idle" /\ format' = "obj"
  /\ textures' = <<>> /\ slotOf' = <<>> /\ materials' = <<>> /\ authored' = <<>>

uploadParsed ==
  /\ phase = "parsed"
  /\ LET entries == Entries(textures)
     IN  \E outcome \in [DOMAIN entries -> {"created", "default", "empty"}],
            fallback \in {"default", "empty"}, meshes \in 1 .. MaxMeshes :
           LET uploaded == ensureAtLeastOneTexture(Loaded(entries, outcome), fallback)
               samplers == WithSamplers(uploaded)
           IN  /\ entries = <<>> \/ fallback = "default"
               /\ models' = Append(models,
                    [modelTextures        |-> [i \in DOMAIN uploaded |-> uploaded[i].holds],
                     ownedSamplers        |-> samplers.owned,
                     modelTextureSamplers |-> samplers.handles,
                     meshes |-> meshes, materials |-> materials,
                     authored |-> authored, format |-> format,
                     created  |-> { entries[i] : i \in { j \in DOMAIN entries : outcome[j] = "created" } }])
  /\ DiscardLoader

\* A document without geometry fails to parse and its loader is discarded.
ParseFails ==
  /\ phase = "parsed"
  /\ DiscardLoader
  /\ UNCHANGED models

\* A reload removes every model.
RemoveModels ==
  /\ phase = "idle" /\ models # <<>>
  /\ models' = <<>>
  /\ UNCHANGED loaderVars

Next ==
  \/ \E f \in {"obj", "gltf"} : parseCpu(f)
  \/ ParseMaterial
  \/ ParsedMaterials
  \/ uploadParsed
  \/ ParseFails
  \/ RemoveModels

Spec == Init /\ [][Next]_vars

(***************************************************************************)
(* What the renderer writes for the loaded models and what a shader reads. *)
(***************************************************************************)
textureCountPerModel == [m \in DOMAIN models |-> Len(models[m].modelTextures)]
meshCountPerModel    == [m \in DOMAIN models |-> models[m].meshes]

\* The sum of the first n counts.
Sums(counts) ==
  LET sum[n \in 0 .. Len(counts)] == IF n = 0 THEN 0 ELSE sum[n - 1] + counts[n] IN sum

\* One list after the other.
Joined(lists) ==
  LET joined[n \in 0 .. Len(lists)] == IF n = 0 THEN <<>> ELSE joined[n - 1] \o lists[n]
  IN  joined[Len(lists)]

\* The running mesh count before each model: the base of its descriptions.
meshBaseOffsets(meshCounts) == [m \in DOMAIN meshCounts |-> Sums(meshCounts)[m - 1]]

\* texture_offset of every description, model by model.
assignTextureOffsets(meshCounts, textureCounts) ==
  Joined([m \in DOMAIN meshCounts |-> [k \in 1 .. meshCounts[m] |-> Sums(textureCounts)[m - 1]]])

\* All textures in model order.
Requested(textureCounts) ==
  Joined([m \in DOMAIN textureCounts |->
            [t \in 1 .. textureCounts[m] |-> [model |-> m, indexInModel |-> t]]])

\* Faulty variant: the tail of the array is left unwritten.
planWithoutPadding(textureCounts) ==
  LET requested == Requested(textureCounts)
  IN  SubSeq(requested, 1, Min({Len(requested), MAX_TEXTURE_COUNT}))

\* Cut at the cap and padded with the first texture.
planFlattenedTextureSlots(textureCounts) ==
  LET requested == Requested(textureCounts)
  IN  IF requested = <<>> THEN <<>>
      ELSE [s \in 1 .. MAX_TEXTURE_COUNT |->
              IF s <= Len(requested) THEN requested[s] ELSE requested[1]]

\* The shaders clamp offset + textureID into the array.
resolve_texture_slot(texture_offset, textureID) ==
  LET slot == texture_offset + textureID
  IN  IF slot < 0 THEN 0
      ELSE IF slot >= MAX_TEXTURE_COUNT THEN MAX_TEXTURE_COUNT - 1 ELSE slot
----------------------------------------------------------------------------
DescriptorArray == planFlattenedTextureSlots(textureCountPerModel)

Slot(s) ==
  LET slot == DescriptorArray[s + 1]
      from == models[slot.model]
  IN  [holds   |-> from.modelTextures[slot.indexInModel],
       sampler |-> from.ownedSamplers[from.modelTextureSamplers[slot.indexInModel]]]

Sampled(m, mesh, id) ==
  LET description == meshBaseOffsets(meshCountPerModel)[m] + mesh
      offset == assignTextureOffsets(meshCountPerModel, textureCountPerModel)[description]
  IN  Slot(resolve_texture_slot(offset, id))

Fits(m) == Sums(textureCountPerModel)[m] <= MAX_TEXTURE_COUNT

\* The texture a material asks for in a kind, if the document can provide it.
Asks(m, k, kind) ==
  LET views == models[m].authored[k]
  IN  kind \in DOMAIN views
      /\ (models[m].format = "gltf" => views[kind].image \notin Unreadable)

\* Every material of every mesh samples the image it was authored with, in
\* its colour space and with its sampler, or the stand-in of a texture that
\* failed to load; a kind without a texture has no id.  Models past the cap
\* disturb none that fits.
MaterialsSampleTheirTextures ==
  \A m \in DOMAIN models : Fits(m) =>
    \A mesh \in 1 .. models[m].meshes, k \in DOMAIN models[m].authored, kind \in Kinds :
      LET id  == models[m].materials[k][kind]
          key == Key(models[m].authored[k][kind], kind)
      IN  IF ~Asks(m, k, kind) THEN id = -1
          ELSE /\ id >= 0
               /\ IF key \in models[m].created
                  THEN Sampled(m, mesh, id) = Created(key)
                  ELSE Sampled(m, mesh, id).holds \in {White, Nothing}

\* As soon as a model is loaded, every slot of the fixed-size array is written
\* with a texture of a loaded model, however few or many textures there are.
EverySlotIsBound ==
  models # <<>> =>
    /\ Len(DescriptorArray) = MAX_TEXTURE_COUNT
    /\ \A s \in DOMAIN DescriptorArray :
         /\ DescriptorArray[s].model \in DOMAIN models
         /\ DescriptorArray[s].indexInModel \in DOMAIN models[DescriptorArray[s].model].modelTextures
=============================================================================

------------------------------ MODULE MCAppRun ------------------------------
(***************************************************************************)
(* The instance of AppRun that TLC checks: the machines a run may meet.     *)
(***************************************************************************)
EXTENDS AppRun

MCFeatures ==
  RayTracingFeatures \cup {"multiview", "computeDerivativeGroupQuads"}

MCExtensions == RayTracingExtensions \cup {"compute_shader_derivatives"}

Gpu(type, capability, families, presentable, features, extensions) ==
  [type |-> type, capability |-> capability, families |-> families,
   presentable |-> presentable, features |-> features, extensions |-> extensions]

Machine(gpus, selection, caches) == [gpus |-> gpus, mode |-> selection, caches |-> caches]

OneFamily == << Uses >>

\* Up to two devices of every rank and mode.
MachinesOfTypes ==
  LET Gpus == {Gpu(type, capability, OneFamily, presentable, {}, {}) :
                 type \in {"discrete", "integrated", "cpu"}, capability \in 1 .. 2,
                 presentable \in BOOLEAN}
  IN {Machine(gpus, selection, TRUE) :
        gpus \in {<< >>} \cup [1 .. 1 -> Gpus] \cup [1 .. 2 -> Gpus],
        selection \in {"auto", "dedicated", "integrated"}}

\* Up to three families, serving any uses each.
MachinesOfFamilies ==
  {Machine(<< Gpu("discrete", 1, families, TRUE, {}, {}) >>, "auto", TRUE) :
     families \in UNION {[1 .. n -> SUBSET Uses] : n \in 1 .. 3}}

\* All but at most two features and all but at most one extension.
MachinesOfFeatures ==
  {Machine(<< Gpu("discrete", 1, OneFamily, TRUE, MCFeatures \ {f, g}, MCExtensions \ {e}) >>,
           "auto", TRUE) :
     f \in MCFeatures \cup {Nothing}, g \in MCFeatures, e \in MCExtensions \cup {Nothing}}

\* With and without ray tracing, with and without pipeline caches.
MCUsualMachines ==
  {Machine(<< Gpu("discrete", 1, OneFamily, TRUE, MCFeatures, extensions) >>, "auto", caches) :
     extensions \in {{}, MCExtensions}, caches \in BOOLEAN}

MCPlainMachine ==
  Machine(<< Gpu("discrete", 1, OneFamily, TRUE, MCFeatures, MCExtensions) >>, "auto", TRUE)

MCMachines ==
  MachinesOfTypes \cup MachinesOfFamilies \cup MachinesOfFeatures \cup MCUsualMachines
=============================================================================

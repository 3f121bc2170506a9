--------------------------- MODULE PipelineCache ---------------------------
(***************************************************************************)
(* The pipeline cache on disk (create_pipeline_cache() and                  *)
(* save_and_destroy_pipeline_cache() of vulkan_base/VulkanDevice.cpp): read  *)
(* at start-up, truncated and written when the device is torn down, and     *)
(* whatever a process that stopped in between left of it.                   *)
(***************************************************************************)

VARIABLES
  cacheFile,      \* the bytes on disk: of this driver, or not
  pipeline_cache  \* the cache of the running process

cacheVars == << cacheFile, pipeline_cache >>

CacheFile == {"absent", "truncated", "foreign", "whole"}

PipelineCacheTypeOK ==
  /\ cacheFile \in CacheFile
  /\ pipeline_cache \in {"none", "empty", "seeded"}

\* Faulty variant: no second attempt, data the driver refuses costs the cache.
CreateCacheOnce(creates, initialData, takesData) ==
  IF initialData
    THEN IF creates /\ takesData THEN "seeded" ELSE "none"
    ELSE IF creates THEN "empty" ELSE "none"

\* The result of createPipelineCache() with the file's bytes and, if that fails,
\* without them.  creates: the driver makes caches at all.
CreatedCache(creates, initialData, takesData) ==
  CASE ~creates -> "none"
    [] initialData /\ takesData -> "seeded"
    [] OTHER -> "empty"

\* A truncated file may be empty, which is no data; a driver takes its own data
\* and may or may not refuse the rest, and reading the file may fail.
CreatePipelineCache(creates) ==
  /\ \E read \in {cacheFile # "absent", FALSE}, takes \in {TRUE, cacheFile = "whole"} :
        pipeline_cache' = CreatedCache(creates, read, takes)
  /\ UNCHANGED cacheFile

\* The stream opens with trunc ...
TruncateCacheFile ==
  /\ pipeline_cache # "none"
  /\ cacheFile' = "truncated"
  /\ UNCHANGED pipeline_cache

\* ... is written, or not all of it, and the cache is destroyed.
WriteCacheFile ==
  /\ pipeline_cache # "none" /\ cacheFile = "truncated"
  /\ cacheFile' \in {"whole", "truncated"}
  /\ pipeline_cache' = "none"

\* No data from the driver, no directory, or no stream: the file stays.
KeepCacheFile ==
  /\ pipeline_cache # "none"
  /\ pipeline_cache' = "none"
  /\ UNCHANGED cacheFile

\* Another driver, or another build of this one, between two runs.
DriverUpdate ==
  /\ cacheFile = "whole"
  /\ cacheFile' = "foreign"
  /\ UNCHANGED pipeline_cache
=============================================================================

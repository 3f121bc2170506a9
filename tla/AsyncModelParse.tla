-------------------------- MODULE AsyncModelParse --------------------------
(***************************************************************************)
(* Parsing a model file on a worker thread (scene/AsyncModelParse.ixx).    *)
(* The worker fills a loader, stores whether the parse succeeded and then, *)
(* last, that it finished; the owner polls, joins and takes the loader.    *)
(*                                                                         *)
(* A call that joins a running worker blocks: it is an action that is not  *)
(* enabled until the worker has ended.                                     *)
(***************************************************************************)

CONSTANTS
  Files,      \* the model files somebody may ask for
  GltfFiles,  \* those of them for which isGltfModelPath() holds
  Nothing     \* a null pointer

ASSUME ParseAssumption ==
  /\ GltfFiles \subseteq Files
  /\ Nothing \notin Files
  /\ "partial" \notin Files
  /\ Nothing # "partial"

VARIABLES
  worker,      \* the std::thread: "none" when it is not joinable, else its step
  ok,          \* the worker's local: what parseCpu() returned
  finished,
  succeeded,
  path,        \* the file of the latest start()
  loader,      \* the ObjLoader: null, holding a parsed file, or "partial"
  gltfLoader,  \* the GltfLoader, likewise
  taken        \* what the last takeResult() or takeGltfResult() returned

loaderVars == << loader, gltfLoader >>
parseVars == << worker, ok, finished, succeeded, path, loader, gltfLoader, taken >>

Loader == Files \cup {Nothing, "partial"}

ParseTypeOK ==
  /\ worker \in {"none", "parsing", "parsed", "stored", "ended"}
  /\ ok \in BOOLEAN
  /\ finished \in BOOLEAN
  /\ succeeded \in BOOLEAN
  /\ path \in Files \cup {Nothing}
  /\ loader \in Loader
  /\ gltfLoader \in Loader
  /\ taken \in Files \cup {Nothing}

ParseInit ==
  /\ worker = "none"
  /\ ok = FALSE /\ finished = FALSE /\ succeeded = FALSE
  /\ path = Nothing
  /\ loader = Nothing /\ gltfLoader = Nothing
  /\ taken = Nothing

-----------------------------------------------------------------------------
(***************************************************************************)
(* The owner's side.                                                       *)
(***************************************************************************)

\* waitForCompletion() returns.
Joined == worker \in {"none", "ended"}

\* Faulty variant: the loader of the other format is not reset.
StartKeepingLoaders(file) ==
  /\ Joined
  /\ worker' = "parsing"
  /\ finished' = FALSE
  /\ succeeded' = FALSE
  /\ path' = file
  /\ IF file \in GltfFiles
       THEN gltfLoader' = "partial" /\ UNCHANGED loader
       ELSE loader' = "partial" /\ UNCHANGED gltfLoader
  /\ UNCHANGED << ok, taken >>

\* start(): joins and discards an earlier parse, then dispatches by extension.
Start(file) ==
  /\ Joined
  /\ worker' = "parsing"
  /\ finished' = FALSE
  /\ succeeded' = FALSE
  /\ path' = file
  /\ gltfLoader' = IF file \in GltfFiles THEN "partial" ELSE Nothing
  /\ loader' = IF file \in GltfFiles THEN Nothing ELSE "partial"
  /\ UNCHANGED << ok, taken >>

ParsedGltf == gltfLoader # Nothing

\* takeResult(): a failed parse returns nothing; either way no loader is left.
TakeResult ==
  /\ Joined
  /\ worker' = "none"
  /\ taken' = IF succeeded THEN loader ELSE Nothing
  /\ loader' = Nothing
  /\ UNCHANGED << ok, finished, succeeded, path, gltfLoader >>

\* takeGltfResult()
TakeGltfResult ==
  /\ Joined
  /\ worker' = "none"
  /\ taken' = IF succeeded THEN gltfLoader ELSE Nothing
  /\ gltfLoader' = Nothing
  /\ UNCHANGED << ok, finished, succeeded, path, loader >>

\* Both callers of the class take the result of the format that was parsed.
TakeParsed == IF ParsedGltf THEN TakeGltfResult ELSE TakeResult

-----------------------------------------------------------------------------
(***************************************************************************)
(* The worker.                                                             *)
(***************************************************************************)

\* parseCpu() of the loader start() created; a failed one leaves it partial.
Parse ==
  /\ worker = "parsing"
  /\ worker' = "parsed"
  /\ ok' \in BOOLEAN
  /\ IF path \in GltfFiles
       THEN gltfLoader' = (IF ok' THEN path ELSE "partial") /\ UNCHANGED loader
       ELSE loader' = (IF ok' THEN path ELSE "partial") /\ UNCHANGED gltfLoader
  /\ UNCHANGED << finished, succeeded, path, taken >>

\* Faulty variant: the release store of `finished` comes first.
StoreFinishedFirst ==
  /\ worker = "parsed"
  /\ worker' = "stored"
  /\ succeeded' = ok
  /\ finished' = TRUE
  /\ UNCHANGED << ok, path, loaderVars, taken >>

StoreSucceeded ==
  /\ worker = "parsed"
  /\ worker' = "stored"
  /\ succeeded' = ok
  /\ UNCHANGED << ok, finished, path, loaderVars, taken >>

\* Faulty variant: only a successful parse is announced.
StoreFinishedOnSuccess ==
  /\ worker = "stored"
  /\ worker' = "ended"
  /\ finished' = succeeded
  /\ UNCHANGED << ok, succeeded, path, loaderVars, taken >>

\* The last store; the thread ends.
StoreFinished ==
  /\ worker = "stored"
  /\ worker' = "ended"
  /\ finished' = TRUE
  /\ UNCHANGED << ok, succeeded, path, loaderVars, taken >>

Worker == Parse \/ StoreSucceeded \/ StoreFinished

-----------------------------------------------------------------------------
(***************************************************************************)
(* An owner that starts and takes in any order.                            *)
(***************************************************************************)

Owner ==
  \/ \E file \in Files : Start(file)
  \/ TakeParsed

ParseNext == Owner \/ Worker

ParseSpec == ParseInit /\ [][ParseNext]_parseVars

\* The operating system runs the worker; the owner need not do anything.
FairParseSpec == ParseSpec /\ WF_parseVars(Worker)

-----------------------------------------------------------------------------

\* "A reader that sees finished == true must also see every write the parse
\* made, including `succeeded`": a poll that finds the parse finished joins
\* without waiting, and finds the outcome and the loader of the latest start().
FinishedIsComplete ==
  finished =>
    /\ Joined
    /\ succeeded = ok
    /\ worker = "ended" /\ ok => path = IF path \in GltfFiles THEN gltfLoader ELSE loader

\* "The newest request wins": a take hands out the file of the latest start(),
\* completely parsed, or nothing - never an earlier one or a partial one - and
\* nothing only when its parse failed or it was taken before.
TakenIsNewest ==
  [][worker' = "none" => /\ taken' \in {path, Nothing}
                         /\ worker = "ended" /\ ok => taken' = path]_parseVars

\* Every parse is reported: a caller that polls isFinished() stops waiting,
\* whether the file could be parsed or not.
ParseIsReported ==
  \A file \in Files : worker = "parsing" /\ path = file ~> finished

-----------------------------------------------------------------------------
(***************************************************************************)
(* The inductive invariant behind the safety properties.                   *)
(***************************************************************************)

\* The loader that start() created for the file it was given.
OwnLoader == IF path \in GltfFiles THEN gltfLoader ELSE loader

\* The worker has not announced the end of the latest parse.
Unannounced == worker \in {"parsing", "parsed", "stored"}

\* The loader of the other format is null, and both are once the result was
\* taken; between the two the own loader is incomplete or holds the file.
LoaderInv ==
  /\ path \in GltfFiles => loader = Nothing
  /\ path \notin GltfFiles => gltfLoader = Nothing
  /\ worker = "none" => loader = Nothing /\ gltfLoader = Nothing
  /\ worker # "none" => path \in Files /\ OwnLoader \in {path, "partial"}

\* What the worker's locals and stores say of the loader, in the order in
\* which it makes them.
OutcomeInv ==
  /\ Unannounced => ~finished
  /\ worker = "ended" => finished
  /\ worker \in {"stored", "ended"} => succeeded = ok
  /\ worker \in {"parsed", "stored", "ended"} /\ ok => OwnLoader = path
  /\ worker = "none" /\ finished => succeeded = ok

ParseIInv == ParseTypeOK /\ LoaderInv /\ OutcomeInv

=============================================================================

--------------------------- MODULE ImageOwnership ---------------------------
(***************************************************************************)
(* What the frame synchronization promises about the resources kept per    *)
(* swapchain image (command buffer, uniform buffers, light matrices, query *)
(* slice, descriptor set): at every moment they belong to nobody, to the   *)
(* host, or to the GPU, and they never pass from the GPU to the host in    *)
(* one step - the GPU gives them up first.                                 *)
(***************************************************************************)

CONSTANT Resources  \* the per-image resource sets

VARIABLE owner      \* who may access each of them

TypeOK == owner \in [Resources -> {"free", "host", "gpu"}]

Init == owner = [r \in Resources |-> "free"]

\* The host starts to write some resource sets, all of them free.
HostTakes(S) ==
  /\ S # {}
  /\ \A r \in S : owner[r] = "free"
  /\ owner' = [r \in Resources |-> IF r \in S THEN "host" ELSE owner[r]]

\* The host is done with some of what it holds, without submitting it.
HostReturns(S) ==
  /\ S # {}
  /\ \A r \in S : owner[r] = "host"
  /\ owner' = [r \in Resources |-> IF r \in S THEN "free" ELSE owner[r]]

\* The host hands what it wrote over to the GPU.
Submits(r) ==
  /\ owner[r] = "host"
  /\ owner' = [owner EXCEPT ![r] = "gpu"]

Completes(r) ==
  /\ owner[r] = "gpu"
  /\ owner' = [owner EXCEPT ![r] = "free"]

Next ==
  \/ \E S \in SUBSET Resources : HostTakes(S) \/ HostReturns(S)
  \/ \E r \in Resources : Submits(r) \/ Completes(r)

Spec == Init /\ [][Next]_owner

=============================================================================

------------------------------- MODULE HostInspection -------------------------------
(***************************************************************************)
(* What the preflight of a run finds on its host: the identity of the      *)
(* image (resolve_image, runtime/docker.rs), the GPUs                      *)
(* (inspection/hardware.rs, normalize_gpu_devices of config/validate.rs,   *)
(* prepare_sweep_scheduler of app.rs) and the memory of the model          *)
(* (inspection/model_memory.rs).                                           *)
(*                                                                         *)
(* A reference is [repo, digest, tagged], its digest NotPinned where it    *)
(* gives none; a digest of the image is [repo, digest].  Repositories are  *)
(* normalized.  A GPU is [index, uuid]; a configured device is one of      *)
(* either, or nobody's.                                                    *)
(***************************************************************************)
EXTENDS Naturals, Sequences, SequencesExt, FiniteSets

CONSTANTS NotPinned, Failed,
          ImageId  \* of the local image

ASSUME HostAssumption == Failed # ImageId

\* Deliberate defect: the image's own digests are trusted alone.
LocalDigests(reference, repoDigests) ==
    {d \in repoDigests : d.repo = reference.repo}

Pinned(reference) == [repo |-> reference.repo, digest |-> reference.digest]

\* canonical_matching_digest and explicit_digest, which does not see the digest
\* of a reference that has a tag as well.
Matching(reference, repoDigests) ==
    {d \in repoDigests : d.repo = reference.repo}
      \cup (IF reference.digest = NotPinned \/ reference.tagged THEN {} ELSE {Pinned(reference)})

\* resolve_image, once the image is there: exactly one digest of the requested
\* repository, or the image's id if that is allowed.
Identity(reference, repoDigests, allowLocal) ==
    LET matching == Matching(reference, repoDigests)
    IN  CASE Cardinality(matching) = 1 -> CHOOSE d \in matching : TRUE
          [] matching = {} /\ allowLocal -> ImageId
          [] OTHER -> Failed

\* normalize_gpu_devices: devices <<>> is a pool by count.
Normalized(devices, gpus) ==
    gpus > 0 /\ (devices # <<>> => Len(devices) = gpus /\ IsInjective(devices))

Found(all, device) == {i \in DOMAIN all : all[i].index = device \/ all[i].uuid = device}

\* query_nvidia_smi and its parser: asked again without compute capabilities.
Query(answers) == IF answers[1] # Failed THEN answers[1] ELSE answers[2]

\* inspect_hardware; `all` is what nvidia-smi reports, in its order.
Selected(all, devices, gpus) ==
    IF all = Failed \/ all = <<>> THEN Failed
    ELSE IF devices = <<>> THEN IF Len(all) < gpus THEN Failed ELSE SubSeq(all, 1, gpus)
    ELSE IF \E i \in DOMAIN devices : Found(all, devices[i]) = {} THEN Failed
    ELSE [i \in DOMAIN devices |-> all[CHOOSE k \in Found(all, devices[i]) :
                                          \A m \in Found(all, devices[i]) : k <= m]]

\* prepare_sweep_scheduler: the pool its leases are taken from, by name.
Pool(all, devices, gpus) ==
    LET selected == Selected(all, devices, gpus)
    IN  IF selected = Failed THEN Failed
        ELSE IF devices = <<>> THEN [i \in DOMAIN selected |-> selected[i].index]
        ELSE devices

\* docker run --gpus device=..., which takes indexes and uuids.
Behind(all, device) == {all[i] : i \in Found(all, device)}

\* estimate_with_command: bytes of [weights, cache, total], or Failed; a sum
\* beyond the width of its type is beyond any total as well.
Estimate(document) ==
    IF document = Failed \/ document.total = 0 \/ document.weights + document.cache > document.total
    THEN Failed ELSE document

\* estimate_model_memory, for every candidate; a warning is one record.
Memory(enabled, required, documents) ==
    IF ~enabled THEN [i \in DOMAIN documents |-> "none"]
    ELSE IF required /\ \E i \in DOMAIN documents : Estimate(documents[i]) = Failed THEN Failed
    ELSE [i \in DOMAIN documents |-> IF Estimate(documents[i]) = Failed THEN "warning" ELSE Estimate(documents[i])]
-------------------------------------------------------------------------------
\* An image is what was asked for: its identity is a digest of that repository,
\* the pinned one if the reference is pinned, and an image id only where the
\* user allows it; of two digests none is taken.
IdentityIsPinned(reference, repoDigests, allowLocal) ==
    LET identity == Identity(reference, repoDigests, allowLocal)
        own == {d \in repoDigests : d.repo = reference.repo}
    IN  /\ identity \notin {Failed, ImageId} =>
             /\ identity.repo = reference.repo /\ own \subseteq {identity}
             /\ reference.digest # NotPinned /\ ~reference.tagged => identity = Pinned(reference)
        /\ identity = ImageId => allowLocal /\ own = {} /\ (reference.digest = NotPinned \/ reference.tagged)

\* A sweep's pool is the GPUs the report calls selected, in that order: as many
\* as were asked for, all reported by the host.  Two leases of different devices
\* are of different GPUs, as long as the configuration names its GPUs in one way.
PoolIsSelected(answers, devices, gpus) ==
    LET all  == Query(answers)
        pool == Pool(all, devices, gpus)
        selected == Selected(all, devices, gpus)
        oneWay == \A i, j \in DOMAIN devices : (\E g \in ToSet(all) : g.index = devices[i])
                                                 = (\E g \in ToSet(all) : g.index = devices[j])
    IN  Normalized(devices, gpus) /\ pool # Failed =>
          /\ Len(pool) = gpus /\ Len(selected) = gpus
          /\ \A i \in 1 .. gpus : Behind(all, pool[i]) = {selected[i]}
          /\ oneWay => IsInjective(selected)

\* A run that goes on knows about the memory of each of its candidates what its
\* configuration requires.
MemoryIsKnown(enabled, required, documents) ==
    LET memory == Memory(enabled, required, documents)
    IN  memory # Failed =>
          /\ Len(memory) = Len(documents)
          /\ enabled /\ required => \A i \in DOMAIN memory :
               memory[i].total > 0 /\ memory[i].weights + memory[i].cache <= memory[i].total
================================================================================

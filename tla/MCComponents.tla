------------------------------ MODULE MCComponents ------------------------------
(***************************************************************************)
(* Small instances of the components that share no state with each other:  *)
(* one of them runs in each behaviour, chosen at the start, the others     *)
(* stay where they begin.                                                  *)
(***************************************************************************)
EXTENDS EncoderStatus, Registry, InitRanges, LockRank, VulkanQueue, Presentation,
        AccelStructures, StagingBelt, GlobalIndex, ContinueForward

VARIABLE subject   \* the component that runs

Subjects == {"encoder", "registry", "ranges", "locks", "vulkan", "surface", "blas", "belt", "index", "forward"}

(* LockRank: two buffers' map states, the snatch lock and the pending writes *)
MCLock == {"snatch", "mapA", "mapB", "writes"}
MCRankOf == [l \in MCLock |-> CASE l = "snatch" -> "DEVICE_SNATCHABLE_LOCK"
                                [] l = "writes" -> "QUEUE_PENDING_WRITES"
                                [] OTHER -> "BUFFER_MAP_STATE"]
MCRank == DOMAIN RankTable

(* AccelStructures: two BLASes, a TLAS over them, and four command buffers *)
MCBlas == {"b1", "b2"}
MCTlas == {"t"}
Build(blas, tlas, deps) == [op |-> "build", blas |-> blas, tlas |-> tlas, deps |-> deps]
UseTlas == [op |-> "use", tlas |-> "t"]
MCAsBatch == {<<Build({"b1"}, {}, {})>>,
              <<Build({"b2"}, {"t"}, {"b1", "b2"})>>,
              <<UseTlas>>,
              <<UseTlas, Build({"b1"}, {"t"}, {"b1"})>>}

(* GlobalIndex: three names, a const_assert, and a name declared twice *)
MCNaming == {<<1, 2, 3>>, <<1, 2, Unnamed>>, <<2, 2, 3>>}

allVars == <<encoderVars, registryVars, rangesVars, lockVars, vulkanVars,
             surfaceVars, asVars, beltVars, indexVars, forwardVars>>

(* no texture, so that its queries are not all asked of every other state *)
NoRanges == mips = <<>> /\ unwritten = <<>> /\ disordered = TRUE

(* The components that begin in several states begin in one of them only
   when they do not run. *)
Init ==
    /\ subject \in Subjects
    /\ subject # "index" => nameOf = <<1, 2, 3>> /\ refs = [d \in Decl |-> <<>>]
    /\ subject # "forward" => backend = "hlsl"
    /\ subject # "vulkan" => timeline = TRUE
    /\ IF subject = "ranges" THEN RangesInit ELSE NoRanges
    /\ EncoderInit
    /\ RegistryInit
    /\ LocksInit
    /\ VulkanInit
    /\ PresentationInit
    /\ AccelInit
    /\ BeltInit
    /\ IndexInit
    /\ ForwardInit

RunEncoder ==
    /\ subject = "encoder" /\ EncoderNext
    /\ UNCHANGED <<subject, registryVars, rangesVars, lockVars, vulkanVars, surfaceVars,
                   asVars, beltVars, indexVars, forwardVars>>
RunRegistry ==
    /\ subject = "registry" /\ RegistryNext
    /\ UNCHANGED <<subject, encoderVars, rangesVars, lockVars, vulkanVars, surfaceVars,
                   asVars, beltVars, indexVars, forwardVars>>
RunRanges ==
    /\ subject = "ranges" /\ RangesNext
    /\ UNCHANGED <<subject, encoderVars, registryVars, lockVars, vulkanVars, surfaceVars,
                   asVars, beltVars, indexVars, forwardVars>>
RunLocks ==
    /\ subject = "locks" /\ LocksNext
    /\ UNCHANGED <<subject, encoderVars, registryVars, rangesVars, vulkanVars, surfaceVars,
                   asVars, beltVars, indexVars, forwardVars>>
RunVulkan ==
    /\ subject = "vulkan" /\ VulkanNext
    /\ UNCHANGED <<subject, encoderVars, registryVars, rangesVars, lockVars, surfaceVars,
                   asVars, beltVars, indexVars, forwardVars>>
RunPresentation ==
    /\ subject = "surface" /\ PresentationNext
    /\ UNCHANGED <<subject, encoderVars, registryVars, rangesVars, lockVars, vulkanVars,
                   asVars, beltVars, indexVars, forwardVars>>
RunAccel ==
    /\ subject = "blas" /\ AccelNext
    /\ UNCHANGED <<subject, encoderVars, registryVars, rangesVars, lockVars, vulkanVars,
                   surfaceVars, beltVars, indexVars, forwardVars>>
RunBelt ==
    /\ subject = "belt" /\ BeltNext
    /\ UNCHANGED <<subject, encoderVars, registryVars, rangesVars, lockVars, vulkanVars,
                   surfaceVars, asVars, indexVars, forwardVars>>
RunIndex ==
    /\ subject = "index" /\ IndexNext
    /\ UNCHANGED <<subject, encoderVars, registryVars, rangesVars, lockVars, vulkanVars,
                   surfaceVars, asVars, beltVars, forwardVars>>
RunForward ==
    /\ subject = "forward" /\ ForwardNext
    /\ UNCHANGED <<subject, encoderVars, registryVars, rangesVars, lockVars, vulkanVars,
                   surfaceVars, asVars, beltVars, indexVars>>

Next ==
    \/ RunEncoder
    \/ RunRegistry
    \/ RunRanges
    \/ RunLocks
    \/ RunVulkan
    \/ RunPresentation
    \/ RunAccel
    \/ RunBelt
    \/ RunIndex
    \/ RunForward

Spec == Init /\ [][Next]_<<subject, allVars>>
================================================================================

------------------------------ MODULE Presentation ------------------------------
(***************************************************************************)
(* A surface: configuring it, acquiring its images, presenting and         *)
(* discarding them, and the SurfaceTexture objects of the application.     *)
(* get_current_texture and configure_surface lock the surface's            *)
(* presentation twice, with calls of the backend in between; present and   *)
(* discard keep it locked.  The backend is Vulkan's as it is seen from     *)
(* here: a swapchain, or none, whose images it gives out and takes back    *)
(* when they are presented.  There is one device, which may be lost at any *)
(* time; its queue, which present unwraps, lives as long.                  *)
(***************************************************************************)
EXTENDS Integers, Sequences, FiniteSets

CONSTANTS
    Presenter,     \* the threads
    SwapImages,    \* number of images of a swapchain
    MaxTextures,   \* bound on the surface textures made
    MaxConfigures  \* bound on the swapchains made

ASSUME PresentationAssumption ==
    SwapImages \in Nat \ {0} /\ MaxTextures \in Nat /\ MaxConfigures \in Nat

VARIABLES
    presentation,  \* Surface::presentation: [set, acquired], a texture or 0
    textures,      \* each surface texture: [image, raw] while it has its image
    handles,       \* the SurfaceTexture objects of each texture
    doing,         \* what each thread is in the middle of
    swapchain,     \* external: the swapchain in use, 0 for none
    chains,        \* external: swapchains made so far
    idleImages,    \* external: the images that can be given out
    discarded,     \* external: those given to discard_texture, not given out again
    valid,         \* Device::valid
    careless,      \* the application did what it should not: see Careful
    surfacePanic

surfaceVars == <<presentation, textures, handles, doing, swapchain, chains, idleImages,
                 discarded, valid, careless, surfacePanic>>

Unconfigured == [set |-> FALSE, acquired |-> 0]
Resting == [op |-> "idle", image |-> <<0, 0>>]
Doing(op) == [op |-> op, image |-> <<0, 0>>]

PresentationInit ==
    /\ presentation = Unconfigured
    /\ textures = <<>> /\ handles = <<>>
    /\ doing = [c \in Presenter |-> Resting]
    /\ swapchain = 0 /\ chains = 0 /\ idleImages = {} /\ discarded = {}
    /\ valid = TRUE /\ careless = FALSE /\ surfacePanic = FALSE

(* A careful application has one frame at a time, does not configure while *)
(* a frame is out or being acquired, does not destroy a frame's texture,   *)
(* and does not clone its SurfaceTexture.                                  *)
FrameOut == \E i \in DOMAIN handles : handles[i] > 0
Careful == ~FrameOut /\ \A c \in Presenter : doing[c].op = "idle"

(* Device::configure_surface: the presentation is taken before it is asked *)
(* whether a frame is out.                                                 *)
ConfigureTake(c) ==
    /\ doing[c] = Resting /\ valid
    /\ chains < MaxConfigures
    /\ careless' = (careless \/ ~Careful)
    /\ presentation' = Unconfigured
    /\ doing' = [doing EXCEPT ![c] =
                    IF presentation.acquired # 0 THEN Resting ELSE Doing("configure")]
    /\ UNCHANGED <<textures, handles, swapchain, chains, idleImages, discarded, valid,
                   surfacePanic>>

(* The backend destroys the old swapchain first, which panics if one of    *)
(* its images is in use.  What follows a panic is not modelled.            *)
InUse == {textures[i].image : i \in {j \in DOMAIN textures : textures[j].raw}}
         \cup {doing[c].image : c \in {d \in Presenter : doing[d].op = "store"}}
ConfigureBackend(c, ok) ==
    /\ doing[c].op = "configure" /\ chains < MaxConfigures
    /\ surfacePanic' = (surfacePanic \/ \E i \in InUse : i[1] = swapchain)
    /\ chains' = chains + 1
    /\ swapchain' = IF ok THEN chains' ELSE 0
    /\ idleImages' = IF ok THEN {chains'} \X (1..SwapImages) ELSE {}
    /\ discarded' = {}
    /\ doing' = [doing EXCEPT ![c] = IF ok THEN Doing("configured") ELSE Resting]
    /\ UNCHANGED <<presentation, textures, handles, valid, careless>>

ConfigureSet(c) ==
    /\ doing[c].op = "configured"
    /\ presentation' = [set |-> TRUE, acquired |-> 0]
    /\ doing' = [doing EXCEPT ![c] = Resting]
    /\ UNCHANGED <<textures, handles, swapchain, chains, idleImages, discarded, valid,
                   careless, surfacePanic>>

(* Surface::get_current_texture: nothing tells that another is acquired.   *)
AcquireRead(c) ==
    /\ doing[c] = Resting /\ presentation.set /\ valid
    /\ Len(textures) + Cardinality({d \in Presenter : doing[d].op # "idle"}) < MaxTextures
    /\ careless' = (careless \/ ~Careful)
    /\ doing' = [doing EXCEPT ![c] = Doing("acquire")]
    /\ UNCHANGED <<presentation, textures, handles, swapchain, chains, idleImages,
                   discarded, valid, surfacePanic>>

AcquireBackend(c) ==
    /\ doing[c].op = "acquire"
    /\ surfacePanic' = (surfacePanic \/ swapchain = 0)
    /\ \/ \E i \in idleImages :
             /\ idleImages' = idleImages \ {i}
             /\ doing' = [doing EXCEPT ![c] = [op |-> "store", image |-> i]]
       \/ /\ doing' = [doing EXCEPT ![c] = Resting]       \* Timeout, Outdated, Lost
          /\ UNCHANGED idleImages
    /\ UNCHANGED <<presentation, textures, handles, swapchain, chains, discarded, valid,
                   careless>>

(* The texture is stored, or dropped with its image if there is one.       *)
AcquireStore(c) ==
    LET refused == presentation.acquired # 0 \/ ~presentation.set
        n == Len(textures) + 1
    IN  /\ doing[c].op = "store"
        /\ surfacePanic' = (surfacePanic \/ ~presentation.set)
        /\ textures' = Append(textures, [image |-> doing[c].image, raw |-> ~refused])
        /\ handles' = Append(handles, IF refused THEN 0 ELSE 1)
        /\ presentation' = IF refused THEN presentation
                           ELSE [presentation EXCEPT !.acquired = n]
        /\ doing' = [doing EXCEPT ![c] = Resting]
        /\ UNCHANGED <<swapchain, chains, idleImages, discarded, valid, careless>>

(* The driver fails once it has given out the image: it cannot wait for    *)
(* it, or makes no view of it.  The image is dropped, the device is lost.  *)
AcquireFail(c) ==
    /\ doing[c].op = "store"
    /\ valid' = FALSE
    /\ doing' = [doing EXCEPT ![c] = Resting]
    /\ UNCHANGED <<presentation, textures, handles, swapchain, chains, idleImages,
                   discarded, careless, surfacePanic>>

(* Surface::present and discard take the acquired texture, whichever the   *)
(* SurfaceTexture is of, and its image from it; on a lost device neither.  *)
Taken_Left(p) == p                      \* wrong: is still the acquired one
Taken(p) == [p EXCEPT !.acquired = 0]
Snatched_Copied(t) == t                 \* wrong: the texture keeps the image
Snatched(t) == [t EXCEPT !.raw = FALSE]

Unusable == ~presentation.set \/ ~valid
HasImage ==
    /\ ~Unusable /\ presentation.acquired # 0
    /\ textures[presentation.acquired].raw
AcquiredImage == textures[presentation.acquired].image

TakeFrame(h) ==
    LET t == presentation.acquired IN
    /\ handles[h] > 0
    /\ handles' = [handles EXCEPT ![h] = @ - 1]
    /\ presentation' = IF Unusable THEN presentation ELSE Taken(presentation)
    /\ textures' = IF Unusable \/ t = 0 THEN textures
                   ELSE [textures EXCEPT ![t] = Snatched(@)]
    /\ UNCHANGED <<doing, swapchain, chains, careless>>

(* SurfaceTexture::present hands the image to the swapchain, which shows   *)
(* it and can give it out again, or loses the device.  Errors are reported *)
(* to the application.                                                     *)
PresentFrame(h) ==
    /\ TakeFrame(h)
    /\ surfacePanic' = (surfacePanic \/ (HasImage /\ swapchain = 0))
    /\ \/ /\ idleImages' = IF HasImage /\ AcquiredImage[1] = swapchain
                             THEN idleImages \cup {AcquiredImage} ELSE idleImages
          /\ UNCHANGED valid
       \/ /\ HasImage
          /\ valid' = FALSE
          /\ UNCHANGED idleImages
    /\ UNCHANGED discarded

(* SurfaceTexture::drop discards what was not presented.  For Vulkan the   *)
(* image stays acquired for as long as its swapchain lives; and an error   *)
(* of discard panics.                                                      *)
DropFrame(h) ==
    /\ TakeFrame(h)
    /\ surfacePanic' = (surfacePanic \/ ~HasImage \/ swapchain = 0)
    /\ discarded' = IF HasImage /\ AcquiredImage[1] = swapchain
                      THEN discarded \cup {AcquiredImage} ELSE discarded
    /\ UNCHANGED <<idleImages, valid>>

CloneFrame(h) ==
    /\ handles[h] = 1
    /\ handles' = [handles EXCEPT ![h] = 2]
    /\ careless' = TRUE
    /\ UNCHANGED <<presentation, textures, doing, swapchain, chains, idleImages, discarded,
                   valid, surfacePanic>>

(* Texture::destroy takes the image and leaves it at that.                 *)
DestroyFrame(h) ==
    /\ handles[h] > 0
    /\ textures' = [textures EXCEPT ![h].raw = FALSE]
    /\ careless' = TRUE
    /\ UNCHANGED <<presentation, handles, doing, swapchain, chains, idleImages, discarded,
                   valid, surfacePanic>>

(* An image is lost with its texture when nobody has the texture any more, *)
(* or when release_gpu_resources destroys what is left on a lost device.   *)
ImageLost(t) ==
    /\ textures[t].raw
    /\ textures' = [textures EXCEPT ![t].raw = FALSE]
    /\ UNCHANGED <<presentation, handles, doing, swapchain, chains, idleImages, discarded,
                   valid, careless, surfacePanic>>
LastReference(t) == handles[t] = 0 /\ presentation.acquired # t /\ ImageLost(t)
ReleaseFrame(t) == ~valid /\ ImageLost(t)

(* Device::destroy, or a failure of the driver in any call of any thread   *)
LoseDevice ==
    /\ valid
    /\ valid' = FALSE
    /\ UNCHANGED <<presentation, textures, handles, doing, swapchain, chains, idleImages,
                   discarded, careless, surfacePanic>>

PresentationNext ==
    /\ ~surfacePanic
    /\ \/ \E c \in Presenter :
             \/ ConfigureTake(c) \/ ConfigureSet(c)
             \/ \E ok \in BOOLEAN : ConfigureBackend(c, ok)
             \/ AcquireRead(c) \/ AcquireBackend(c) \/ AcquireStore(c)
             \/ AcquireFail(c)
       \/ \E h \in DOMAIN handles :
             \/ PresentFrame(h) \/ DropFrame(h) \/ CloneFrame(h) \/ DestroyFrame(h)
             \/ LastReference(h) \/ ReleaseFrame(h)
       \/ LoseDevice

PresentationSpec == PresentationInit /\ [][PresentationNext]_surfaceVars

--------------------------------------------------------------------------------

(* No image is in two places, whatever the application does, however its   *)
(* threads interleave and whenever the device is lost: the backend never   *)
(* gives out an image that a texture still has, nor has one presented or   *)
(* discarded twice, and no two textures have one image.                    *)
HandedBackOnce ==
    /\ InUse \cap (idleImages \cup discarded) = {} /\ idleImages \cap discarded = {}
    /\ \A i, j \in DOMAIN textures :
          i # j /\ textures[i].raw /\ textures[j].raw => textures[i].image # textures[j].image
    /\ \A i \in DOMAIN textures, c \in Presenter :
          doing[c].op = "store" /\ textures[i].raw => textures[i].image # doing[c].image

(* For a careful application nothing panics while its device is valid, and *)
(* dropping a frame is the only way it loses an image: each one of the     *)
(* swapchain is idle, being acquired, the acquired texture's, which it can *)
(* present, or discarded; and the application has a frame when the surface *)
(* has one.  Of a lost device this does not hold: present leaves the frame *)
(* where it is, and dropping it panics.                                    *)
ImagesAccounted ==
    careless \/ ~valid \/
    /\ ~surfacePanic
    /\ swapchain # 0 =>
          {swapchain} \X (1..SwapImages) = idleImages \cup InUse \cup discarded
    /\ \A t \in DOMAIN textures :
          /\ textures[t].raw <=> presentation.acquired = t
          /\ handles[t] > 0 <=> presentation.acquired = t
================================================================================

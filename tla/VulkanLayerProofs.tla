-------------------------- MODULE VulkanLayerProofs --------------------------
(***************************************************************************)
(* Theorems about VulkanLayer: the tables agree with what exists, a frame  *)
(* shows the texture that was committed, and a renderer leaves nothing.    *)
(*                                                                         *)
(* The inductive invariant (LayerInv) has three parts.  A call is alone in *)
(* its phases, except where a handle is removed after the driver gave it   *)
(* up; so each table is a function of what exists and of the phase that    *)
(* the call under way is in (InstanceTabled, DeviceTabled, SurfaceTabled,  *)
(* OneChain).  There is one swapchain in use at a time, and only that one  *)
(* may have an entry, so the renderer there is is the only one: it has the *)
(* texture of the surface while the flag is down (TextureTaken).  And the  *)
(* objects are those of that renderer, more only after failures (Counted). *)
(* Counted rests on DropsAll: the sequence of what drop destroys is a      *)
(* permutation of the sequence of what new makes.                          *)
(***************************************************************************)
EXTENDS VulkanLayer, FiniteSetTheorems, FunctionTheorems, SequenceTheorems, TLAPS

InstancePhases == {"enumerate", "instance table", "destroy instance"}
DevicePhases == {"get queues", "device table", "forget queues", "destroy device"}

InstanceCalls == InstancePhases \cup {"forget devices"}
SurfaceCalls == {"map surface", "unmap surface", "clean surface"}

(* One thread at a time makes or destroys the instance, the device, the    *)
(* surface or a swapchain, and what is being made or destroyed exists.     *)
OneIn(steps) == \A t, u \in Threads : busy[t].at \in steps /\ busy[u].at \in steps => t = u

InstanceAlone == OneIn(InstancePhases) /\ (InCall(InstancePhases) => instance)
DeviceAlone == OneIn(DevicePhases) /\ (InCall(DevicePhases) => device)
SurfaceAlone == OneIn({"map surface"}) /\ (InCall({"map surface"}) => surface # None)
ChainAlone == OneIn(ChainCalls)

(* A swapchain needs its device and its surface, both made to the end.     *)
Parents ==
  (\E c \in Chains : chains[c] # None) \/ InCall(ChainCalls) =>
    /\ device /\ ~InCall(DevicePhases)
    /\ surface # None /\ ~InCall({"map surface"})

Live(c) == chains[c] # None /\ c \notin retired

(* What a call on a swapchain has done so far.                             *)
ChainPhase(t) ==
  /\ At(t, "make chain") =>
       /\ busy[t].c \in Chains /\ busy[t].size \in Sizes
       /\ chains[busy[t].c] = None /\ \A c \in Chains : ~Live(c)
  /\ busy[t].at \in {"map chain", "resize"} =>
       /\ busy[t].c \in Chains /\ Live(busy[t].c) /\ chains[busy[t].c] = busy[t].size
  /\ At(t, "map chain") => chainMap[busy[t].c] = None
  /\ At(t, "destroy chain") =>
       /\ busy[t].c \in Chains /\ chains[busy[t].c] # None /\ chainMap[busy[t].c] = None

(* A surface has one swapchain that was not given up for another, and only *)
(* that one is in the table, with its size, once the call that makes it is *)
(* past MapChain and until one destroys it.                                *)
OneChain ==
  /\ \A c, d \in Chains : Live(c) /\ Live(d) => c = d
  /\ \A c \in retired : chains[c] # None
  /\ \A t \in Threads : ChainPhase(t)
  /\ \A c \in Chains : chainMap[c] # None => Live(c)
  /\ \A c \in Chains : Live(c) =>
       \/ \E t \in Threads : busy[t].at \in {"map chain", "destroy chain"} /\ busy[t].c = c
       \/ chainMap[c] # None /\ chainMap[c].size = chains[c]

(* The table of instances, those of devices.                               *)
InstanceTabled ==
  /\ instTable <=> InstanceReady
  /\ physMap => instance \/ InCall({"forget devices"})
  /\ instance /\ "physical" \notin raced =>
       ~InCall({"forget devices"}) /\ (physMap \/ InCall({"enumerate"}))

DeviceTabled ==
  /\ devTable <=> DeviceReady
  /\ queueMap <=> device /\ ~InCall({"get queues", "destroy device"})

(* The window of the surface, and what the overlay keeps of the surface.   *)
SurfaceTabled ==
  /\ surfMap # None => surface # None \/ InCall({"unmap surface"})
  /\ state # None => surface # None \/ InCall({"unmap surface", "clean surface"})
  /\ surface # None /\ "surface" \notin raced =>
       /\ ~InCall({"unmap surface", "clean surface"})
       /\ surfMap = surface \/ InCall({"map surface"})
       /\ (state # None) =>
            /\ state.hwnd = surface
            /\ \A c \in Chains : Live(c) /\ ~InCall({"map chain", "resize"}) => state.size = chains[c]

(* While the flag is down the renderer there is has the texture.           *)
TextureTaken ==
  state # None /\ ~state.flag =>
    \E c \in Chains :
      /\ chainMap[c] # None /\ chainMap[c].rend # None
      /\ chainMap[c].rend.tex = IF chainMap[c].rend.failed THEN None ELSE state.tex

(* The objects of the renderer there is; more only after failures.         *)
Holds(r, k) ==
  (IF r = None THEN 0 ELSE Times(k, RendererKinds))
  + (IF r = None \/ r.tex = None THEN 0 ELSE Times(k, TextureKinds))

(* objs covers what the renderer r has; exactly if exact. *)
Has(objs, r, exact) ==
  \A k \in Kinds : objs[k] >= Holds(r, k) /\ (exact => objs[k] = Holds(r, k))

Counted ==
  /\ \A c \in Chains : chainMap[c] # None => Has(objects, chainMap[c].rend, lapses = 0)
  /\ lapses = 0 /\ (\A c \in Chains : chainMap[c] = None) => objects = NoObjects

Layer ==
  /\ InstanceAlone /\ InstanceTabled
  /\ DeviceAlone /\ DeviceTabled
  /\ Parents
  /\ SurfaceAlone /\ ChainAlone /\ OneChain
  /\ SurfaceTabled /\ TextureTaken /\ Counted
-----------------------------------------------------------------------------
(***************************************************************************)
(* Sequences of kinds of objects, and how often a kind is in them.         *)
(***************************************************************************)
LEMMA ConcatFacts ==
  ASSUME NEW S, NEW ps \in Seq(S), NEW qs \in Seq(S), NEW both, both = ps \o qs
  PROVE  /\ both \in Seq(S) /\ Len(both) = Len(ps) + Len(qs)
         /\ \A i \in 1 .. Len(ps) : both[i] = ps[i]
         /\ \A i \in 1 .. Len(qs) : both[Len(ps) + i] = qs[i]
<1> DEFINE m == Len(ps)
           n == Len(qs)
<1>1. m \in Nat /\ n \in Nat
  BY LenProperties
<1>2. /\ both \in Seq(S) /\ Len(both) = m + n
      /\ \A i \in 1 .. m + n : both[i] = IF i =< m THEN ps[i] ELSE qs[i - m]
  BY ConcatProperties
<1> HIDE DEF m, n
<1>3. ASSUME NEW i \in 1 .. m
      PROVE  both[i] = ps[i]
  <2>1. i \in 1 .. m + n /\ i =< m
    BY <1>1
  <2> QED
    BY <1>2, <2>1
<1>4. ASSUME NEW i \in 1 .. n
      PROVE  both[m + i] = qs[i]
  <2>1. m + i \in 1 .. m + n /\ ~(m + i =< m) /\ (m + i) - m = i
    BY <1>1
  <2>2. both[m + i] = qs[(m + i) - m]
    BY <1>2, <2>1
  <2> QED
    BY <2>1, <2>2
<1> QED
  BY <1>2, <1>3, <1>4 DEF m, n

(***************************************************************************)
(* How often a kind occurs in a sequence of kinds.                         *)
(***************************************************************************)
LEMMA PlacesFinite ==
  ASSUME NEW S, NEW ks \in Seq(S), NEW k
  PROVE  IsFiniteSet({i \in DOMAIN ks : ks[i] = k})
<1>1. DOMAIN ks = 1 .. Len(ks) /\ Len(ks) \in Nat
  BY LenProperties
<1>2. IsFiniteSet(1 .. Len(ks))
  BY <1>1, FS_Interval
<1> QED
  BY <1>1, <1>2, FS_Subset

LEMMA TimesNat ==
  ASSUME NEW S, NEW ks \in Seq(S), NEW k
  PROVE  Times(k, ks) \in Nat
BY PlacesFinite, FS_CardinalityType DEF Times

LEMMA TimesNone == \A k : Times(k, <<>>) = 0
<1> SUFFICES ASSUME NEW k PROVE Times(k, <<>>) = 0
  OBVIOUS
<1>1. {i \in DOMAIN <<>> : (<<>>)[i] = k} = {}
  OBVIOUS
<1> QED
  BY <1>1, FS_EmptySet DEF Times

(* Sequences that are permutations of each other have the same kinds.      *)
LEMMA TimesPermuted ==
  ASSUME NEW S, NEW ps \in Seq(S), NEW qs \in Seq(S),
         NEW F \in [1 .. Len(ps) -> 1 .. Len(qs)],
         \A i, j \in 1 .. Len(ps) : F[i] = F[j] => i = j,
         \A j \in 1 .. Len(qs) : \E i \in 1 .. Len(ps) : F[i] = j,
         \A i \in 1 .. Len(ps) : qs[F[i]] = ps[i],
         NEW k
  PROVE  Times(k, qs) = Times(k, ps)
<1> DEFINE A == {i \in DOMAIN ps : ps[i] = k}
           B == {j \in DOMAIN qs : qs[j] = k}
           G == [i \in A |-> F[i]]
<1>1. /\ DOMAIN ps = 1 .. Len(ps) /\ Len(ps) \in Nat
      /\ DOMAIN qs = 1 .. Len(qs) /\ Len(qs) \in Nat
  BY LenProperties
<1>2. IsFiniteSet(A)
  BY ONLY ps \in Seq(S), PlacesFinite
<1>3. G \in [A -> B] /\ \A a, b \in A : G[a] = G[b] => a = b
  BY <1>1
<1>4. \A t \in B : \E s \in A : G[s] = t
  <2> SUFFICES ASSUME NEW t \in B PROVE \E s \in A : G[s] = t
    OBVIOUS
  <2>1. PICK i \in 1 .. Len(ps) : F[i] = t
    BY <1>1
  <2>2. i \in A
    BY <1>1, <2>1
  <2>3. G[i] = t
    BY <2>1, <2>2
  <2> QED
    BY <2>2, <2>3
<1>5. G \in Bijection(A, B)
  <2> HIDE DEF A, B, G
  <2> QED
    BY <1>3, <1>4, Fun_IsBij
<1>6. ExistsBijection(A, B)
  <2> HIDE DEF A, B, G
  <2> QED
    BY <1>5, Fun_ExistsBij
<1>7. Cardinality(B) = Cardinality(A)
  <2> HIDE DEF A, B, G
  <2> QED
    BY <1>2, <1>6, FS_Bijection
<1> QED
  BY <1>7 DEF Times

(* The remainder counts through the objects of an image.                   *)
LEMMA Remainders ==
  /\ \A j \in Nat : \E q \in Nat : \E m \in 0 .. 4 : j = 5 * q + m
  /\ \A q \in Nat : \A m \in 0 .. 4 : (5 * q + m) % 5 = m
<1>1. ASSUME NEW j \in Nat
      PROVE  \E q \in Nat : \E m \in 0 .. 4 : j = 5 * q + m
  <2>1. j = 5 * (j \div 5) + (j % 5) /\ j \div 5 \in Nat /\ j % 5 \in 0 .. 4
    BY SMT
  <2> QED
    BY <2>1
<1>2. ASSUME NEW q \in Nat, NEW m \in 0 .. 4
      PROVE  (5 * q + m) % 5 = m
  BY SMT
<1> QED
  BY <1>1, <1>2

DropFrame == <<"semaphore", "fence", "command pool", "framebuffer", "view">>
BaseAndPipeline == BaseKinds \o PipelineKinds
DropBase == <<"descriptor pool", "pipeline", "render pass", "pipeline layout", "set layout", "sampler">>

LEMMA ImageFacts ==
  ASSUME NEW S, NEW ks \in Seq(S), Len(ks) = 5
  PROVE  /\ PerImage(ks) \in Seq(S) /\ Len(PerImage(ks)) = 5 * ImageCount
         /\ \A q \in Nat : \A m \in 0 .. 4 : 5 * q + m < 5 * ImageCount =>
              PerImage(ks)[5 * q + m + 1] = ks[m + 1]
<1>0. ImageCount \in Nat
  BY ImagesAssumption
<1>1. PerImage(ks) = [i \in 1 .. 5 * ImageCount |-> ks[((i - 1) % 5) + 1]]
  BY <1>0 DEF PerImage
<1>2. \A i \in 1 .. 5 * ImageCount : ks[((i - 1) % 5) + 1] \in S
  <2> SUFFICES ASSUME NEW i \in 1 .. 5 * ImageCount
               PROVE  ks[((i - 1) % 5) + 1] \in S
    OBVIOUS
  <2>1. i - 1 \in Nat
    BY <1>0
  <2>2. PICK q \in Nat : \E m \in 0 .. 4 : i - 1 = 5 * q + m
    BY <2>1, Remainders
  <2>3. PICK m \in 0 .. 4 : i - 1 = 5 * q + m
    BY <2>2
  <2>4. (i - 1) % 5 = m
    BY <2>3, Remainders
  <2>5. ks[m + 1] \in S
    <3>1. m + 1 \in 1 .. Len(ks)
      OBVIOUS
    <3> QED
      BY <3>1, ElementOfSeq
  <2> QED
    BY <2>4, <2>5
<1>3. PerImage(ks) \in Seq(S) /\ Len(PerImage(ks)) = 5 * ImageCount
  BY <1>0, <1>1, <1>2
<1>4. ASSUME NEW q \in Nat, NEW m \in 0 .. 4, 5 * q + m < 5 * ImageCount
      PROVE  PerImage(ks)[5 * q + m + 1] = ks[m + 1]
  <2>1. 5 * q + m + 1 \in 1 .. 5 * ImageCount /\ (5 * q + m + 1) - 1 = 5 * q + m
    BY <1>0, <1>4
  <2>2. (5 * q + m) % 5 = m
    BY Remainders
  <2> QED
    BY <1>1, <2>1, <2>2
<1> QED
  BY <1>3, <1>4
-----------------------------------------------------------------------------
(***************************************************************************)
(* What VulkanRenderer::new makes and its drop destroys, place by place.   *)
(***************************************************************************)
Names == {"descriptor pool", "sampler", "set layout", "pipeline layout", "render pass", "pipeline",
          "command pool", "view", "framebuffer", "fence", "semaphore"}

LEMMA BaseAndPipelineFacts ==
  /\ BaseAndPipeline \in Seq(Names) /\ Len(BaseAndPipeline) = 6
  /\ BaseAndPipeline[1] = "descriptor pool" /\ BaseAndPipeline[2] = "sampler"
  /\ BaseAndPipeline[3] = "set layout" /\ BaseAndPipeline[4] = "pipeline layout"
  /\ BaseAndPipeline[5] = "render pass" /\ BaseAndPipeline[6] = "pipeline"
<1>1. /\ BaseKinds \in Seq(Names) /\ Len(BaseKinds) = 3
      /\ BaseKinds[1] = "descriptor pool" /\ BaseKinds[2] = "sampler" /\ BaseKinds[3] = "set layout"
  BY DEF BaseKinds, Names
<1>2. /\ PipelineKinds \in Seq(Names) /\ Len(PipelineKinds) = 3
      /\ PipelineKinds[1] = "pipeline layout" /\ PipelineKinds[2] = "render pass"
      /\ PipelineKinds[3] = "pipeline"
  BY DEF PipelineKinds, Names
<1>3. /\ BaseAndPipeline \in Seq(Names)
      /\ Len(BaseAndPipeline) = 3 + 3
      /\ \A i \in 1 .. 3 : BaseAndPipeline[i] = BaseKinds[i]
      /\ \A i \in 1 .. 3 : BaseAndPipeline[3 + i] = PipelineKinds[i]
  <2>1. /\ BaseKinds \in Seq(Names) /\ PipelineKinds \in Seq(Names)
        /\ BaseAndPipeline = BaseKinds \o PipelineKinds
    BY <1>1, <1>2 DEF BaseAndPipeline
  <2>2. BaseAndPipeline \in Seq(Names)
    BY ONLY <2>1, ConcatFacts
  <2>3. Len(BaseAndPipeline) = Len(BaseKinds) + Len(PipelineKinds)
    BY ONLY <2>1, ConcatFacts
  <2>4. \A i \in 1 .. Len(BaseKinds) : BaseAndPipeline[i] = BaseKinds[i]
    BY ONLY <2>1, ConcatFacts
  <2>5. \A i \in 1 .. Len(PipelineKinds) : BaseAndPipeline[Len(BaseKinds) + i] = PipelineKinds[i]
    BY ONLY <2>1, ConcatFacts
  <2> QED
    BY <1>1, <1>2, <2>2, <2>3, <2>4, <2>5
<1>4. /\ BaseAndPipeline[1] = BaseKinds[1] /\ BaseAndPipeline[2] = BaseKinds[2]
      /\ BaseAndPipeline[3] = BaseKinds[3]
  <2>1. 1 \in 1 .. 3 /\ 2 \in 1 .. 3 /\ 3 \in 1 .. 3
    OBVIOUS
  <2> QED
    BY <1>3, <2>1
<1>7. /\ BaseAndPipeline[4] = PipelineKinds[1] /\ BaseAndPipeline[5] = PipelineKinds[2]
      /\ BaseAndPipeline[6] = PipelineKinds[3]
  <2>1. 3 + 1 = 4 /\ 3 + 2 = 5 /\ 3 + 3 = 6
    OBVIOUS
  <2> QED
    BY <1>3, <2>1
<1>8. Len(BaseAndPipeline) = 6
  BY <1>3
<1> QED
  BY <1>1, <1>2, <1>3, <1>4, <1>7, <1>8

LEMMA KindsOfRenderer ==
  /\ RendererKinds \in Seq(Names) /\ Len(RendererKinds) = 6 + 5 * ImageCount
  /\ \A i \in 1 .. 6 : RendererKinds[i] = BaseAndPipeline[i]
  /\ \A q \in Nat : \A m \in 0 .. 4 : 5 * q + m < 5 * ImageCount =>
       RendererKinds[5 * q + m + 7] = FrameKinds[m + 1]
<1> DEFINE fs == PerImage(FrameKinds)
<1>0. ImageCount \in Nat
  BY ImagesAssumption
<1>1. FrameKinds \in Seq(Names) /\ Len(FrameKinds) = 5
  BY DEF FrameKinds, Names
<1>2. BaseAndPipeline \in Seq(Names) /\ Len(BaseAndPipeline) = 6
  BY BaseAndPipelineFacts
<1>3. RendererKinds = BaseAndPipeline \o fs
  BY DEF RendererKinds, BaseAndPipeline
<1>4. /\ fs \in Seq(Names) /\ Len(fs) = 5 * ImageCount
      /\ \A q \in Nat : \A m \in 0 .. 4 : 5 * q + m < 5 * ImageCount =>
           fs[5 * q + m + 1] = FrameKinds[m + 1]
  BY <1>1, ImageFacts
<1> HIDE DEF fs
<1>5. /\ RendererKinds \in Seq(Names) /\ Len(RendererKinds) = 6 + 5 * ImageCount
      /\ \A i \in 1 .. 6 : RendererKinds[i] = BaseAndPipeline[i]
      /\ \A i \in 1 .. 5 * ImageCount : RendererKinds[6 + i] = fs[i]
  <2>0. BaseAndPipeline \in Seq(Names) /\ fs \in Seq(Names) /\ RendererKinds = BaseAndPipeline \o fs
    BY <1>2, <1>3, <1>4
  <2>1. RendererKinds \in Seq(Names)
    BY ONLY <2>0, ConcatFacts
  <2>2. Len(RendererKinds) = Len(BaseAndPipeline) + Len(fs)
    BY ONLY <2>0, ConcatFacts
  <2>3. \A i \in 1 .. Len(BaseAndPipeline) : RendererKinds[i] = BaseAndPipeline[i]
    BY ONLY <2>0, ConcatFacts
  <2>4. \A i \in 1 .. Len(fs) : RendererKinds[Len(BaseAndPipeline) + i] = fs[i]
    BY ONLY <2>0, ConcatFacts
  <2> QED
    BY <1>2, <1>4, <2>1, <2>2, <2>3, <2>4
<1>6. ASSUME NEW q \in Nat, NEW m \in 0 .. 4, 5 * q + m < 5 * ImageCount
      PROVE  RendererKinds[5 * q + m + 7] = FrameKinds[m + 1]
  <2>1. 5 * q + m + 1 \in 1 .. 5 * ImageCount /\ 6 + (5 * q + m + 1) = 5 * q + m + 7
    BY <1>0, <1>6
  <2>2. RendererKinds[6 + (5 * q + m + 1)] = fs[5 * q + m + 1]
    BY <2>1, <1>5
  <2> QED
    BY <2>1, <2>2, <1>4, <1>6
<1> QED
  BY <1>5, <1>6

LEMMA KindsOfDrop ==
  /\ DropKinds \in Seq(Names) /\ Len(DropKinds) = 6 + 5 * ImageCount
  /\ \A i \in 1 .. 6 : DropKinds[5 * ImageCount + i] = DropBase[i]
  /\ \A q \in Nat : \A m \in 0 .. 4 : 5 * q + m < 5 * ImageCount =>
       DropKinds[5 * q + m + 1] = DropFrame[m + 1]
<1> DEFINE fs == PerImage(DropFrame)
<1>0. ImageCount \in Nat
  BY ImagesAssumption
<1>1. DropFrame \in Seq(Names) /\ Len(DropFrame) = 5
  BY DEF DropFrame, Names
<1>2. DropBase \in Seq(Names) /\ Len(DropBase) = 6
  BY DEF DropBase, Names
<1>3. DropKinds = fs \o DropBase
  BY DEF DropKinds, DropFrame, DropBase
<1>4. /\ fs \in Seq(Names) /\ Len(fs) = 5 * ImageCount
      /\ \A q \in Nat : \A m \in 0 .. 4 : 5 * q + m < 5 * ImageCount =>
           fs[5 * q + m + 1] = DropFrame[m + 1]
  BY <1>1, ImageFacts
<1> HIDE DEF fs
<1>5. /\ DropKinds \in Seq(Names) /\ Len(DropKinds) = 6 + 5 * ImageCount
      /\ \A i \in 1 .. 6 : DropKinds[5 * ImageCount + i] = DropBase[i]
      /\ \A i \in 1 .. 5 * ImageCount : DropKinds[i] = fs[i]
  <2>0. fs \in Seq(Names) /\ DropBase \in Seq(Names) /\ DropKinds = fs \o DropBase
    BY <1>2, <1>3, <1>4
  <2>1. DropKinds \in Seq(Names)
    BY ONLY <2>0, ConcatFacts
  <2>2. Len(DropKinds) = Len(fs) + Len(DropBase)
    BY ONLY <2>0, ConcatFacts
  <2>3. \A i \in 1 .. Len(fs) : DropKinds[i] = fs[i]
    BY ONLY <2>0, ConcatFacts
  <2>4. \A i \in 1 .. Len(DropBase) : DropKinds[Len(fs) + i] = DropBase[i]
    BY ONLY <2>0, ConcatFacts
  <2> QED
    BY <1>0, <1>2, <1>4, <2>1, <2>2, <2>3, <2>4
<1>6. ASSUME NEW q \in Nat, NEW m \in 0 .. 4, 5 * q + m < 5 * ImageCount
      PROVE  DropKinds[5 * q + m + 1] = DropFrame[m + 1]
  <2>1. 5 * q + m + 1 \in 1 .. 5 * ImageCount
    BY <1>0, <1>6
  <2>2. DropKinds[5 * q + m + 1] = fs[5 * q + m + 1]
    BY <2>1, <1>5
  <2> QED
    BY <2>2, <1>4, <1>6
<1> QED
  BY <1>5, <1>6

(* VulkanRenderer::drop destroys what VulkanRenderer::new makes, of every  *)
(* kind as often, for any number of images.                                *)
LEMMA DropsAll == \A k : Times(k, DropKinds) = Times(k, RendererKinds)
<1> DEFINE N == 5 * ImageCount
           frame == [m \in 0 .. 4 |-> IF m = 0 THEN 2 ELSE IF m = 1 THEN 4 ELSE IF m = 2 THEN 3
                                      ELSE IF m = 3 THEN 1 ELSE 0]
           base == [i \in 1 .. 6 |-> IF i = 1 THEN 1 ELSE IF i = 2 THEN 6 ELSE IF i = 3 THEN 5
                                     ELSE IF i = 4 THEN 4 ELSE IF i = 5 THEN 3 ELSE 2]
           F == [i \in 1 .. 6 + N |->
                   IF i =< 6 THEN N + base[i]
                   ELSE i - 6 + frame[(i - 7) % 5] - ((i - 7) % 5)]
<1>0. ImageCount \in Nat /\ N \in Nat
  BY ImagesAssumption
<1>1. /\ \A m \in 0 .. 4 : frame[m] \in 0 .. 4 /\ DropFrame[frame[m] + 1] = FrameKinds[m + 1]
      /\ \A m, n \in 0 .. 4 : frame[m] = frame[n] => m = n
      /\ \A n \in 0 .. 4 : \E m \in 0 .. 4 : frame[m] = n
  <2>1. frame[0] = 2 /\ frame[1] = 4 /\ frame[2] = 3 /\ frame[3] = 1 /\ frame[4] = 0
    OBVIOUS
  <2>2. /\ FrameKinds[1] = "command pool" /\ FrameKinds[2] = "view" /\ FrameKinds[3] = "framebuffer"
        /\ FrameKinds[4] = "fence" /\ FrameKinds[5] = "semaphore"
    BY DEF FrameKinds
  <2>3. /\ DropFrame[1] = "semaphore" /\ DropFrame[2] = "fence" /\ DropFrame[3] = "command pool"
        /\ DropFrame[4] = "framebuffer" /\ DropFrame[5] = "view"
    BY DEF DropFrame
  <2>4. \A m \in 0 .. 4 : m = 0 \/ m = 1 \/ m = 2 \/ m = 3 \/ m = 4
    OBVIOUS
  <2> HIDE DEF frame
  <2>5. \A m \in 0 .. 4 : frame[m] \in 0 .. 4
    BY <2>1, <2>4
  <2>6. ASSUME NEW m \in 0 .. 4 PROVE DropFrame[frame[m] + 1] = FrameKinds[m + 1]
    <3>1. 0 + 1 = 1 /\ 1 + 1 = 2 /\ 2 + 1 = 3 /\ 3 + 1 = 4 /\ 4 + 1 = 5
      OBVIOUS
    <3>2. m = 0 => DropFrame[frame[m] + 1] = FrameKinds[m + 1]
      BY <2>1, <2>2, <2>3, <3>1
    <3>3. m = 1 => DropFrame[frame[m] + 1] = FrameKinds[m + 1]
      BY <2>1, <2>2, <2>3, <3>1
    <3>4. m = 2 => DropFrame[frame[m] + 1] = FrameKinds[m + 1]
      BY <2>1, <2>2, <2>3, <3>1
    <3>5. m = 3 => DropFrame[frame[m] + 1] = FrameKinds[m + 1]
      BY <2>1, <2>2, <2>3, <3>1
    <3>6. m = 4 => DropFrame[frame[m] + 1] = FrameKinds[m + 1]
      BY <2>1, <2>2, <2>3, <3>1
    <3> QED
      BY <2>4, <3>2, <3>3, <3>4, <3>5, <3>6
  <2>7. \A m, n \in 0 .. 4 : frame[m] = frame[n] => m = n
    BY <2>1, <2>4
  <2>8. \A n \in 0 .. 4 : \E m \in 0 .. 4 : frame[m] = n
    BY <2>1, <2>4
  <2> QED
    BY <2>5, <2>6, <2>7, <2>8
<1>2. /\ \A i \in 1 .. 6 : base[i] \in 1 .. 6 /\ DropBase[base[i]] = BaseAndPipeline[i]
      /\ \A i, j \in 1 .. 6 : base[i] = base[j] => i = j
      /\ \A j \in 1 .. 6 : \E i \in 1 .. 6 : base[i] = j
  <2>1. base[1] = 1 /\ base[2] = 6 /\ base[3] = 5 /\ base[4] = 4 /\ base[5] = 3 /\ base[6] = 2
    OBVIOUS
  <2>2. /\ DropBase[1] = "descriptor pool" /\ DropBase[2] = "pipeline" /\ DropBase[3] = "render pass"
        /\ DropBase[4] = "pipeline layout" /\ DropBase[5] = "set layout" /\ DropBase[6] = "sampler"
    BY DEF DropBase
  <2>3. \A i \in 1 .. 6 : i = 1 \/ i = 2 \/ i = 3 \/ i = 4 \/ i = 5 \/ i = 6
    OBVIOUS
  <2> HIDE DEF base
  <2>4. \A i \in 1 .. 6 : base[i] \in 1 .. 6
    BY <2>1, <2>3
  <2>5. \A i \in 1 .. 6 : DropBase[base[i]] = BaseAndPipeline[i]
    BY <2>1, <2>2, <2>3, BaseAndPipelineFacts
  <2>6. \A i, j \in 1 .. 6 : base[i] = base[j] => i = j
    BY <2>1, <2>3
  <2>7. \A j \in 1 .. 6 : \E i \in 1 .. 6 : base[i] = j
    BY <2>1, <2>3
  <2> QED
    BY <2>4, <2>5, <2>6, <2>7
<1> HIDE DEF frame, base
<1>3. \A i \in 1 .. 6 : F[i] = N + base[i] /\ F[i] \in N + 1 .. N + 6
  <2> SUFFICES ASSUME NEW i \in 1 .. 6 PROVE F[i] = N + base[i] /\ F[i] \in N + 1 .. N + 6
    OBVIOUS
  <2>1. i \in 1 .. 6 + N /\ i =< 6
    BY <1>0
  <2>2. F[i] = N + base[i]
    BY <2>1
  <2>3. base[i] \in 1 .. 6
    BY <1>2
  <2> QED
    BY <1>0, <2>2, <2>3
<1>4. \A q \in Nat : \A m \in 0 .. 4 : 5 * q + m < N =>
        F[5 * q + m + 7] = 5 * q + frame[m] + 1 /\ F[5 * q + m + 7] \in 1 .. N
  <2> SUFFICES ASSUME NEW q \in Nat, NEW m \in 0 .. 4, 5 * q + m < N
               PROVE  F[5 * q + m + 7] = 5 * q + frame[m] + 1 /\ F[5 * q + m + 7] \in 1 .. N
    OBVIOUS
  <2> DEFINE i == 5 * q + m + 7
  <2>1. i \in 1 .. 6 + N /\ ~(i =< 6) /\ i - 7 = 5 * q + m
    BY <1>0
  <2>2. (i - 7) % 5 = m
    BY <2>1, Remainders
  <2>3. F[i] = i - 6 + frame[(i - 7) % 5] - ((i - 7) % 5)
    BY <2>1
  <2>4. frame[m] \in 0 .. 4
    BY <1>1
  <2>5. F[i] = 5 * q + frame[m] + 1
    BY <2>2, <2>3, <2>4
  <2>6. 5 * q + frame[m] + 1 \in 1 .. N
    BY <1>0, <2>4
  <2> QED
    BY <2>5, <2>6
<1>5. \A i \in 1 .. 6 + N : i \in 1 .. 6 \/
        \E q \in Nat : \E m \in 0 .. 4 : 5 * q + m < N /\ i = 5 * q + m + 7
  <2> SUFFICES ASSUME NEW i \in 1 .. 6 + N, i \notin 1 .. 6
               PROVE  \E q \in Nat : \E m \in 0 .. 4 : 5 * q + m < N /\ i = 5 * q + m + 7
    OBVIOUS
  <2>1. i - 7 \in Nat /\ i - 7 < N
    BY <1>0
  <2>2. PICK q \in Nat : \E m \in 0 .. 4 : i - 7 = 5 * q + m
    BY <2>1, Remainders
  <2>3. PICK m \in 0 .. 4 : i - 7 = 5 * q + m
    BY <2>2
  <2>4. 5 * q + m < N /\ i = 5 * q + m + 7
    BY <2>1, <2>3
  <2> QED
    BY <2>4
<1>6. \A j \in 1 .. N : \E q \in Nat : \E n \in 0 .. 4 : j = 5 * q + n + 1
  <2> SUFFICES ASSUME NEW j \in 1 .. N
               PROVE  \E q \in Nat : \E n \in 0 .. 4 : j = 5 * q + n + 1
    OBVIOUS
  <2>1. j - 1 \in Nat
    BY <1>0
  <2>2. PICK q \in Nat : \E m \in 0 .. 4 : j - 1 = 5 * q + m
    BY <2>1, Remainders
  <2>3. PICK m \in 0 .. 4 : j - 1 = 5 * q + m
    BY <2>2
  <2>4. j = 5 * q + m + 1
    BY <2>3
  <2> QED
    BY <2>4
<1>7. DOMAIN F = 1 .. 6 + N
  OBVIOUS
<1>8. F = [i \in 1 .. 6 + N |-> F[i]]
  OBVIOUS
<1> HIDE DEF F
<1>9. \A i \in 1 .. 6 + N : F[i] \in 1 .. 6 + N
  <2> SUFFICES ASSUME NEW i \in 1 .. 6 + N PROVE F[i] \in 1 .. 6 + N
    OBVIOUS
  <2>1. CASE i \in 1 .. 6
    BY <1>0, <1>3, <2>1
  <2>2. CASE i \notin 1 .. 6
    <3>1. F[i] \in 1 .. N
      BY <1>4, <1>5, <2>2
    <3> QED
      BY <1>0, <3>1
  <2> QED
    BY <2>1, <2>2
<1>10. F \in [1 .. 6 + N -> 1 .. 6 + N]
  BY <1>8, <1>9
<1>11. \A j \in 1 .. 6 + N : \E i \in 1 .. 6 + N : F[i] = j
  <2> SUFFICES ASSUME NEW j \in 1 .. 6 + N PROVE \E i \in 1 .. 6 + N : F[i] = j
    OBVIOUS
  <2>1. CASE j > N
    <3>1. j - N \in 1 .. 6
      BY <1>0, <2>1
    <3>2. PICK i \in 1 .. 6 : base[i] = j - N
      BY <1>2, <3>1
    <3>3. i \in 1 .. 6 + N /\ F[i] = j
      BY <1>0, <1>3, <3>2
    <3> QED
      BY <3>3
  <2>2. CASE ~(j > N)
    <3>1. j \in 1 .. N
      BY <1>0, <2>2
    <3>2. PICK q \in Nat : \E n \in 0 .. 4 : j = 5 * q + n + 1
      BY <1>6, <3>1
    <3>3. PICK n \in 0 .. 4 : j = 5 * q + n + 1
      BY <3>2
    <3>4. PICK m \in 0 .. 4 : frame[m] = n
      BY <1>1
    <3>5. 5 * q + m < N
      BY ImagesAssumption, <3>1, <3>3
    <3>6. F[5 * q + m + 7] = j
      BY <1>4, <3>3, <3>4, <3>5
    <3>7. 5 * q + m + 7 \in 1 .. 6 + N
      BY <1>0, <3>5
    <3> QED
      BY <3>6, <3>7
  <2> QED
    BY <2>1, <2>2
<1>12. \A i, j \in 1 .. 6 + N : F[i] = F[j] => i = j
  <2> SUFFICES ASSUME NEW i \in 1 .. 6 + N, NEW j \in 1 .. 6 + N, F[i] = F[j] PROVE i = j
    OBVIOUS
  <2>1. CASE i \in 1 .. 6 /\ j \in 1 .. 6
    <3>1. base[i] = base[j]
      <4>1. N + base[i] = N + base[j] /\ base[i] \in 1 .. 6 /\ base[j] \in 1 .. 6
        BY <1>2, <1>3, <2>1
      <4> QED
        BY <1>0, <4>1
    <3> QED
      BY <1>2, <2>1, <3>1
  <2>2. CASE i \in 1 .. 6 /\ j \notin 1 .. 6
    <3>1. F[i] \in N + 1 .. N + 6 /\ F[j] \in 1 .. N
      BY <1>3, <1>4, <1>5, <2>2
    <3> QED
      BY <1>0, <3>1
  <2>3. CASE i \notin 1 .. 6 /\ j \in 1 .. 6
    <3>1. F[j] \in N + 1 .. N + 6 /\ F[i] \in 1 .. N
      BY <1>3, <1>4, <1>5, <2>3
    <3> QED
      BY <1>0, <3>1
  <2>4. CASE i \notin 1 .. 6 /\ j \notin 1 .. 6
    <3>1. PICK q \in Nat : \E m \in 0 .. 4 : 5 * q + m < N /\ i = 5 * q + m + 7
      BY <1>5, <2>4
    <3>2. PICK m \in 0 .. 4 : 5 * q + m < N /\ i = 5 * q + m + 7
      BY <3>1
    <3>3. PICK p \in Nat : \E n \in 0 .. 4 : 5 * p + n < N /\ j = 5 * p + n + 7
      BY <1>5, <2>4
    <3>4. PICK n \in 0 .. 4 : 5 * p + n < N /\ j = 5 * p + n + 7
      BY <3>3
    <3>5. 5 * q + frame[m] + 1 = 5 * p + frame[n] + 1
      BY <1>4, <3>2, <3>4
    <3>6. frame[m] \in 0 .. 4 /\ frame[n] \in 0 .. 4
      BY <1>1
    <3>7. q = p /\ frame[m] = frame[n]
      BY <3>5, <3>6
    <3>8. m = n
      BY <1>1, <3>7
    <3> QED
      BY <3>2, <3>4, <3>7, <3>8
  <2> QED
    BY <2>1, <2>2, <2>3, <2>4
<1>13. \A i \in 1 .. 6 + N : DropKinds[F[i]] = RendererKinds[i]
  <2> SUFFICES ASSUME NEW i \in 1 .. 6 + N PROVE DropKinds[F[i]] = RendererKinds[i]
    OBVIOUS
  <2>1. CASE i \in 1 .. 6
    <3>1. F[i] = N + base[i] /\ base[i] \in 1 .. 6 /\ DropBase[base[i]] = BaseAndPipeline[i]
      BY <1>2, <1>3, <2>1
    <3>2. DropKinds[N + base[i]] = DropBase[base[i]]
      BY <3>1, KindsOfDrop
    <3> QED
      BY <2>1, <3>1, <3>2, KindsOfRenderer
  <2>2. CASE i \notin 1 .. 6
    <3>1. PICK q \in Nat : \E m \in 0 .. 4 : 5 * q + m < N /\ i = 5 * q + m + 7
      BY <1>5, <2>2
    <3>2. PICK m \in 0 .. 4 : 5 * q + m < N /\ i = 5 * q + m + 7
      BY <3>1
    <3>3. frame[m] \in 0 .. 4 /\ 5 * q + frame[m] < N
      BY ImagesAssumption, <1>1, <3>2
    <3>4. F[i] = 5 * q + frame[m] + 1
      BY <1>4, <3>2
    <3>5. DropKinds[5 * q + frame[m] + 1] = DropFrame[frame[m] + 1]
      BY <3>3, KindsOfDrop
    <3>6. RendererKinds[i] = FrameKinds[m + 1]
      BY <3>2, KindsOfRenderer
    <3> QED
      BY <1>1, <3>4, <3>5, <3>6
  <2> QED
    BY <2>1, <2>2
<1> HIDE DEF N
<1>14. N = 5 * ImageCount
  BY DEF N
<1>15. ASSUME NEW k PROVE Times(k, DropKinds) = Times(k, RendererKinds)
  <2>1. Len(RendererKinds) = 6 + N /\ Len(DropKinds) = 6 + N
    BY <1>14, KindsOfRenderer, KindsOfDrop
  <2>2. RendererKinds \in Seq(Names) /\ DropKinds \in Seq(Names)
    BY KindsOfRenderer, KindsOfDrop
  <2>3. /\ F \in [1 .. Len(RendererKinds) -> 1 .. Len(DropKinds)]
        /\ \A i, j \in 1 .. Len(RendererKinds) : F[i] = F[j] => i = j
        /\ \A j \in 1 .. Len(DropKinds) : \E i \in 1 .. Len(RendererKinds) : F[i] = j
        /\ \A i \in 1 .. Len(RendererKinds) : DropKinds[F[i]] = RendererKinds[i]
    BY <1>10, <1>11, <1>12, <1>13, <2>1
  <2> QED
    BY ONLY <2>2, <2>3, TimesPermuted
<1> QED
  BY <1>15
-----------------------------------------------------------------------------
(***************************************************************************)
(* The objects of renderers: a renderer that is dropped takes away what it *)
(* had, and what a present leaves is what its renderer has, but for what   *)
(* failures leave behind.                                                  *)
(***************************************************************************)
LEMMA KindCounts ==
  \A k :
    /\ Times(k, RendererKinds) \in Nat /\ Times(k, TextureKinds) \in Nat
    /\ \A ks \in PartlyMade : Times(k, ks) \in Nat
    /\ \A n \in 0 .. 2 : Times(k, SubSeq(TextureKinds, 1, n)) \in Nat
<1> SUFFICES ASSUME NEW k
    PROVE /\ Times(k, RendererKinds) \in Nat /\ Times(k, TextureKinds) \in Nat
          /\ \A ks \in PartlyMade : Times(k, ks) \in Nat
          /\ \A n \in 0 .. 2 : Times(k, SubSeq(TextureKinds, 1, n)) \in Nat
  OBVIOUS
<1>1. RendererKinds \in Seq(Names)
  BY KindsOfRenderer
<1>2. TextureKinds \in Seq({"image", "memory", "texture view"}) /\ Len(TextureKinds) = 3
  BY DEF TextureKinds
<1>3. Times(k, RendererKinds) \in Nat
  BY ONLY <1>1, TimesNat
<1>4. Times(k, TextureKinds) \in Nat
  BY ONLY <1>2, TimesNat
<1>5. ASSUME NEW ks \in PartlyMade
      PROVE  Times(k, ks) \in Nat
  <2>1. PICK n \in 0 .. Len(RendererKinds) : ks = SubSeq(RendererKinds, 1, n)
    BY DEF PartlyMade, Prefixes
  <2>2. Len(RendererKinds) \in Nat
    BY <1>1, LenProperties
  <2>3. \A i \in 1 .. n : RendererKinds[i] \in Names
    BY <1>1, <2>2, ElementOfSeq
  <2>4. ks \in Seq(Names)
    BY <1>1, <2>1, <2>2, <2>3, SubSeqProperties
  <2> QED
    BY ONLY <2>4, TimesNat
<1>6. ASSUME NEW n \in 0 .. 2
      PROVE  Times(k, SubSeq(TextureKinds, 1, n)) \in Nat
  <2> DEFINE K == {"image", "memory", "texture view"}
  <2>1. TextureKinds \in Seq(K) /\ Len(TextureKinds) = 3
    BY <1>2
  <2> HIDE DEF K
  <2>2. \A i \in 1 .. 3 : TextureKinds[i] \in K
    BY <2>1, ElementOfSeq
  <2>3. \A i \in 1 .. n : TextureKinds[i] \in K
    BY <2>2
  <2>4. SubSeq(TextureKinds, 1, n) \in Seq(K)
    BY <2>1, <2>3, SubSeqProperties
  <2> QED
    BY ONLY <2>4, TimesNat
<1> QED
  BY <1>3, <1>4, <1>5, <1>6

LEMMA TextureCount ==
  ASSUME NEW r, NEW k
  PROVE  /\ Times(k, TextureOf(r)) = IF r = None \/ r.tex = None THEN 0 ELSE Times(k, TextureKinds)
         /\ Times(k, TextureOf(r)) \in Nat
BY TimesNone, KindCounts DEF TextureOf

LEMMA WithFacts ==
  ASSUME NEW objs \in [Kinds -> Nat], NEW ks, \A k \in Kinds : Times(k, ks) \in Nat
  PROVE  /\ With(objs, ks) \in [Kinds -> Nat]
         /\ \A k \in Kinds : With(objs, ks)[k] = objs[k] + Times(k, ks)
BY DEF With

LEMMA WithoutFacts ==
  ASSUME NEW objs \in [Kinds -> Nat], NEW ks,
         \A k \in Kinds : Times(k, ks) \in Nat /\ objs[k] >= Times(k, ks)
  PROVE  /\ Without(objs, ks) \in [Kinds -> Nat]
         /\ \A k \in Kinds : Without(objs, ks)[k] = objs[k] - Times(k, ks)
BY DEF Without

LEMMA HoldsFacts ==
  ASSUME NEW r, NEW k
  PROVE  /\ r = None => Holds(r, k) = 0
         /\ r # None => Holds(r, k) = Times(k, RendererKinds) + Times(k, TextureOf(r))
         /\ Holds(r, k) \in Nat
BY TextureCount, KindCounts DEF Holds

LEMMA DroppedFacts ==
  ASSUME objects \in [Kinds -> Nat], NEW r, NEW exact \in BOOLEAN, Has(objects, r, exact)
  PROVE  /\ Dropped(r) \in [Kinds -> Nat]
         /\ exact => Dropped(r) = NoObjects
<1>1. CASE r = None
  <2>1. Dropped(r) = objects
    BY <1>1 DEF Dropped
  <2>2. exact => \A k \in Kinds : objects[k] = 0
    BY <1>1, HoldsFacts DEF Has
  <2>3. exact => objects = NoObjects
    BY <2>2 DEF NoObjects
  <2> QED
    BY <2>1, <2>3
<1>2. CASE r # None
  <2> DEFINE once == Without(objects, DropKinds)
  <2>1. Dropped(r) = Without(once, TextureOf(r))
    BY <1>2 DEF Dropped
  <2>2. \A k \in Kinds : /\ Times(k, DropKinds) \in Nat /\ Times(k, TextureOf(r)) \in Nat
                         /\ Holds(r, k) = Times(k, DropKinds) + Times(k, TextureOf(r))
    BY <1>2, HoldsFacts, TextureCount, KindCounts, DropsAll
  <2>3. \A k \in Kinds : objects[k] >= Times(k, DropKinds) + Times(k, TextureOf(r))
    BY <2>2 DEF Has
  <2>4. once \in [Kinds -> Nat] /\ \A k \in Kinds : once[k] = objects[k] - Times(k, DropKinds)
    <3>1. \A k \in Kinds : objects[k] >= Times(k, DropKinds)
      BY <2>2, <2>3
    <3> QED
      BY <2>2, <3>1, WithoutFacts
  <2> HIDE DEF once
  <2>5. /\ Without(once, TextureOf(r)) \in [Kinds -> Nat]
        /\ \A k \in Kinds : Without(once, TextureOf(r))[k] = once[k] - Times(k, TextureOf(r))
    <3>1. \A k \in Kinds : once[k] >= Times(k, TextureOf(r))
      BY <2>2, <2>3, <2>4
    <3> QED
      BY <2>2, <2>4, <3>1, WithoutFacts
  <2>6. exact => \A k \in Kinds : Dropped(r)[k] = 0
    BY <2>1, <2>2, <2>4, <2>5 DEF Has
  <2>7. exact => Dropped(r) = NoObjects
    <3>1. Dropped(r) = [k \in Kinds |-> Dropped(r)[k]]
      BY <2>1, <2>5
    <3> QED
      BY <2>6, <3>1 DEF NoObjects
  <2> QED
    BY <2>1, <2>5, <2>7
<1> QED
  BY <1>1, <1>2

LEMMA CleanupFacts ==
  ASSUME TypeOK, Counted, NEW c \in Chains \cup {None}, Cleanup(c)
  PROVE  /\ chainMap' \in [Chains -> Entry \cup {None}]
         /\ \A d \in Chains : chainMap'[d] = IF d = c THEN None ELSE chainMap[d]
         /\ state' \in SurfaceState \cup {None} /\ (state' = None <=> state = None)
         /\ state # None =>
              state'.size = state.size /\ state'.hwnd = state.hwnd /\ state'.tex = state.tex
         /\ state # None /\ c # None /\ chainMap[c] # None => state'.flag
         /\ (c = None \/ chainMap[c] = None) => UNCHANGED <<chainMap, state, objects>>
         /\ objects' \in [Kinds -> Nat]
         /\ c # None /\ chainMap[c] # None /\ lapses = 0 => objects' = NoObjects
<1> HIDE LayerAssumption
<1>0. None \notin Chains /\ None \notin Entry /\ None \notin SurfaceState
  BY LayerAssumption
<1>1. /\ chainMap \in [Chains -> Entry \cup {None}] /\ state \in SurfaceState \cup {None}
      /\ objects \in [Kinds -> Nat]
  BY DEF TypeOK
<1>2. CASE c = None \/ chainMap[c] = None
  <2>1. UNCHANGED <<chainMap, state, objects>>
    BY <1>2 DEF Cleanup
  <2> QED
    BY <1>0, <1>1, <1>2, <2>1
<1>3. CASE c # None /\ chainMap[c] # None
  <2>1. /\ chainMap' = [chainMap EXCEPT ![c] = None]
        /\ objects' = Dropped(chainMap[c].rend)
        /\ state' = IF state = None THEN None ELSE [state EXCEPT !.flag = TRUE]
    BY <1>3 DEF Cleanup
  <2>2. c \in Chains
    BY <1>3
  <2>3. objects' \in [Kinds -> Nat] /\ (lapses = 0 => objects' = NoObjects)
    <3>1. Has(objects, chainMap[c].rend, lapses = 0)
      BY <1>3, <2>2 DEF Counted
    <3>2. (lapses = 0) \in BOOLEAN
      OBVIOUS
    <3> QED
      BY <1>1, <2>1, <3>1, <3>2, DroppedFacts
  <2>4. /\ state' \in SurfaceState \cup {None} /\ (state' = None <=> state = None)
        /\ state # None =>
             /\ state'.size = state.size /\ state'.hwnd = state.hwnd /\ state'.tex = state.tex
             /\ state'.flag
    <3>1. CASE state = None
      BY <2>1, <3>1
    <3>2. CASE state # None
      <4>1. state \in SurfaceState
        BY <1>1, <3>2
      <4>2. [state EXCEPT !.flag = TRUE] \in SurfaceState
        BY <4>1 DEF SurfaceState
      <4>3. LET n == [state EXCEPT !.flag = TRUE]
            IN  n.size = state.size /\ n.hwnd = state.hwnd /\ n.tex = state.tex /\ n.flag
        BY <4>1 DEF SurfaceState
      <4> QED
        BY <1>0, <2>1, <3>2, <4>2, <4>3
    <3> QED
      BY <3>1, <3>2
  <2>5. /\ chainMap' \in [Chains -> Entry \cup {None}]
        /\ \A d \in Chains : chainMap'[d] = IF d = c THEN None ELSE chainMap[d]
    BY <1>1, <2>1, <2>2
  <2> QED
    BY <1>3, <2>3, <2>4, <2>5
<1> QED
  BY <1>2, <1>3

Fits(r, s) == r # None /\ r.tex = IF r.failed THEN None ELSE s.tex

(* A frame leaves a renderer r, and what there is agrees with it. *)
Leaves(c, r, size, hwnd) ==
  /\ r \in Renderer \cup {None}
  /\ chainMap' = [chainMap EXCEPT ![c].rend = r]
  /\ state' \in SurfaceState /\ state'.size = size /\ state'.hwnd = hwnd
  /\ ~state'.flag => Fits(r, state')
  /\ objects' \in [Kinds -> Nat] /\ Has(objects', r, lapses' = 0)
  /\ lapses' \in 0 .. MaxLapses
  /\ ShowsCommitted'

LEMMA AfterFacts ==
  ASSUME TypeOK, NEW c, NEW s \in SurfaceState, NEW r \in Renderer \cup {None},
         NEW objs \in [Kinds -> Nat], NEW fails \in {0, 1}, NEW what,
         After(c, s, r, objs, fails, what),
         ~s.flag => Fits(r, s),
         Has(objs, r, lapses = 0 /\ fails = 0),
         fails = 1 => lapses < MaxLapses,
         what # None => what.tex = IF what.failed THEN None ELSE what.want
  PROVE  Leaves(c, r, s.size, s.hwnd)
<1>0. lapses \in 0 .. MaxLapses /\ MaxLapses \in Nat
  BY LayerAssumption DEF TypeOK
<1> HIDE LayerAssumption
<1>1. /\ state' = s /\ chainMap' = [chainMap EXCEPT ![c].rend = r]
      /\ objects' = objs /\ lapses' = lapses + fails /\ drawn' = what
  BY DEF After
<1>2. lapses' \in 0 .. MaxLapses /\ (lapses' = 0 => lapses = 0 /\ fails = 0)
  <2>1. CASE fails = 0
    BY <1>0, <1>1, <2>1
  <2>2. CASE fails = 1
    BY <1>0, <1>1, <2>2
  <2> QED
    BY <2>1, <2>2
<1>3. Has(objects', r, lapses' = 0)
  BY <1>1, <1>2 DEF Has
<1>4. ShowsCommitted'
  BY <1>1 DEF ShowsCommitted
<1> QED
  BY <1>1, <1>2, <1>3, <1>4 DEF Leaves

(* A frame that draws puts the flag down: the renderer has the texture, or *)
(* could not import it.                                                    *)
LEMMA DrawFacts ==
  ASSUME TypeOK, NEW c, NEW s \in SurfaceState, NEW r \in Renderer,
         NEW objs \in [Kinds -> Nat], NEW fails \in {0, 1}, Draw(c, s, r, objs, fails),
         Fits(r, s), Has(objs, r, lapses = 0 /\ fails = 0), fails = 1 => lapses < MaxLapses
  PROVE  Leaves(c, r, s.size, s.hwnd)
<1> DEFINE n == [s EXCEPT !.flag = FALSE]
           what == [tex |-> r.tex, want |-> s.tex, failed |-> r.failed]
<1> HIDE LayerAssumption
<1>1. After(c, n, r, objs, fails, what)
  BY DEF Draw
<1>2. n \in SurfaceState /\ n.size = s.size /\ n.hwnd = s.hwnd /\ n.tex = s.tex
  BY DEF SurfaceState
<1>3. what.tex = IF what.failed THEN None ELSE what.want
  BY DEF Fits
<1>4. Fits(r, n)
  BY <1>2 DEF Fits
<1> HIDE DEF n, what
<1>5. Leaves(c, r, n.size, n.hwnd)
  BY <1>1, <1>2, <1>3, <1>4, AfterFacts
<1> QED
  BY <1>2, <1>5

LEMMA RendererFacts ==
  ASSUME NEW r \in Renderer, NEW x \in Textures
  PROVE  LET gone == [r EXCEPT !.tex = None, !.failed = FALSE]
             got == [gone EXCEPT !.tex = x]
             lost == [gone EXCEPT !.failed = TRUE]
         IN  /\ gone \in Renderer /\ gone.tex = None /\ gone.failed = FALSE
             /\ got \in Renderer /\ got.tex = x /\ got.failed = FALSE
             /\ lost \in Renderer /\ lost.tex = None /\ lost.failed = TRUE
BY DEF Renderer

(* update_texture: the old texture goes, the new one comes, unless it      *)
(* cannot be imported; the renderer fits the surface then.                 *)
LEMMA UpdateFacts ==
  ASSUME TypeOK, NEW s \in SurfaceState, s.tex # None, NEW r \in Renderer,
         NEW objs \in [Kinds -> Nat], Has(objs, r, lapses = 0),
         NEW u \in Update(r, s.tex, objs)
  PROVE  /\ u[1] \in Renderer /\ u[2] \in [Kinds -> Nat]
         /\ Fits(u[1], s)
         /\ Has(u[2], u[1], lapses = 0 /\ ~u[1].failed)
         /\ u[1].failed => lapses < MaxLapses
<1> DEFINE x == s.tex
           gone == [r EXCEPT !.tex = None, !.failed = FALSE]
           got == [gone EXCEPT !.tex = x]
           lost == [gone EXCEPT !.failed = TRUE]
           free == Without(objs, TextureOf(r))
<1>0. /\ lapses \in 0 .. MaxLapses /\ MaxLapses \in Nat /\ x \in Textures /\ r # None
      /\ None \notin Renderer
  BY LayerAssumption DEF TypeOK, SurfaceState
<1> HIDE LayerAssumption
<1>1. /\ got \in Renderer /\ got.tex = x /\ got.failed = FALSE
      /\ lost \in Renderer /\ lost.tex = None /\ lost.failed = TRUE
  BY <1>0, RendererFacts
<1>2. \/ u = <<got, With(free, TextureKinds)>>
      \/ /\ lapses # MaxLapses
         /\ \E n \in 0 .. 2 : u = <<lost, With(free, SubSeq(TextureKinds, 1, n))>>
  BY DEF Update
<1> HIDE DEF x, gone, got, lost
<1>3. /\ free \in [Kinds -> Nat]
      /\ \A k \in Kinds : /\ free[k] >= Times(k, RendererKinds)
                          /\ lapses = 0 => free[k] = Times(k, RendererKinds)
  <2>1. \A k \in Kinds : /\ Holds(r, k) = Times(k, RendererKinds) + Times(k, TextureOf(r))
                         /\ Times(k, TextureOf(r)) \in Nat /\ Times(k, RendererKinds) \in Nat
    BY <1>0, HoldsFacts, TextureCount, KindCounts
  <2>2. \A k \in Kinds : /\ objs[k] >= Times(k, RendererKinds) + Times(k, TextureOf(r))
                         /\ lapses = 0 => objs[k] = Times(k, RendererKinds) + Times(k, TextureOf(r))
    BY <2>1 DEF Has
  <2>3. \A k \in Kinds : objs[k] >= Times(k, TextureOf(r)) /\ objs[k] \in Nat
    BY <2>1, <2>2
  <2>4. free \in [Kinds -> Nat] /\ \A k \in Kinds : free[k] = objs[k] - Times(k, TextureOf(r))
    BY <2>1, <2>3, WithoutFacts
  <2> HIDE DEF free
  <2> QED
    BY <2>1, <2>2, <2>3, <2>4
<1> HIDE DEF free
<1>4. CASE u = <<got, With(free, TextureKinds)>>
  <2>1. \A k \in Kinds : /\ Times(k, TextureKinds) \in Nat /\ Times(k, RendererKinds) \in Nat
                         /\ Holds(got, k) = Times(k, RendererKinds) + Times(k, TextureKinds)
    <3>1. got # None /\ got.tex # None
      BY <1>0, <1>1 DEF x
    <3> QED
      BY <3>1, KindCounts DEF Holds
  <2>2. /\ With(free, TextureKinds) \in [Kinds -> Nat]
        /\ \A k \in Kinds : With(free, TextureKinds)[k] = free[k] + Times(k, TextureKinds)
    BY <1>3, <2>1, WithFacts
  <2>3. u[1] = got /\ u[2] = With(free, TextureKinds)
    BY <1>4
  <2>4. Has(u[2], u[1], lapses = 0 /\ ~u[1].failed)
    BY <1>3, <2>1, <2>2, <2>3 DEF Has
  <2>5. Fits(got, s)
    BY <1>0, <1>1 DEF Fits, x
  <2> QED
    BY <1>1, <2>2, <2>3, <2>4, <2>5
<1>5. ASSUME lapses # MaxLapses, NEW n \in 0 .. 2,
             u = <<lost, With(free, SubSeq(TextureKinds, 1, n))>>
      PROVE  /\ u[1] \in Renderer /\ u[2] \in [Kinds -> Nat]
             /\ Fits(u[1], s)
             /\ Has(u[2], u[1], lapses = 0 /\ ~u[1].failed)
             /\ u[1].failed => lapses < MaxLapses
  <2> DEFINE made == SubSeq(TextureKinds, 1, n)
  <2>1. \A k \in Kinds : /\ Times(k, made) \in Nat /\ Times(k, RendererKinds) \in Nat
                         /\ Holds(lost, k) = Times(k, RendererKinds)
    <3>1. lost # None
      BY <1>0, <1>1
    <3>2. \A k \in Kinds : Holds(lost, k) = Times(k, RendererKinds) + 0
      BY <1>1, <3>1 DEF Holds
    <3> QED
      BY <3>2, KindCounts
  <2>2. u[1] = lost /\ u[2] = With(free, made)
    BY <1>5
  <2> HIDE DEF made
  <2>3. /\ With(free, made) \in [Kinds -> Nat]
        /\ \A k \in Kinds : With(free, made)[k] = free[k] + Times(k, made)
    BY <1>3, <2>1, WithFacts
  <2>4. Has(u[2], u[1], lapses = 0 /\ ~u[1].failed)
    BY <1>1, <1>3, <2>1, <2>2, <2>3 DEF Has
  <2>5. Fits(lost, s)
    BY <1>0, <1>1 DEF Fits
  <2>6. lapses < MaxLapses
    BY <1>0, <1>5
  <2> QED
    BY <1>1, <2>2, <2>3, <2>4, <2>5, <2>6
<1> QED
  BY <1>2, <1>4, <1>5

LEMMA FrameFacts ==
  ASSUME TypeOK, NEW c, NEW s \in SurfaceState, NEW r \in Renderer,
         NEW objs \in [Kinds -> Nat], Has(objs, r, lapses = 0), Frame(c, s, r, objs),
         ~s.flag => Fits(r, s)
  PROVE  \E x : Leaves(c, x, s.size, s.hwnd)
<1> HIDE LayerAssumption
<1>1. CASE s.tex = None /\ After(c, s, r, objs, 0, None)
  <2>1. Has(objs, r, lapses = 0 /\ 0 = 0)
    BY DEF Has
  <2>2. Leaves(c, r, s.size, s.hwnd)
    BY <1>1, <2>1, AfterFacts
  <2> QED
    BY <2>2
<1>2. CASE s.tex # None /\ ~s.flag /\ Draw(c, s, r, objs, 0)
  <2>1. Has(objs, r, lapses = 0 /\ 0 = 0)
    BY DEF Has
  <2>2. Leaves(c, r, s.size, s.hwnd)
    BY <1>2, <2>1, DrawFacts
  <2> QED
    BY <2>2
<1>3. ASSUME s.tex # None, NEW u \in Update(r, s.tex, objs),
             Draw(c, s, u[1], u[2], IF u[1].failed THEN 1 ELSE 0)
      PROVE  Leaves(c, u[1], s.size, s.hwnd)
  <2> DEFINE fails == IF u[1].failed THEN 1 ELSE 0
  <2>1. /\ u[1] \in Renderer /\ u[2] \in [Kinds -> Nat] /\ Fits(u[1], s)
        /\ Has(u[2], u[1], lapses = 0 /\ ~u[1].failed)
        /\ u[1].failed => lapses < MaxLapses
    BY <1>3, UpdateFacts
  <2>2. u[1].failed \in BOOLEAN
    BY <2>1 DEF Renderer
  <2>3. fails \in {0, 1} /\ (fails = 1 <=> u[1].failed) /\ (fails = 0 <=> ~u[1].failed)
    BY <2>2
  <2>4. Draw(c, s, u[1], u[2], fails)
    BY <1>3
  <2> HIDE DEF fails
  <2>5. Has(u[2], u[1], lapses = 0 /\ fails = 0)
    BY <2>1, <2>3 DEF Has
  <2> QED
    BY <2>1, <2>3, <2>4, <2>5, DrawFacts
<1> QED
  BY <1>1, <1>2, <1>3 DEF Frame

(* What a present leaves.  The surface is the one there was, or one with   *)
(* the size of the swapchain and the window of the table.                  *)
PresentLeaves(c) ==
  \/ /\ state = None /\ state' = None
     /\ UNCHANGED <<objects, lapses>> /\ ShowsCommitted'
     /\ chainMap' = [chainMap EXCEPT ![c].rend = chainMap[c].rend]
  \/ state # None /\ \E x : Leaves(c, x, state.size, state.hwnd)
  \/ state = None /\ surfMap # None /\ \E x : Leaves(c, x, chainMap[c].size, surfMap)

LEMMA PresentFacts ==
  ASSUME TypeOK, OneChain, TextureTaken, Counted, NEW c \in Chains, Present(c)
  PROVE  /\ PresentLeaves(c)
         /\ SurfaceReady /\ ChainReady(c) /\ chainMap[c] # None
         /\ UNCHANGED <<driver, busy, instTable, physMap, devTable, queueMap, surfMap, raced>>
<1> DEFINE s == Setup(c)
           r == chainMap[c].rend
           new == [tex |-> None, failed |-> FALSE]
           made == With(objects, RendererKinds)
<1>0. /\ chainMap \in [Chains -> Entry \cup {None}] /\ state \in SurfaceState \cup {None}
      /\ surfMap \in Hwnds \cup {None} /\ objects \in [Kinds -> Nat]
      /\ None \notin Renderer /\ None \notin Entry /\ None \notin SurfaceState
  BY LayerAssumption DEF TypeOK
<1> HIDE LayerAssumption
<1>1. /\ SurfaceReady /\ ChainReady(c) /\ chainMap[c] # None
      /\ UNCHANGED <<driver, busy, instTable, physMap, devTable, queueMap, surfMap, raced>>
  BY DEF Present
<1>2. /\ chainMap[c] \in Entry /\ r \in Renderer \cup {None} /\ chainMap[c].size \in Sizes
  BY <1>0, <1>1 DEF Entry
<1>3. \/ s = None /\ After(c, s, r, objects, 0, None)
      \/ s # None /\ r # None /\ Frame(c, s, r, objects)
      \/ s # None /\ r = None /\ Frame(c, s, new, made)
      \/ /\ s # None /\ r = None /\ lapses < MaxLapses
         /\ \E ks \in PartlyMade : After(c, s, None, With(objects, ks), 1, None)
  BY DEF Present
<1>4. /\ state # None => s = state
      /\ state = None /\ surfMap = None => s = None
      /\ state = None /\ surfMap # None =>
           s \in SurfaceState /\ s.size = chainMap[c].size /\ s.hwnd = surfMap /\ s.flag
  <2>1. state = None /\ surfMap # None =>
          s = [size |-> chainMap[c].size, hwnd |-> surfMap, tex |-> None, flag |-> TRUE]
    BY DEF Setup
  <2> QED
    BY <1>0, <1>2, <2>1 DEF Setup, SurfaceState
<1>5. Has(objects, r, lapses = 0)
  BY <1>1 DEF Counted
<1>6. s # None => s \in SurfaceState /\ (~s.flag => Fits(r, s))
  <2>1. CASE state # None
    <3>1. s = state /\ s \in SurfaceState
      BY <1>0, <1>4, <2>1
    <3>2. ASSUME ~state.flag
          PROVE  Fits(r, state)
      <4>1. PICK d \in Chains :
               /\ chainMap[d] # None /\ chainMap[d].rend # None
               /\ chainMap[d].rend.tex = IF chainMap[d].rend.failed THEN None ELSE state.tex
        BY <2>1, <3>2 DEF TextureTaken
      <4>2. d = c
        BY <1>1, <4>1 DEF OneChain
      <4> QED
        BY <4>1, <4>2 DEF Fits
    <3> QED
      BY <3>1, <3>2
  <2>2. CASE state = None
    BY <1>4, <2>2
  <2> QED
    BY <2>1, <2>2
<1>7. \A k \in Kinds : Times(k, RendererKinds) \in Nat
  BY KindCounts
<1> HIDE DEF s, r, new, made
<1>8. CASE s = None /\ After(c, s, r, objects, 0, None)
  <2>1. state = None /\ surfMap = None
    BY <1>0, <1>4, <1>8
  <2>2. lapses' = lapses
    <3>1. lapses' = lapses + 0 /\ lapses \in Nat
      BY <1>8, LayerAssumption DEF After, TypeOK
    <3> QED
      BY <3>1
  <2>3. state' = None /\ objects' = objects /\ chainMap' = [chainMap EXCEPT ![c].rend = r] /\ drawn' = None
    BY <1>8 DEF After
  <2> QED
    BY <1>1, <2>1, <2>2, <2>3 DEF PresentLeaves, ShowsCommitted, r
<1>9. CASE s # None
  <2>1. \E x : Leaves(c, x, s.size, s.hwnd)
    <3>1. CASE r # None /\ Frame(c, s, r, objects)
      BY <1>0, <1>2, <1>5, <1>6, <1>9, <3>1, FrameFacts
    <3>2. CASE r = None /\ Frame(c, s, new, made)
      <4>1. new \in Renderer /\ new.tex = None
        BY DEF new, Renderer
      <4>2. s.flag
        BY <1>6, <1>9, <3>2 DEF Fits, SurfaceState
      <4>3. made \in [Kinds -> Nat] /\ \A k \in Kinds : made[k] = objects[k] + Times(k, RendererKinds)
        BY <1>0, <1>7, WithFacts DEF made
      <4>4. Has(made, new, lapses = 0)
        <5>1. \A k \in Kinds : Holds(new, k) = Times(k, RendererKinds) + 0
          BY <1>0, <4>1 DEF Holds
        <5>2. \A k \in Kinds : objects[k] >= 0 /\ (lapses = 0 => objects[k] = 0)
          BY <1>5, <3>2, HoldsFacts DEF Has
        <5> QED
          BY <1>0, <1>7, <4>3, <5>1, <5>2 DEF Has
      <4> QED
        BY <1>6, <1>9, <3>2, <4>1, <4>2, <4>3, <4>4, FrameFacts
    <3>3. ASSUME r = None, lapses < MaxLapses, NEW ks \in PartlyMade,
                 After(c, s, None, With(objects, ks), 1, None)
          PROVE  Leaves(c, None, s.size, s.hwnd)
      <4> DEFINE objs == With(objects, ks)
      <4>1. s.flag
        BY <1>6, <1>9, <3>3 DEF Fits, SurfaceState
      <4>2. objs \in [Kinds -> Nat]
        BY <1>0, KindCounts, WithFacts
      <4>3. After(c, s, None, objs, 1, None)
        BY <3>3
      <4> HIDE DEF objs
      <4>4. Has(objs, None, lapses = 0 /\ 1 = 0)
        BY <4>2, HoldsFacts DEF Has
      <4> QED
        BY <1>6, <1>9, <3>3, <4>1, <4>2, <4>3, <4>4, AfterFacts
    <3> QED
      BY <1>3, <1>9, <3>1, <3>2, <3>3
  <2> QED
    BY <1>1, <1>4, <1>9, <2>1 DEF PresentLeaves
<1> QED
  BY <1>1, <1>3, <1>8, <1>9
-----------------------------------------------------------------------------
(***************************************************************************)
(* The calls under way.  A step moves one thread, within the calls of one  *)
(* kind of object; the threads in calls of the other kinds stay.           *)
(***************************************************************************)
Call == {NoCall} \cup [at : Calls, c : Chains \cup {None}, size : Sizes \cup {None}]

InstanceStep(t) ==
  \/ CreateInstance(t) \/ Enumerate(t) \/ FillInstance(t)
  \/ DestroyInstance(t) \/ InstanceGone(t) \/ ForgetDevices(t)
DeviceStep(t) ==
  \/ CreateDevice(t) \/ GetQueues(t) \/ FillDevice(t)
  \/ DestroyDevice(t) \/ ForgetQueues(t) \/ DeviceGone(t)
SurfaceStep(t) ==
  \/ CreateSurface(t) \/ MapSurface(t)
  \/ DestroySurface(t) \/ UnmapSurface(t) \/ CleanSurface(t)
ChainStep(t) ==
  \/ CreateChain(t) \/ MakeChain(t) \/ MapChain(t) \/ Resize(t)
  \/ DestroyChain(t) \/ ChainGone(t)

Same(steps) ==
  \A u \in Threads : busy[u].at \in steps \/ busy'[u].at \in steps => busy'[u] = busy[u]

LEMMA GoesFacts ==
  ASSUME busy \in [Threads -> Call], NEW t \in Threads, NEW s, Goes(t, s)
  PROVE  /\ busy'[t].at = s /\ busy'[t].c = busy[t].c /\ busy'[t].size = busy[t].size
         /\ \A u \in Threads : u # t => busy'[u] = busy[u]
         /\ s \in Calls => busy' \in [Threads -> Call]
<1> DEFINE next == [busy[t] EXCEPT !.at = s]
<1>1. busy' = [busy EXCEPT ![t] = next]
  BY DEF Goes
<1>2. busy[t] \in [at : Calls \cup {""}, c : Chains \cup {None}, size : Sizes \cup {None}]
  <2>1. busy[t] \in Call
    OBVIOUS
  <2>2. NoCall \in [at : Calls \cup {""}, c : Chains \cup {None}, size : Sizes \cup {None}]
    BY DEF NoCall
  <2> QED
    BY <2>1, <2>2 DEF Call
<1>3. next.at = s /\ next.c = busy[t].c /\ next.size = busy[t].size
  BY <1>2
<1>4. s \in Calls => next \in Call
  BY <1>2 DEF Call
<1> HIDE DEF next
<1> QED
  BY <1>1, <1>3, <1>4

LEMMA ReturnFacts ==
  ASSUME busy \in [Threads -> Call], NEW t \in Threads, Returns(t)
  PROVE  /\ busy'[t].at = ""
         /\ \A u \in Threads : u # t => busy'[u] = busy[u]
         /\ busy' \in [Threads -> Call]
BY DEF Returns, Call, NoCall

LEMMA StartFacts ==
  ASSUME busy \in [Threads -> Call], NEW t \in Threads, NEW s, NEW c, NEW z,
         busy' = [busy EXCEPT ![t] = [at |-> s, c |-> c, size |-> z]]
  PROVE  /\ busy'[t].at = s /\ busy'[t].c = c /\ busy'[t].size = z
         /\ \A u \in Threads : u # t => busy'[u] = busy[u]
         /\ s \in Calls /\ c \in Chains \cup {None} /\ z \in Sizes \cup {None}
              => busy' \in [Threads -> Call]
BY DEF Call, NoCall

LEMMA InCallSame ==
  ASSUME NEW S, NEW T, T \subseteq S, Same(S)
  PROVE  /\ InCall(T)' <=> InCall(T)
         /\ OneIn(T)' <=> OneIn(T)
BY DEF Same, InCall, OneIn

(* What a step of each kind leaves alone. *)
LEMMA InstanceFrame ==
  ASSUME busy \in [Threads -> Call], NEW t \in Threads, InstanceStep(t)
  PROVE  /\ Same(DevicePhases) /\ Same(SurfaceCalls) /\ Same(ChainCalls)
         /\ busy' \in [Threads -> Call]
         /\ UNCHANGED <<device, surface, chains, retired, devTable, queueMap, surfMap, chainMap,
                        state, objects, lapses>>
<1>1. CASE CreateInstance(t)
  BY <1>1, GoesFacts DEF CreateInstance, At, Same, DevicePhases, SurfaceCalls, ChainCalls, Calls, tables
<1>2. CASE Enumerate(t)
  BY <1>2, GoesFacts DEF Enumerate, At, Same, DevicePhases, SurfaceCalls, ChainCalls, Calls, driver, rest
<1>3. CASE FillInstance(t)
  BY <1>3, ReturnFacts DEF FillInstance, At, Same, DevicePhases, SurfaceCalls, ChainCalls, driver, rest
<1>4. CASE DestroyInstance(t)
  <2>1. /\ At(t, "") /\ Goes(t, "destroy instance") /\ "destroy instance" \in Calls
        /\ UNCHANGED <<driver, physMap, devTable, queueMap, surfMap, chainMap, rest>>
    BY <1>4 DEF DestroyInstance, Calls
  <2> QED
    BY <2>1, GoesFacts DEF At, Same, DevicePhases, SurfaceCalls, ChainCalls, driver, rest
<1>5. CASE InstanceGone(t)
  BY <1>5, GoesFacts DEF InstanceGone, At, Same, DevicePhases, SurfaceCalls, ChainCalls, Calls, tables, rest
<1>6. CASE ForgetDevices(t)
  BY <1>6, ReturnFacts DEF ForgetDevices, At, Same, DevicePhases, SurfaceCalls, ChainCalls, driver, rest
<1> QED
  BY <1>1, <1>2, <1>3, <1>4, <1>5, <1>6 DEF InstanceStep

LEMMA DeviceFrame ==
  ASSUME busy \in [Threads -> Call], NEW t \in Threads, DeviceStep(t)
  PROVE  /\ Same(InstanceCalls) /\ Same(SurfaceCalls) /\ Same(ChainCalls)
         /\ busy' \in [Threads -> Call]
         /\ UNCHANGED <<instance, surface, chains, retired, instTable, physMap, surfMap, chainMap, rest>>
<1>1. CASE CreateDevice(t)
  BY <1>1, GoesFacts DEF CreateDevice, At, Same, InstanceCalls, InstancePhases, SurfaceCalls, ChainCalls, Calls, tables, rest
<1>2. CASE GetQueues(t)
  BY <1>2, GoesFacts DEF GetQueues, At, Same, InstanceCalls, InstancePhases, SurfaceCalls, ChainCalls, Calls, driver, rest
<1>3. CASE FillDevice(t)
  BY <1>3, ReturnFacts DEF FillDevice, At, Same, InstanceCalls, InstancePhases, SurfaceCalls, ChainCalls, driver, rest
<1>4. CASE DestroyDevice(t)
  BY <1>4, GoesFacts DEF DestroyDevice, At, Same, InstanceCalls, InstancePhases, SurfaceCalls, ChainCalls, Calls, driver, rest
<1>5. CASE ForgetQueues(t)
  BY <1>5, GoesFacts DEF ForgetQueues, At, Same, InstanceCalls, InstancePhases, SurfaceCalls, ChainCalls, Calls, driver, rest
<1>6. CASE DeviceGone(t)
  BY <1>6, ReturnFacts DEF DeviceGone, At, Same, InstanceCalls, InstancePhases, SurfaceCalls, ChainCalls, tables, rest
<1> QED
  BY <1>1, <1>2, <1>3, <1>4, <1>5, <1>6 DEF DeviceStep

LEMMA SurfaceFrame ==
  ASSUME busy \in [Threads -> Call], NEW t \in Threads, SurfaceStep(t)
  PROVE  /\ Same(InstanceCalls) /\ Same(DevicePhases) /\ Same(ChainCalls)
         /\ busy' \in [Threads -> Call]
         /\ UNCHANGED <<instance, device, chains, retired, instTable, physMap, devTable, queueMap,
                        chainMap, objects, lapses>>
<1>1. CASE CreateSurface(t)
  BY <1>1, GoesFacts DEF CreateSurface, At, Same, InstanceCalls, InstancePhases, DevicePhases, ChainCalls, Calls, tables
<1>2. CASE MapSurface(t)
  BY <1>2, ReturnFacts DEF MapSurface, At, Same, InstanceCalls, InstancePhases, DevicePhases, ChainCalls, driver, rest
<1>3. CASE DestroySurface(t)
  BY <1>3, GoesFacts DEF DestroySurface, At, Same, InstanceCalls, InstancePhases, DevicePhases, ChainCalls, Calls, tables, rest
<1>4. CASE UnmapSurface(t)
  BY <1>4, GoesFacts DEF UnmapSurface, At, Same, InstanceCalls, InstancePhases, DevicePhases, ChainCalls, Calls, driver, rest
<1>5. CASE CleanSurface(t)
  BY <1>5, ReturnFacts DEF CleanSurface, At, Same, InstanceCalls, InstancePhases, DevicePhases, ChainCalls, driver, tables
<1> QED
  BY <1>1, <1>2, <1>3, <1>4, <1>5 DEF SurfaceStep

LEMMA ChainFrame ==
  ASSUME busy \in [Threads -> Call], NEW t \in Threads, ChainStep(t)
  PROVE  /\ Same(InstanceCalls) /\ Same(DevicePhases) /\ Same(SurfaceCalls)
         /\ busy' \in [Threads -> Call]
         /\ UNCHANGED <<instance, device, surface, instTable, physMap, devTable, queueMap, surfMap,
                        lapses, raced>>
<1>1. CASE CreateChain(t)
  <2>1. PICK c \in Chains, z \in Sizes : busy' = [busy EXCEPT ![t] = [at |-> "make chain", c |-> c, size |-> z]]
    BY <1>1 DEF CreateChain
  <2>2. /\ busy'[t].at = "make chain" /\ \A u \in Threads : u # t => busy'[u] = busy[u]
        /\ busy' \in [Threads -> Call]
    BY <2>1, StartFacts DEF Calls
  <2>3. /\ At(t, "")
        /\ UNCHANGED <<instance, device, surface, chains, instTable, physMap, devTable, queueMap,
                       surfMap, lapses, raced>>
    BY <1>1 DEF CreateChain
  <2> QED
    BY <2>2, <2>3 DEF At, Same, InstanceCalls, InstancePhases, DevicePhases, SurfaceCalls
<1>2. CASE MakeChain(t)
  <2>1. Goes(t, "map chain") \/ Returns(t)
    BY <1>2 DEF MakeChain
  <2>2. /\ busy'[t].at \in {"map chain", ""} /\ \A u \in Threads : u # t => busy'[u] = busy[u]
        /\ busy' \in [Threads -> Call]
    BY <2>1, GoesFacts, ReturnFacts DEF Calls
  <2> QED
    BY <1>2, <2>2 DEF MakeChain, At, Same, InstanceCalls, InstancePhases, DevicePhases, SurfaceCalls, tables, rest
<1>3. CASE MapChain(t)
  BY <1>3, GoesFacts DEF MapChain, At, Same, InstanceCalls, InstancePhases, DevicePhases, SurfaceCalls, Calls, driver, rest
<1>4. CASE Resize(t)
  BY <1>4, ReturnFacts DEF Resize, At, Same, InstanceCalls, InstancePhases, DevicePhases, SurfaceCalls, driver, tables
<1>5. CASE DestroyChain(t)
  <2>1. PICK c \in Chains : busy' = [busy EXCEPT ![t] = [at |-> "destroy chain", c |-> c, size |-> None]]
    BY <1>5 DEF DestroyChain
  <2>2. /\ busy'[t].at = "destroy chain" /\ \A u \in Threads : u # t => busy'[u] = busy[u]
        /\ busy' \in [Threads -> Call]
    BY <2>1, StartFacts DEF Calls
  <2>3. /\ At(t, "")
        /\ UNCHANGED <<driver, instTable, physMap, devTable, queueMap, surfMap, lapses, raced>>
    BY <1>5 DEF DestroyChain
  <2> QED
    BY <2>2, <2>3 DEF At, Same, InstanceCalls, InstancePhases, DevicePhases, SurfaceCalls, driver
<1>6. CASE ChainGone(t)
  BY <1>6, ReturnFacts DEF ChainGone, At, Same, InstanceCalls, InstancePhases, DevicePhases, SurfaceCalls, tables, rest
<1> QED
  BY <1>1, <1>2, <1>3, <1>4, <1>5, <1>6 DEF ChainStep

(* A step is one of these.                                                 *)
LEMMA NextCases ==
  ASSUME Next
  PROVE  \/ \E t \in Threads : InstanceStep(t) \/ DeviceStep(t) \/ SurfaceStep(t) \/ ChainStep(t)
         \/ Commit
         \/ \E c \in Chains : Present(c)
BY DEF Next, Step, InstanceStep, DeviceStep, SurfaceStep, ChainStep

LEMMA SameBusy ==
  ASSUME busy' = busy, NEW S
  PROVE  Same(S)
BY DEF Same

(***************************************************************************)
(* The tables of instances and of devices.                                 *)
(***************************************************************************)
InstanceInv == InstanceAlone /\ InstanceTabled

LEMMA InstanceSame ==
  ASSUME InstanceInv, Same(InstanceCalls), UNCHANGED <<instance, instTable, physMap>>,
         "physical" \in raced' <=> "physical" \in raced
  PROVE  InstanceInv'
<1>1. /\ InCall(InstancePhases)' <=> InCall(InstancePhases)
      /\ OneIn(InstancePhases)' <=> OneIn(InstancePhases)
      /\ InCall({"forget devices"})' <=> InCall({"forget devices"})
      /\ InCall({"enumerate"})' <=> InCall({"enumerate"})
  <2>1. /\ InstancePhases \subseteq InstanceCalls /\ {"forget devices"} \subseteq InstanceCalls
        /\ {"enumerate"} \subseteq InstanceCalls
    BY DEF InstanceCalls, InstancePhases
  <2> QED
    BY <2>1, InCallSame
<1>2. InstanceReady <=> instance /\ ~InCall(InstancePhases)
  BY DEF InstanceReady, InstancePhases
<1>3. InstanceReady' <=> instance' /\ ~InCall(InstancePhases)'
  BY DEF InstanceReady, InstancePhases
<1> QED
  BY <1>1, <1>2, <1>3 DEF InstanceInv, InstanceAlone, InstanceTabled

LEMMA InstanceKept ==
  ASSUME busy \in [Threads -> Call], InstanceInv, NEW t \in Threads, InstanceStep(t)
  PROVE  InstanceInv'
<1>1. CASE CreateInstance(t)
  <2>1. /\ At(t, "") /\ ~instance /\ instance' = TRUE
        /\ "physical" \in raced' <=> InCall({"forget devices"})
        /\ UNCHANGED <<instTable, physMap>>
    BY <1>1 DEF CreateInstance, tables
  <2>2. busy'[t].at = "enumerate" /\ \A u \in Threads : u # t => busy'[u] = busy[u]
    BY <1>1, GoesFacts DEF CreateInstance
  <2> QED
    BY <2>1, <2>2 DEF InstanceInv, InstanceAlone, InstanceTabled, InstanceReady, InCall, OneIn, InstancePhases, At
<1>2. CASE Enumerate(t)
  <2>1. /\ At(t, "enumerate") /\ physMap' = TRUE
        /\ UNCHANGED <<instance, instTable, raced>>
    BY <1>2 DEF Enumerate, driver, rest
  <2>2. busy'[t].at = "instance table" /\ \A u \in Threads : u # t => busy'[u] = busy[u]
    BY <1>2, GoesFacts DEF Enumerate
  <2> QED
    BY <2>1, <2>2 DEF InstanceInv, InstanceAlone, InstanceTabled, InstanceReady, InCall, OneIn, InstancePhases, At
<1>3. CASE FillInstance(t)
  <2>1. /\ At(t, "instance table") /\ instTable' = TRUE
        /\ UNCHANGED <<instance, physMap, raced>>
    BY <1>3 DEF FillInstance, driver, rest
  <2>2. busy'[t].at = "" /\ \A u \in Threads : u # t => busy'[u] = busy[u]
    BY <1>3, ReturnFacts DEF FillInstance
  <2> QED
    BY <2>1, <2>2 DEF InstanceInv, InstanceAlone, InstanceTabled, InstanceReady, InCall, OneIn, InstancePhases, At
<1>4. CASE DestroyInstance(t)
  <2>1. /\ At(t, "") /\ InstanceReady /\ instTable' = FALSE
        /\ UNCHANGED <<instance, physMap, raced>>
    BY <1>4 DEF DestroyInstance, driver, rest
  <2>2. busy'[t].at = "destroy instance" /\ \A u \in Threads : u # t => busy'[u] = busy[u]
    BY <1>4, GoesFacts DEF DestroyInstance
  <2> QED
    BY <2>1, <2>2 DEF InstanceInv, InstanceAlone, InstanceTabled, InstanceReady, InCall, OneIn, InstancePhases, At
<1>5. CASE InstanceGone(t)
  <2>1. /\ At(t, "destroy instance") /\ instance' = FALSE
        /\ UNCHANGED <<instTable, physMap, raced>>
    BY <1>5 DEF InstanceGone, tables, rest
  <2>2. busy'[t].at = "forget devices" /\ \A u \in Threads : u # t => busy'[u] = busy[u]
    BY <1>5, GoesFacts DEF InstanceGone
  <2> QED
    BY <2>1, <2>2 DEF InstanceInv, InstanceAlone, InstanceTabled, InstanceReady, InCall, OneIn, InstancePhases, At
<1>6. CASE ForgetDevices(t)
  <2>1. /\ At(t, "forget devices") /\ physMap' = FALSE
        /\ UNCHANGED <<instance, instTable, raced>>
    BY <1>6 DEF ForgetDevices, driver, rest
  <2>2. busy'[t].at = "" /\ \A u \in Threads : u # t => busy'[u] = busy[u]
    BY <1>6, ReturnFacts DEF ForgetDevices
  <2> QED
    BY <2>1, <2>2 DEF InstanceInv, InstanceAlone, InstanceTabled, InstanceReady, InCall, OneIn, InstancePhases, At
<1> QED
  BY <1>1, <1>2, <1>3, <1>4, <1>5, <1>6 DEF InstanceStep

DeviceInv == DeviceAlone /\ DeviceTabled

LEMMA DeviceSame ==
  ASSUME DeviceInv, Same(DevicePhases), UNCHANGED <<device, devTable, queueMap>>
  PROVE  DeviceInv'
<1>1. /\ InCall(DevicePhases)' <=> InCall(DevicePhases)
      /\ OneIn(DevicePhases)' <=> OneIn(DevicePhases)
      /\ InCall({"get queues", "destroy device"})' <=> InCall({"get queues", "destroy device"})
  <2>1. {"get queues", "destroy device"} \subseteq DevicePhases
    BY DEF DevicePhases
  <2> QED
    BY <2>1, InCallSame
<1>2. DeviceReady <=> device /\ ~InCall(DevicePhases)
  BY DEF DeviceReady, DevicePhases
<1>3. DeviceReady' <=> device' /\ ~InCall(DevicePhases)'
  BY DEF DeviceReady, DevicePhases
<1> QED
  BY <1>1, <1>2, <1>3 DEF DeviceInv, DeviceAlone, DeviceTabled

LEMMA DeviceKept ==
  ASSUME busy \in [Threads -> Call], DeviceInv, NEW t \in Threads, DeviceStep(t)
  PROVE  DeviceInv'
<1>1. CASE CreateDevice(t)
  <2>1. /\ At(t, "") /\ ~device /\ device' = TRUE
        /\ UNCHANGED <<devTable, queueMap>>
    BY <1>1 DEF CreateDevice, tables
  <2>2. busy'[t].at = "get queues" /\ \A u \in Threads : u # t => busy'[u] = busy[u]
    BY <1>1, GoesFacts DEF CreateDevice
  <2> QED
    BY <2>1, <2>2 DEF DeviceInv, DeviceAlone, DeviceTabled, DeviceReady, InCall, OneIn, DevicePhases, At
<1>2. CASE GetQueues(t)
  <2>1. /\ At(t, "get queues") /\ queueMap' = TRUE
        /\ UNCHANGED <<device, devTable>>
    BY <1>2 DEF GetQueues, driver
  <2>2. busy'[t].at = "device table" /\ \A u \in Threads : u # t => busy'[u] = busy[u]
    BY <1>2, GoesFacts DEF GetQueues
  <2> QED
    BY <2>1, <2>2 DEF DeviceInv, DeviceAlone, DeviceTabled, DeviceReady, InCall, OneIn, DevicePhases, At
<1>3. CASE FillDevice(t)
  <2>1. /\ At(t, "device table") /\ devTable' = TRUE
        /\ UNCHANGED <<device, queueMap>>
    BY <1>3 DEF FillDevice, driver
  <2>2. busy'[t].at = "" /\ \A u \in Threads : u # t => busy'[u] = busy[u]
    BY <1>3, ReturnFacts DEF FillDevice
  <2> QED
    BY <2>1, <2>2 DEF DeviceInv, DeviceAlone, DeviceTabled, DeviceReady, InCall, OneIn, DevicePhases, At
<1>4. CASE DestroyDevice(t)
  <2>1. /\ At(t, "") /\ DeviceReady /\ devTable' = FALSE
        /\ UNCHANGED <<device, queueMap>>
    BY <1>4 DEF DestroyDevice, driver
  <2>2. busy'[t].at = "forget queues" /\ \A u \in Threads : u # t => busy'[u] = busy[u]
    BY <1>4, GoesFacts DEF DestroyDevice
  <2> QED
    BY <2>1, <2>2 DEF DeviceInv, DeviceAlone, DeviceTabled, DeviceReady, InCall, OneIn, DevicePhases, At
<1>5. CASE ForgetQueues(t)
  <2>1. /\ At(t, "forget queues") /\ queueMap' = FALSE
        /\ UNCHANGED <<device, devTable>>
    BY <1>5 DEF ForgetQueues, driver
  <2>2. busy'[t].at = "destroy device" /\ \A u \in Threads : u # t => busy'[u] = busy[u]
    BY <1>5, GoesFacts DEF ForgetQueues
  <2> QED
    BY <2>1, <2>2 DEF DeviceInv, DeviceAlone, DeviceTabled, DeviceReady, InCall, OneIn, DevicePhases, At
<1>6. CASE DeviceGone(t)
  <2>1. /\ At(t, "destroy device") /\ device' = FALSE
        /\ UNCHANGED <<devTable, queueMap>>
    BY <1>6 DEF DeviceGone, tables
  <2>2. busy'[t].at = "" /\ \A u \in Threads : u # t => busy'[u] = busy[u]
    BY <1>6, ReturnFacts DEF DeviceGone
  <2> QED
    BY <2>1, <2>2 DEF DeviceInv, DeviceAlone, DeviceTabled, DeviceReady, InCall, OneIn, DevicePhases, At
<1> QED
  BY <1>1, <1>2, <1>3, <1>4, <1>5, <1>6 DEF DeviceStep

LEMMA BusyType ==
  ASSUME TypeOK
  PROVE  busy \in [Threads -> Call]
BY DEF TypeOK, Call

(***************************************************************************)
(* What makes a swapchain be on a device and a surface.                    *)
(***************************************************************************)
HasChains == (\E c \in Chains : chains[c] # None) \/ InCall(ChainCalls)
ParentsReady ==
  /\ device /\ ~InCall(DevicePhases)
  /\ surface # None /\ ~InCall({"map surface"})

LEMMA ParentsForm == Parents <=> (HasChains => ParentsReady)
BY DEF Parents, HasChains, ParentsReady

LEMMA ParentsForm1 == Parents' <=> (HasChains' => ParentsReady')
BY DEF Parents, HasChains, ParentsReady

LEMMA HasChainsSame ==
  ASSUME Same(ChainCalls), UNCHANGED chains
  PROVE  HasChains' <=> HasChains
<1>1. InCall(ChainCalls)' <=> InCall(ChainCalls)
  BY InCallSame
<1> QED
  BY <1>1 DEF HasChains

LEMMA ReadySame ==
  ASSUME Same(DevicePhases), Same(SurfaceCalls), UNCHANGED <<device, surface>>
  PROVE  ParentsReady' <=> ParentsReady
<1>1. InCall(DevicePhases)' <=> InCall(DevicePhases)
  BY InCallSame
<1>2. InCall({"map surface"})' <=> InCall({"map surface"})
  <2>1. {"map surface"} \subseteq SurfaceCalls
    BY DEF SurfaceCalls
  <2> QED
    BY <2>1, InCallSame
<1> QED
  BY <1>1, <1>2 DEF ParentsReady

(* Nothing happens to a device while it has swapchains. *)
LEMMA DeviceChildless ==
  ASSUME Parents, NEW t \in Threads, DeviceStep(t)
  PROVE  ~HasChains
<1>1. ParentsReady => device /\ busy[t].at \notin DevicePhases
  BY DEF ParentsReady, InCall
<1>2. \/ ~device \/ busy[t].at \in DevicePhases
      \/ ~InCall(ChainCalls) /\ \A c \in Chains : chains[c] = None
  <2>1. CASE CreateDevice(t)
    BY <2>1 DEF CreateDevice
  <2>2. CASE GetQueues(t) \/ FillDevice(t) \/ ForgetQueues(t) \/ DeviceGone(t)
    BY <2>2 DEF GetQueues, FillDevice, ForgetQueues, DeviceGone, At, DevicePhases
  <2>3. CASE DestroyDevice(t)
    BY <2>3 DEF DestroyDevice
  <2> QED
    BY <2>1, <2>2, <2>3 DEF DeviceStep
<1> QED
  BY <1>1, <1>2, ParentsForm DEF HasChains

(* A call on a swapchain finds its device and its surface. *)
LEMMA ChainParents ==
  ASSUME Parents, NEW t \in Threads, ChainStep(t)
  PROVE  ParentsReady
<1>1. CASE CreateChain(t)
  <2>1. DeviceReady /\ SurfaceReady
    BY <1>1 DEF CreateChain
  <2> QED
    BY <2>1 DEF DeviceReady, SurfaceReady, ParentsReady, DevicePhases
<1>2. CASE DestroyChain(t)
  <2>1. \E c \in Chains : chains[c] # None
    BY <1>2 DEF DestroyChain, ChainReady
  <2> QED
    BY <2>1, ParentsForm DEF HasChains
<1>3. CASE MakeChain(t) \/ MapChain(t) \/ Resize(t) \/ ChainGone(t)
  <2>1. busy[t].at \in ChainCalls
    BY <1>3 DEF MakeChain, MapChain, Resize, ChainGone, At, ChainCalls
  <2> QED
    BY <2>1, ParentsForm DEF HasChains, InCall
<1> QED
  BY <1>1, <1>2, <1>3 DEF ChainStep

LEMMA NextParents ==
  ASSUME TypeOK, Parents, OneChain, TextureTaken, Counted, Next
  PROVE  Parents'
<1>0. busy \in [Threads -> Call]
  BY BusyType
<1>1. ASSUME NEW t \in Threads, InstanceStep(t)
      PROVE  Parents'
  BY <1>0, <1>1, InstanceFrame, HasChainsSame, ReadySame, ParentsForm, ParentsForm1
<1>2. ASSUME NEW t \in Threads, DeviceStep(t)
      PROVE  Parents'
  <2>1. ~HasChains
    BY <1>2, DeviceChildless
  <2>2. HasChains' <=> HasChains
    BY <1>0, <1>2, DeviceFrame, HasChainsSame
  <2> QED
    BY <2>1, <2>2, ParentsForm1
<1>3. ASSUME NEW t \in Threads, SurfaceStep(t)
      PROVE  Parents'
  <2>1. HasChains' <=> HasChains
    BY <1>0, <1>3, SurfaceFrame, HasChainsSame
  <2>2. CASE CreateSurface(t)
    <3>1. ~HasChains
      BY <2>2, ParentsForm DEF CreateSurface, ParentsReady
    <3> QED
      BY <2>1, <3>1, ParentsForm1
  <2>3. CASE MapSurface(t)
    <3>1. ~HasChains
      BY <2>3, ParentsForm DEF MapSurface, ParentsReady, InCall, At
    <3> QED
      BY <2>1, <3>1, ParentsForm1
  <2>4. CASE DestroySurface(t)
    <3>1. ~HasChains
      BY <2>4 DEF DestroySurface, HasChains
    <3> QED
      BY <2>1, <3>1, ParentsForm1
  <2>5. CASE UnmapSurface(t) \/ CleanSurface(t)
    <3>1. InCall(DevicePhases)' <=> InCall(DevicePhases)
      BY <1>0, <1>3, SurfaceFrame, InCallSame
    <3>2. InCall({"map surface"})' => InCall({"map surface"})
      <4>1. /\ busy'[t].at \in {"clean surface", ""}
            /\ \A u \in Threads : u # t => busy'[u] = busy[u]
        BY <1>0, <2>5, GoesFacts, ReturnFacts DEF UnmapSurface, CleanSurface
      <4> QED
        BY <4>1 DEF InCall
    <3>3. UNCHANGED <<device, surface>>
      BY <2>5 DEF UnmapSurface, CleanSurface, driver
    <3> QED
      BY <2>1, <3>1, <3>2, <3>3, ParentsForm, ParentsForm1 DEF ParentsReady
  <2> QED
    BY <1>3, <2>2, <2>3, <2>4, <2>5 DEF SurfaceStep
<1>4. ASSUME NEW t \in Threads, ChainStep(t)
      PROVE  Parents'
  <2>1. ParentsReady
    BY <1>4, ChainParents
  <2>2. ParentsReady' <=> ParentsReady
    BY <1>0, <1>4, ChainFrame, ReadySame
  <2> QED
    BY <2>1, <2>2, ParentsForm1
<1>5. ASSUME UNCHANGED <<driver, busy>>
      PROVE  Parents'
  BY <1>5 DEF Parents, InCall, driver
<1>6. Commit => UNCHANGED <<driver, busy>>
  BY DEF Commit
<1>7. ASSUME NEW c \in Chains, Present(c)
      PROVE  UNCHANGED <<driver, busy>>
  BY <1>7 DEF Present
<1> QED
  BY <1>1, <1>2, <1>3, <1>4, <1>5, <1>6, <1>7, NextCases

(* What a step of the client or a present leaves alone. *)
LEMMA CommitFrame ==
  ASSUME Commit
  PROVE  UNCHANGED <<driver, busy, tables, objects, lapses, raced>>
BY DEF Commit

LEMMA PresentFrame ==
  ASSUME NEW c \in Chains, Present(c)
  PROVE  UNCHANGED <<driver, busy, instTable, physMap, devTable, queueMap, surfMap, raced>>
BY DEF Present

(* Only CreateInstance decides about the physical device, only             *)
(* CreateSurface about the surface.                                        *)
LEMMA RacedFrame ==
  ASSUME NEW t \in Threads
  PROVE  /\ SurfaceStep(t) => ("physical" \in raced' <=> "physical" \in raced)
         /\ InstanceStep(t) => ("surface" \in raced' <=> "surface" \in raced)
         /\ SurfaceStep(t) \/ InstanceStep(t) =>
              raced' \subseteq raced \cup {"physical", "surface"}
<1>1. SurfaceStep(t) => \/ raced' = raced \/ raced' = raced \cup {"surface"}
                        \/ raced' = raced \ {"surface"}
  BY DEF SurfaceStep, CreateSurface, MapSurface, DestroySurface, UnmapSurface, CleanSurface, rest
<1>2. InstanceStep(t) => \/ raced' = raced \/ raced' = raced \cup {"physical"}
                         \/ raced' = raced \ {"physical"}
  BY DEF InstanceStep, CreateInstance, Enumerate, FillInstance, DestroyInstance, InstanceGone,
         ForgetDevices, rest
<1> QED
  BY <1>1, <1>2

LEMMA NextInstance ==
  ASSUME TypeOK, InstanceInv, Next
  PROVE  InstanceInv'
<1>0. busy \in [Threads -> Call]
  BY BusyType
<1>1. ASSUME NEW t \in Threads, InstanceStep(t)
      PROVE  InstanceInv'
  BY <1>0, <1>1, InstanceKept
<1>2. ASSUME NEW t \in Threads, DeviceStep(t)
      PROVE  InstanceInv'
  BY <1>0, <1>2, DeviceFrame, InstanceSame DEF rest
<1>3. ASSUME NEW t \in Threads, SurfaceStep(t)
      PROVE  InstanceInv'
  BY <1>0, <1>3, SurfaceFrame, RacedFrame, InstanceSame
<1>4. ASSUME NEW t \in Threads, ChainStep(t)
      PROVE  InstanceInv'
  BY <1>0, <1>4, ChainFrame, InstanceSame
<1>5. ASSUME Commit
      PROVE  InstanceInv'
  BY <1>5, CommitFrame, SameBusy, InstanceSame DEF driver, tables
<1>6. ASSUME NEW c \in Chains, Present(c)
      PROVE  InstanceInv'
  BY <1>6, PresentFrame, SameBusy, InstanceSame DEF driver
<1> QED
  BY <1>1, <1>2, <1>3, <1>4, <1>5, <1>6, NextCases

LEMMA NextDevice ==
  ASSUME TypeOK, DeviceInv, Next
  PROVE  DeviceInv'
<1>0. busy \in [Threads -> Call]
  BY BusyType
<1>1. ASSUME NEW t \in Threads, InstanceStep(t)
      PROVE  DeviceInv'
  BY <1>0, <1>1, InstanceFrame, DeviceSame
<1>2. ASSUME NEW t \in Threads, DeviceStep(t)
      PROVE  DeviceInv'
  BY <1>0, <1>2, DeviceKept
<1>3. ASSUME NEW t \in Threads, SurfaceStep(t)
      PROVE  DeviceInv'
  BY <1>0, <1>3, SurfaceFrame, DeviceSame
<1>4. ASSUME NEW t \in Threads, ChainStep(t)
      PROVE  DeviceInv'
  BY <1>0, <1>4, ChainFrame, DeviceSame
<1>5. ASSUME Commit
      PROVE  DeviceInv'
  BY <1>5, CommitFrame, SameBusy, DeviceSame DEF driver, tables
<1>6. ASSUME NEW c \in Chains, Present(c)
      PROVE  DeviceInv'
  BY <1>6, PresentFrame, SameBusy, DeviceSame DEF driver
<1> QED
  BY <1>1, <1>2, <1>3, <1>4, <1>5, <1>6, NextCases

(***************************************************************************)
(* The surface: one call makes it at a time, and the tables know it.       *)
(***************************************************************************)
LEMMA SurfaceAloneSame ==
  ASSUME SurfaceAlone, Same(SurfaceCalls), UNCHANGED surface
  PROVE  SurfaceAlone'
<1>1. InCall({"map surface"})' <=> InCall({"map surface"})
  BY InCallSame DEF SurfaceCalls
<1>2. OneIn({"map surface"})' <=> OneIn({"map surface"})
  BY InCallSame DEF SurfaceCalls
<1> QED
  BY <1>1, <1>2 DEF SurfaceAlone

LEMMA SurfaceAloneKept ==
  ASSUME busy \in [Threads -> Call], None \notin Hwnds, SurfaceAlone, NEW t \in Threads, SurfaceStep(t)
  PROVE  SurfaceAlone'
<1>1. CASE CreateSurface(t)
  <2>1. At(t, "") /\ surface = None /\ surface' \in Hwnds
    BY <1>1 DEF CreateSurface
  <2>2. busy'[t].at = "map surface" /\ \A u \in Threads : u # t => busy'[u] = busy[u]
    BY <1>1, GoesFacts DEF CreateSurface
  <2> QED
    BY <2>1, <2>2 DEF SurfaceAlone, InCall, OneIn
<1>2. CASE MapSurface(t)
  <2>1. At(t, "map surface") /\ UNCHANGED surface
    BY <1>2 DEF MapSurface, driver
  <2>2. busy'[t].at = "" /\ \A u \in Threads : u # t => busy'[u] = busy[u]
    BY <1>2, ReturnFacts DEF MapSurface
  <2> QED
    BY <2>1, <2>2 DEF SurfaceAlone, InCall, OneIn
<1>3. CASE DestroySurface(t)
  <2>1. SurfaceReady
    BY <1>3 DEF DestroySurface
  <2>2. busy'[t].at = "unmap surface" /\ \A u \in Threads : u # t => busy'[u] = busy[u]
    BY <1>3, GoesFacts DEF DestroySurface
  <2> QED
    BY <2>1, <2>2 DEF SurfaceAlone, SurfaceReady, InCall, OneIn
<1>4. CASE UnmapSurface(t) \/ CleanSurface(t)
  <2>1. UNCHANGED surface
    BY <1>4 DEF UnmapSurface, CleanSurface, driver
  <2>2. /\ busy'[t].at \in {"clean surface", ""}
        /\ \A u \in Threads : u # t => busy'[u] = busy[u]
    BY <1>4, GoesFacts, ReturnFacts DEF UnmapSurface, CleanSurface
  <2> QED
    BY <2>1, <2>2 DEF SurfaceAlone, InCall, OneIn
<1> QED
  BY <1>1, <1>2, <1>3, <1>4 DEF SurfaceStep

LEMMA NextSurfaceAlone ==
  ASSUME TypeOK, SurfaceAlone, Next
  PROVE  SurfaceAlone'
<1>0. busy \in [Threads -> Call] /\ None \notin Hwnds
  BY BusyType, LayerAssumption
<1> HIDE LayerAssumption
<1>1. ASSUME NEW t \in Threads, InstanceStep(t)
      PROVE  SurfaceAlone'
  BY <1>0, <1>1, InstanceFrame, SurfaceAloneSame
<1>2. ASSUME NEW t \in Threads, DeviceStep(t)
      PROVE  SurfaceAlone'
  BY <1>0, <1>2, DeviceFrame, SurfaceAloneSame
<1>3. ASSUME NEW t \in Threads, SurfaceStep(t)
      PROVE  SurfaceAlone'
  BY <1>0, <1>3, SurfaceAloneKept
<1>4. ASSUME NEW t \in Threads, ChainStep(t)
      PROVE  SurfaceAlone'
  BY <1>0, <1>4, ChainFrame, SurfaceAloneSame
<1>5. ASSUME Commit
      PROVE  SurfaceAlone'
  BY <1>5, CommitFrame, SameBusy, SurfaceAloneSame DEF driver
<1>6. ASSUME NEW c \in Chains, Present(c)
      PROVE  SurfaceAlone'
  BY <1>6, PresentFrame, SameBusy, SurfaceAloneSame DEF driver
<1> QED
  BY <1>1, <1>2, <1>3, <1>4, <1>5, <1>6, NextCases
-----------------------------------------------------------------------------
(***************************************************************************)
(* The swapchains: one call makes or destroys one at a time, and one of    *)
(* them is in use.                                                         *)
(***************************************************************************)
LEMMA ChainAloneKept ==
  ASSUME busy \in [Threads -> Call], ChainAlone, NEW t \in Threads, ChainStep(t)
  PROVE  /\ ChainAlone' /\ \A u \in Threads : u # t => busy'[u] = busy[u]
         /\ \A u \in Threads : u # t => busy[u].at \notin ChainCalls
<1>1. CASE CreateChain(t) \/ DestroyChain(t)
  <2>1. ~InCall(ChainCalls)
    BY <1>1 DEF CreateChain, DestroyChain, ChainReady
  <2>2. \E n : busy' = [busy EXCEPT ![t] = n]
    BY <1>1 DEF CreateChain, DestroyChain
  <2>3. \A u \in Threads : u # t => busy'[u] = busy[u]
    BY <2>2
  <2> QED
    BY <2>1, <2>3 DEF ChainAlone, OneIn, InCall
<1>2. CASE MakeChain(t) \/ MapChain(t) \/ Resize(t) \/ ChainGone(t)
  <2>1. busy[t].at \in ChainCalls
    BY <1>2 DEF MakeChain, MapChain, Resize, ChainGone, At, ChainCalls
  <2>2. \E s : Goes(t, s) \/ Returns(t)
    BY <1>2 DEF MakeChain, MapChain, Resize, ChainGone
  <2>3. \A u \in Threads : u # t => busy'[u] = busy[u]
    BY <2>2, GoesFacts, ReturnFacts
  <2> QED
    BY <2>1, <2>3 DEF ChainAlone, OneIn
<1> QED
  BY <1>1, <1>2 DEF ChainStep

LEMMA NextChainAlone ==
  ASSUME TypeOK, ChainAlone, Next
  PROVE  ChainAlone'
<1>0. busy \in [Threads -> Call]
  BY BusyType
<1>1. ASSUME Same(ChainCalls)
      PROVE  ChainAlone'
  BY <1>1, InCallSame DEF ChainAlone
<1>2. ASSUME NEW t \in Threads, InstanceStep(t) \/ DeviceStep(t) \/ SurfaceStep(t)
      PROVE  Same(ChainCalls)
  BY <1>0, <1>2, InstanceFrame, DeviceFrame, SurfaceFrame
<1>3. ASSUME NEW t \in Threads, ChainStep(t)
      PROVE  ChainAlone'
  BY <1>0, <1>3, ChainAloneKept
<1>4. Commit \/ (\E c \in Chains : Present(c)) => Same(ChainCalls)
  BY CommitFrame, PresentFrame, SameBusy
<1> QED
  BY <1>1, <1>2, <1>3, <1>4, NextCases

(* What the steps of a swapchain find. *)
LEMMA ChainTypes ==
  ASSUME TypeOK
  PROVE  /\ chains \in [Chains -> Sizes \cup {None}] /\ retired \subseteq Chains
         /\ busy \in [Threads -> Call]
         /\ chainMap \in [Chains -> Entry \cup {None}]
         /\ None \notin Chains /\ None \notin Sizes /\ None \notin Entry
BY BusyType, LayerAssumption DEF TypeOK

(* OneChain does not depend on the renderers. *)
LEMMA OneChainSame ==
  ASSUME OneChain, Same(ChainCalls), UNCHANGED <<chains, retired>>,
         \A c \in Chains : /\ chainMap'[c] # None <=> chainMap[c] # None
                           /\ chainMap[c] # None => chainMap'[c].size = chainMap[c].size
  PROVE  OneChain'
<1>1. \A c : Live(c)' <=> Live(c)
  BY DEF Live
<1>2. \A t \in Threads : ChainPhase(t)'
  <2> SUFFICES ASSUME NEW t \in Threads
               PROVE  ChainPhase(t)'
    OBVIOUS
  <2>1. ChainPhase(t)
    BY DEF OneChain
  <2>2. CASE busy'[t].at \in ChainCalls
    <3>1. busy'[t] = busy[t]
      BY <2>2 DEF Same
    <3> QED
      BY <1>1, <2>1, <3>1 DEF ChainPhase, At
  <2>3. CASE busy'[t].at \notin ChainCalls
    BY <2>3 DEF ChainPhase, At, ChainCalls
  <2> QED
    BY <2>2, <2>3
<1>3. \A c \in Chains : Live(c) =>
       \/ \E t \in Threads : busy'[t].at \in {"map chain", "destroy chain"} /\ busy'[t].c = c
       \/ chainMap'[c] # None /\ chainMap'[c].size = chains[c]
  BY DEF OneChain, Same, ChainCalls
<1> QED
  BY <1>1, <1>2, <1>3 DEF OneChain

LEMMA CreateChainKept ==
  ASSUME TypeOK, ChainAlone, OneChain, Counted, NEW t \in Threads, CreateChain(t)
  PROVE  OneChain' /\ \A d \in Chains : ~Live(d)'
<1>0. /\ busy \in [Threads -> Call] /\ retired \subseteq Chains
      /\ None \notin Chains
  BY ChainTypes
<1> HIDE LayerAssumption
<1>1. PICK c \in Chains, old \in Chains \cup {None}, z \in Sizes :
        /\ chains[c] = None /\ (old # None => chains[old] # None /\ old \notin retired)
        /\ \A o \in Chains \ {old} : chains[o] = None \/ o \in retired
        /\ Cleanup(old)
        /\ busy' = [busy EXCEPT ![t] = [at |-> "make chain", c |-> c, size |-> z]]
        /\ retired' = retired \cup ({old} \ {None})
  BY DEF CreateChain
<1>2. UNCHANGED chains /\ ~InCall(ChainCalls)
  BY DEF CreateChain
<1>3. /\ busy'[t].at = "make chain" /\ busy'[t].c = c /\ busy'[t].size = z
      /\ \A u \in Threads : u # t => busy'[u] = busy[u]
  BY <1>0, <1>1, StartFacts
<1>4. \A d \in Chains : chainMap'[d] = IF d = old THEN None ELSE chainMap[d]
  BY <1>1, CleanupFacts
<1>5. \A d \in Chains : ~Live(d)'
  BY <1>0, <1>1, <1>2 DEF Live
<1>6. \A d \in retired' : chains'[d] # None
  BY <1>1, <1>2 DEF OneChain
<1>7. ASSUME NEW u \in Threads
      PROVE  ChainPhase(u)'
  <2>1. CASE u = t
    BY <1>1, <1>2, <1>3, <1>5, <2>1 DEF ChainPhase, At
  <2>2. CASE u # t
    <3>1. busy'[u].at \notin ChainCalls
      BY <1>2, <1>3, <2>2 DEF InCall
    <3> QED
      BY <3>1 DEF ChainPhase, At, ChainCalls
  <2> QED
    BY <2>1, <2>2
<1>8. \A d \in Chains : chainMap'[d] = None
  <2> SUFFICES ASSUME NEW d \in Chains, d # old, chainMap[d] # None
               PROVE  FALSE
    BY <1>4
  <2>1. Live(d)
    BY DEF OneChain
  <2>2. chains[d] = None \/ d \in retired
    BY <1>1
  <2> QED
    BY <2>1, <2>2 DEF Live
<1> QED
  BY <1>5, <1>6, <1>7, <1>8 DEF OneChain

LEMMA MakeChainKept ==
  ASSUME TypeOK, ChainAlone, OneChain, NEW t \in Threads, MakeChain(t)
  PROVE  OneChain'
<1>0. /\ busy \in [Threads -> Call] /\ chains \in [Chains -> Sizes \cup {None}]
      /\ retired \subseteq Chains /\ None \notin Sizes
  BY ChainTypes
<1> HIDE LayerAssumption
<1> DEFINE c == busy[t].c
           z == busy[t].size
<1>1. /\ c \in Chains /\ z \in Sizes /\ chains[c] = None /\ \A d \in Chains : ~Live(d)
  BY DEF MakeChain, OneChain, ChainPhase
<1>2. \A d \in Chains : chainMap[d] = None
  BY <1>1 DEF OneChain
<1>3. UNCHANGED <<retired, chainMap>>
  BY DEF MakeChain, tables
<1>4. \A u \in Threads : u # t => ChainPhase(u)'
  <2>1. \A u \in Threads : u # t => busy'[u].at \notin ChainCalls
    BY <1>0, ChainAloneKept DEF ChainStep
  <2> QED
    BY <2>1 DEF ChainPhase, At, ChainCalls
<1>5. CASE chains' = [chains EXCEPT ![c] = z] /\ Goes(t, "map chain")
  <2>1. busy'[t].at = "map chain" /\ busy'[t].c = c /\ busy'[t].size = z
    BY <1>0, <1>5, GoesFacts
  <2>2. chains'[c] = z /\ \A d \in Chains : d # c => chains'[d] = chains[d]
    BY <1>0, <1>1, <1>5
  <2>3. c \notin retired
    BY <1>1 DEF OneChain
  <2> HIDE DEF c, z
  <2>4. \A d \in Chains : Live(d)' <=> d = c
    BY <1>0, <1>1, <1>3, <2>2, <2>3 DEF Live
  <2>5. \A d \in retired' : chains'[d] # None
    BY <1>0, <1>3, <2>2, <2>3 DEF OneChain
  <2>6. ChainPhase(t)'
    BY <1>1, <1>2, <1>3, <2>1, <2>2, <2>4 DEF ChainPhase, At
  <2> QED
    BY <1>2, <1>3, <1>4, <2>1, <2>4, <2>5, <2>6 DEF OneChain
<1>6. CASE UNCHANGED chains /\ Returns(t)
  <2>1. busy'[t].at = ""
    BY <1>0, <1>6, ReturnFacts
  <2>2. \A d \in Chains : ~Live(d)'
    BY <1>1, <1>3, <1>6 DEF Live
  <2>3. ChainPhase(t)'
    BY <2>1 DEF ChainPhase, At
  <2>4. \A d \in retired' : chains'[d] # None
    BY <1>3, <1>6 DEF OneChain
  <2> QED
    BY <1>2, <1>3, <1>4, <2>2, <2>3, <2>4 DEF OneChain
<1> QED
  BY <1>5, <1>6 DEF MakeChain

LEMMA MapChainKept ==
  ASSUME TypeOK, ChainAlone, OneChain, NEW t \in Threads, MapChain(t)
  PROVE  /\ OneChain'
         /\ chainMap' \in [Chains -> Entry \cup {None}]
         /\ busy[t].c \in Chains /\ chainMap[busy[t].c] = None
         /\ \A d \in Chains : chainMap'[d] # None => d = busy[t].c /\ chainMap'[d].rend = None
         /\ \A d \in Chains : chainMap[d] = None
<1>0. /\ busy \in [Threads -> Call] /\ chains \in [Chains -> Sizes \cup {None}]
      /\ chainMap \in [Chains -> Entry \cup {None}] /\ None \notin Sizes /\ None \notin Entry
  BY ChainTypes
<1> HIDE LayerAssumption
<1> DEFINE c == busy[t].c
           z == busy[t].size
           e == [size |-> z, rend |-> None]
<1>1. /\ c \in Chains /\ Live(c) /\ chains[c] = z /\ chainMap[c] = None
  BY DEF MapChain, OneChain, ChainPhase, At
<1>2. e \in Entry /\ e.size = z /\ e.rend = None
  BY <1>0, <1>1 DEF Entry, Live
<1>3. /\ chainMap' = [chainMap EXCEPT ![c] = e]
      /\ UNCHANGED <<chains, retired>>
  BY DEF MapChain, driver
<1>4. \A u \in Threads : u # t => ChainPhase(u)'
  <2>1. \A u \in Threads : u # t => busy'[u].at \notin ChainCalls
    BY <1>0, ChainAloneKept DEF ChainStep
  <2> QED
    BY <2>1 DEF ChainPhase, At, ChainCalls
<1>5. busy'[t].at = "resize" /\ busy'[t].c = c /\ busy'[t].size = z
  BY <1>0, GoesFacts DEF MapChain
<1> HIDE DEF c, z, e
<1>6. \A d \in Chains : (Live(d)' <=> Live(d)) /\ (Live(d) => d = c)
  BY <1>1, <1>3 DEF Live, OneChain
<1>7. \A d \in Chains : chainMap[d] = None
  BY <1>1, <1>6 DEF OneChain
<1>8. /\ chainMap' \in [Chains -> Entry \cup {None}] /\ chainMap'[c] = e
      /\ \A d \in Chains : d # c => chainMap'[d] = None
  BY <1>0, <1>1, <1>2, <1>3, <1>7
<1>9. ChainPhase(t)'
  BY <1>1, <1>3, <1>5, <1>6 DEF ChainPhase, At
<1>10. \A d \in retired' : chains'[d] # None
  BY <1>3 DEF OneChain
<1>11. e # None
  BY <1>0, <1>2
<1>12. OneChain'
  BY <1>1, <1>2, <1>3, <1>4, <1>6, <1>8, <1>9, <1>10, <1>11 DEF OneChain
<1> QED
  BY <1>1, <1>2, <1>7, <1>8, <1>12 DEF c

LEMMA ResizeKept ==
  ASSUME TypeOK, ChainAlone, OneChain, NEW t \in Threads, Resize(t)
  PROVE  OneChain'
<1>0. busy \in [Threads -> Call]
  BY ChainTypes
<1> HIDE LayerAssumption
<1>1. At(t, "resize") /\ UNCHANGED <<chains, retired, chainMap>>
  BY DEF Resize, driver, tables
<1>2. \A u \in Threads : u # t => busy'[u] = busy[u] /\ busy[u].at \notin ChainCalls
  BY <1>0, ChainAloneKept DEF ChainStep
<1>3. busy'[t].at = ""
  BY <1>0, ReturnFacts DEF Resize
<1>4. \A d : Live(d)' <=> Live(d)
  BY <1>1 DEF Live
<1>5. \A u \in Threads : ChainPhase(u)'
  BY <1>2, <1>3 DEF ChainPhase, At, ChainCalls
<1>6. \A c \in Chains : Live(c) => chainMap[c] # None /\ chainMap[c].size = chains[c]
  BY <1>1, <1>2 DEF OneChain, At, ChainCalls
<1> QED
  BY <1>1, <1>4, <1>5, <1>6 DEF OneChain

LEMMA DestroyChainKept ==
  ASSUME TypeOK, ChainAlone, OneChain, Counted, NEW t \in Threads, DestroyChain(t)
  PROVE  OneChain'
<1>0. busy \in [Threads -> Call]
  BY ChainTypes
<1> HIDE LayerAssumption
<1>1. PICK c \in Chains :
        /\ ChainReady(c) /\ Cleanup(c)
        /\ busy' = [busy EXCEPT ![t] = [at |-> "destroy chain", c |-> c, size |-> None]]
  BY DEF DestroyChain
<1>2. UNCHANGED <<chains, retired>> /\ ~InCall(ChainCalls) /\ chains[c] # None
  BY <1>1 DEF DestroyChain, ChainReady, driver
<1>3. busy'[t].at = "destroy chain" /\ busy'[t].c = c
  BY <1>0, <1>1, StartFacts
<1>4. \A d \in Chains : chainMap'[d] = IF d = c THEN None ELSE chainMap[d]
  BY <1>1, CleanupFacts
<1>5. \A d : Live(d)' <=> Live(d)
  BY <1>2 DEF Live
<1>6. \A u \in Threads : ChainPhase(u)'
  <2>1. \A u \in Threads : u # t => busy'[u].at \notin ChainCalls
    BY <1>0, ChainAloneKept DEF ChainStep
  <2>2. \A u \in Threads : u # t => ChainPhase(u)'
    BY <2>1 DEF ChainPhase, At, ChainCalls
  <2>3. ChainPhase(t)'
    BY <1>2, <1>3, <1>4 DEF ChainPhase, At
  <2> QED
    BY <2>2, <2>3
<1>7. \A d \in Chains : Live(d) /\ d # c => chainMap[d] # None /\ chainMap[d].size = chains[d]
  BY <1>2 DEF OneChain, InCall, ChainCalls
<1>8. \A d \in Chains : Live(d) =>
       \/ \E u \in Threads : busy'[u].at \in {"map chain", "destroy chain"} /\ busy'[u].c = d
       \/ chainMap'[d] # None /\ chainMap'[d].size = chains[d]
  BY <1>3, <1>4, <1>7
<1> QED
  BY <1>2, <1>4, <1>5, <1>6, <1>8 DEF OneChain

LEMMA ChainGoneKept ==
  ASSUME TypeOK, ChainAlone, OneChain, NEW t \in Threads, ChainGone(t)
  PROVE  OneChain' /\ \A d \in Chains : Live(d)' => Live(d) /\ chains'[d] = chains[d]
<1>0. /\ busy \in [Threads -> Call] /\ chains \in [Chains -> Sizes \cup {None}]
      /\ retired \subseteq Chains
  BY ChainTypes
<1> HIDE LayerAssumption
<1> DEFINE c == busy[t].c
<1>1. /\ At(t, "destroy chain") /\ retired' = retired \ {c} /\ UNCHANGED chainMap
      /\ chains' = [chains EXCEPT ![c] = None]
  BY DEF ChainGone, tables
<1>2. c \in Chains /\ chains[c] # None /\ chainMap[c] = None
  BY <1>1 DEF OneChain, ChainPhase
<1>3. \A u \in Threads : u # t => busy'[u] = busy[u] /\ busy[u].at \notin ChainCalls
  BY <1>0, ChainAloneKept DEF ChainStep
<1>4. busy'[t].at = ""
  BY <1>0, ReturnFacts DEF ChainGone
<1>5. \A u \in Threads : ChainPhase(u)'
  BY <1>3, <1>4 DEF ChainPhase, At, ChainCalls
<1>6. \A d \in Chains : chains'[d] = IF d = c THEN None ELSE chains[d]
  BY <1>0, <1>1, <1>2
<1>7. \A d \in Chains : d # c /\ Live(d) => chainMap[d] # None /\ chainMap[d].size = chains[d]
  <2>1. \A u \in Threads : busy[u].at \in {"map chain", "destroy chain"} => busy[u].c = c
    BY <1>3 DEF ChainCalls
  <2> QED
    BY <2>1 DEF OneChain
<1> HIDE DEF c
<1>8. \A d \in Chains : Live(d)' <=> d # c /\ Live(d)
  BY <1>0, <1>1, <1>6 DEF Live
<1>9. \A d \in retired' : chains'[d] # None
  BY <1>0, <1>1, <1>6 DEF OneChain
<1>10. OneChain'
  BY <1>1, <1>2, <1>5, <1>6, <1>7, <1>8, <1>9 DEF OneChain
<1> QED
  BY <1>6, <1>8, <1>10

(* A present changes the renderer of one entry. *)
LEMMA RendererSet ==
  ASSUME TypeOK, NEW c \in Chains, chainMap[c] # None, NEW r \in Renderer \cup {None},
         chainMap' = [chainMap EXCEPT ![c].rend = r]
  PROVE  /\ chainMap' \in [Chains -> Entry \cup {None}]
         /\ chainMap'[c] # None /\ chainMap'[c].rend = r /\ chainMap'[c].size = chainMap[c].size
         /\ \A d \in Chains : d # c => chainMap'[d] = chainMap[d]
<1> DEFINE e == [chainMap[c] EXCEPT !.rend = r]
<1>0. chainMap \in [Chains -> Entry \cup {None}] /\ None \notin Entry
  BY ChainTypes
<1> HIDE LayerAssumption
<1>1. e \in Entry /\ e.rend = r /\ e.size = chainMap[c].size
  BY <1>0 DEF Entry
<1>2. chainMap' = [chainMap EXCEPT ![c] = e]
  BY <1>0
<1> HIDE DEF e
<1> QED
  BY <1>0, <1>1, <1>2

LEMMA PresentEntry ==
  ASSUME TypeOK, NEW c \in Chains, chainMap[c] # None, PresentLeaves(c)
  PROVE  \E r \in Renderer \cup {None} : chainMap' = [chainMap EXCEPT ![c].rend = r]
<1>0. chainMap[c].rend \in Renderer \cup {None}
  BY ChainTypes DEF Entry
<1> QED
  BY <1>0 DEF PresentLeaves, Leaves

LEMMA NextOneChain ==
  ASSUME TypeOK, ChainAlone, OneChain, TextureTaken, Counted, Next
  PROVE  OneChain'
<1>0. busy \in [Threads -> Call] /\ chainMap \in [Chains -> Entry \cup {None}] /\ None \notin Entry
  BY ChainTypes
<1> HIDE LayerAssumption
<1>1. ASSUME NEW t \in Threads, InstanceStep(t) \/ DeviceStep(t) \/ SurfaceStep(t)
      PROVE  OneChain'
  BY <1>0, <1>1, InstanceFrame, DeviceFrame, SurfaceFrame, OneChainSame
<1>2. ASSUME NEW t \in Threads, ChainStep(t)
      PROVE  OneChain'
  BY <1>2, CreateChainKept, MakeChainKept, MapChainKept, ResizeKept, DestroyChainKept, ChainGoneKept
     DEF ChainStep
<1>3. ASSUME Commit
      PROVE  OneChain'
  BY <1>3, CommitFrame, SameBusy, OneChainSame DEF driver, tables
<1>4. ASSUME NEW c \in Chains, Present(c)
      PROVE  OneChain'
  <2>1. chainMap[c] # None /\ UNCHANGED <<chains, retired, busy>> /\ PresentLeaves(c)
    BY <1>4, PresentFacts DEF driver
  <2>2. PICK r \in Renderer \cup {None} : chainMap' = [chainMap EXCEPT ![c].rend = r]
    BY <2>1, PresentEntry
  <2>3. \A d \in Chains : /\ chainMap'[d] # None <=> chainMap[d] # None
                          /\ chainMap[d] # None => chainMap'[d].size = chainMap[d].size
    BY <2>1, <2>2, RendererSet
  <2> QED
    BY <2>1, <2>3, SameBusy, OneChainSame
<1> QED
  BY <1>1, <1>2, <1>3, <1>4, NextCases
-----------------------------------------------------------------------------
(***************************************************************************)
(* What the tables and the overlay hold of the surface.                    *)
(***************************************************************************)
(* What SurfaceTabled says of the state and the swapchains. *)
SizeAgrees == \A c \in Chains : Live(c) /\ ~InCall({"map chain", "resize"}) => state.size = chains[c]

LEMMA SurfaceTabledSame ==
  ASSUME SurfaceTabled, Same(SurfaceCalls), UNCHANGED <<surface, surfMap>>,
         "surface" \in raced' <=> "surface" \in raced,
         state' = None <=> state = None,
         state # None => state'.hwnd = state.hwnd,
         state # None /\ SizeAgrees => SizeAgrees'
  PROVE  SurfaceTabled'
<1>1. /\ InCall({"map surface"})' <=> InCall({"map surface"})
      /\ InCall({"unmap surface"})' <=> InCall({"unmap surface"})
      /\ InCall({"unmap surface", "clean surface"})' <=> InCall({"unmap surface", "clean surface"})
  BY InCallSame DEF SurfaceCalls
<1>2. SizeAgrees <=>
        \A c \in Chains : Live(c) /\ ~InCall({"map chain", "resize"}) => state.size = chains[c]
  BY DEF SizeAgrees
<1>3. SizeAgrees' <=>
        \A c \in Chains : Live(c)' /\ ~InCall({"map chain", "resize"})' => state'.size = chains'[c]
  BY DEF SizeAgrees
<1> QED
  BY <1>1, <1>2, <1>3 DEF SurfaceTabled

LEMMA SizeAgreesSame ==
  ASSUME Same(ChainCalls), UNCHANGED <<chains, retired>>, state'.size = state.size
  PROVE  SizeAgrees' <=> SizeAgrees
<1>1. InCall({"map chain", "resize"})' <=> InCall({"map chain", "resize"})
  BY InCallSame DEF ChainCalls
<1>2. \A c : Live(c)' <=> Live(c)
  BY DEF Live
<1> QED
  BY <1>1, <1>2 DEF SizeAgrees

LEMMA SurfaceTabledKept ==
  ASSUME busy \in [Threads -> Call], None \notin Hwnds, SurfaceAlone, SurfaceTabled,
         NEW t \in Threads, SurfaceStep(t)
  PROVE  SurfaceTabled'
<1>0. /\ UNCHANGED <<chains, retired>> /\ Same(ChainCalls)
  BY SurfaceFrame
<1>1. CASE CreateSurface(t)
  <2>1. /\ At(t, "") /\ surface = None /\ surface' \in Hwnds
        /\ "surface" \in raced' <=> InCall({"unmap surface", "clean surface"})
        /\ UNCHANGED <<surfMap, state>>
    BY <1>1 DEF CreateSurface, tables
  <2>2. busy'[t].at = "map surface" /\ \A u \in Threads : u # t => busy'[u] = busy[u]
    BY <1>1, GoesFacts DEF CreateSurface
  <2>3. InCall({"map surface"})'
    BY <2>2 DEF InCall
  <2>4. InCall({"unmap surface", "clean surface"})' <=> InCall({"unmap surface", "clean surface"})
    BY <2>1, <2>2 DEF InCall, At
  <2>5. ~InCall({"unmap surface", "clean surface"}) => state = None
    BY <2>1 DEF SurfaceTabled
  <2> QED
    BY <2>1, <2>3, <2>4, <2>5 DEF SurfaceTabled
<1>2. CASE MapSurface(t)
  <2>1. At(t, "map surface") /\ surfMap' = surface /\ UNCHANGED <<surface, state, raced>>
    BY <1>2 DEF MapSurface, driver, rest
  <2>2. busy'[t].at = "" /\ \A u \in Threads : u # t => busy'[u] = busy[u]
    BY <1>2, ReturnFacts DEF MapSurface
  <2>3. InCall({"unmap surface", "clean surface"})' <=> InCall({"unmap surface", "clean surface"})
    BY <2>1, <2>2 DEF InCall, At
  <2>4. surface # None
    BY <2>1 DEF SurfaceAlone, InCall, At
  <2>5. state # None => (SizeAgrees' <=> SizeAgrees)
    BY <1>0, <2>1, SizeAgreesSame
  <2> QED
    BY <2>1, <2>3, <2>4, <2>5 DEF SurfaceTabled, SizeAgrees
<1>3. CASE DestroySurface(t)
  <2>1. surface' = None
    BY <1>3 DEF DestroySurface
  <2>2. busy'[t].at = "unmap surface"
    BY <1>3, GoesFacts DEF DestroySurface
  <2> QED
    BY <2>1, <2>2 DEF SurfaceTabled, InCall
<1>4. CASE UnmapSurface(t)
  <2>1. At(t, "unmap surface") /\ surfMap' = None /\ UNCHANGED <<surface, state, raced>>
    BY <1>4 DEF UnmapSurface, driver, rest
  <2>2. busy'[t].at = "clean surface"
    BY <1>4, GoesFacts DEF UnmapSurface
  <2>3. surface = None \/ "surface" \in raced
    BY <2>1 DEF SurfaceTabled, InCall, At
  <2> QED
    BY <2>1, <2>2, <2>3 DEF SurfaceTabled, InCall
<1>5. CASE CleanSurface(t)
  <2>1. At(t, "clean surface") /\ state' = None /\ UNCHANGED <<surface, surfMap, raced>>
    BY <1>5 DEF CleanSurface, driver, tables
  <2>2. busy'[t].at = "" /\ \A u \in Threads : u # t => busy'[u] = busy[u]
    BY <1>5, ReturnFacts DEF CleanSurface
  <2>3. surface = None \/ "surface" \in raced
    BY <2>1 DEF SurfaceTabled, InCall, At
  <2>4. InCall({"unmap surface"})' <=> InCall({"unmap surface"})
    BY <2>1, <2>2 DEF InCall, At
  <2> QED
    BY <2>1, <2>3, <2>4 DEF SurfaceTabled
<1> QED
  BY <1>1, <1>2, <1>3, <1>4, <1>5 DEF SurfaceStep

(* A call on a swapchain: the size of the surface follows it. *)
LEMMA SizeFollows ==
  ASSUME TypeOK, ChainAlone, OneChain, Counted, NEW t \in Threads, ChainStep(t)
  PROVE  /\ state' = None <=> state = None
         /\ state # None => state'.hwnd = state.hwnd
         /\ state # None /\ SizeAgrees => SizeAgrees'
<1>0. busy \in [Threads -> Call]
  BY ChainTypes
<1>a. state \in SurfaceState \cup {None} /\ None \notin SurfaceState
  BY LayerAssumption DEF TypeOK
<1> HIDE LayerAssumption
<1>1. CASE CreateChain(t)
  <2>1. PICK old \in Chains \cup {None} : Cleanup(old)
    BY <1>1 DEF CreateChain
  <2>2. /\ state' = None <=> state = None
        /\ state # None => state'.hwnd = state.hwnd
    BY <2>1, CleanupFacts
  <2>3. SizeAgrees'
    BY <1>1, CreateChainKept DEF SizeAgrees
  <2> QED
    BY <2>2, <2>3
<1>2. CASE MakeChain(t)
  <2>1. state' = state
    BY <1>2 DEF MakeChain, rest
  <2>2. /\ At(t, "make chain") /\ UNCHANGED retired
        /\ Goes(t, "map chain") \/ (UNCHANGED chains /\ Returns(t))
    BY <1>2 DEF MakeChain
  <2>3. CASE Goes(t, "map chain")
    <3>1. busy'[t].at = "map chain"
      BY <1>0, <2>3, GoesFacts
    <3>2. InCall({"map chain", "resize"})'
      BY <3>1 DEF InCall
    <3> QED
      BY <2>1, <3>2 DEF SizeAgrees
  <2>4. CASE UNCHANGED chains
    <3>1. \A c \in Chains : ~Live(c)'
      BY <2>2, <2>4 DEF OneChain, ChainPhase, Live
    <3> QED
      BY <2>1, <3>1 DEF SizeAgrees
  <2> QED
    BY <2>2, <2>3, <2>4
<1>3. CASE MapChain(t)
  <2>1. state' = state
    BY <1>3 DEF MapChain, rest
  <2>2. busy'[t].at = "resize"
    BY <1>0, <1>3, GoesFacts DEF MapChain
  <2>3. InCall({"map chain", "resize"})'
    BY <2>2 DEF InCall
  <2> QED
    BY <2>1, <2>3 DEF SizeAgrees
<1>4. CASE Resize(t)
  <2> DEFINE z == busy[t].size
  <2>1. /\ At(t, "resize") /\ UNCHANGED <<chains, retired>>
        /\ state' = IF state = None THEN None ELSE [state EXCEPT !.size = z]
    BY <1>4 DEF Resize, driver
  <2>2. busy[t].c \in Chains /\ Live(busy[t].c) /\ chains[busy[t].c] = z
    BY <2>1 DEF OneChain, ChainPhase, At
  <2>3. \A c \in Chains : Live(c)' => chains'[c] = z
    BY <2>1, <2>2 DEF OneChain, Live
  <2> HIDE DEF z
  <2>4. state # None => state' # None /\ state'.hwnd = state.hwnd /\ state'.size = z
    <3>1. state # None => [state EXCEPT !.size = z].hwnd = state.hwnd
                          /\ [state EXCEPT !.size = z].size = z
      BY <1>a DEF SurfaceState
    <3>2. z \in Sizes
      <4>1. chains \in [Chains -> Sizes \cup {None}]
        BY ChainTypes
      <4> QED
        BY <2>2, <4>1 DEF Live
    <3>3. state # None => [state EXCEPT !.size = z] \in SurfaceState
      BY <1>a, <3>2 DEF SurfaceState
    <3> QED
      BY <1>a, <2>1, <3>1, <3>3
  <2> QED
    BY <2>1, <2>3, <2>4 DEF SizeAgrees
<1>5. CASE DestroyChain(t)
  <2>1. /\ \E c \in Chains : Cleanup(c)
        /\ ~InCall(ChainCalls) /\ UNCHANGED <<chains, retired>>
    BY <1>5 DEF DestroyChain, ChainReady, driver
  <2>2. /\ state' = None <=> state = None
        /\ state # None => state'.hwnd = state.hwnd /\ state'.size = state.size
    BY <2>1, CleanupFacts
  <2>3. ~InCall({"map chain", "resize"})
    BY <2>1 DEF InCall, ChainCalls
  <2>4. state # None /\ SizeAgrees => SizeAgrees'
    BY <2>1, <2>2, <2>3 DEF SizeAgrees, Live
  <2> QED
    BY <2>2, <2>4
<1>6. CASE ChainGone(t)
  <2>1. state' = state
    BY <1>6 DEF ChainGone, rest
  <2>2. At(t, "destroy chain")
    BY <1>6 DEF ChainGone
  <2>3. \A u \in Threads : u # t => busy[u].at \notin ChainCalls
    BY <1>0, ChainAloneKept DEF ChainStep
  <2>4. ~InCall({"map chain", "resize"})
    BY <2>2, <2>3 DEF InCall, At, ChainCalls
  <2>5. \A d \in Chains : Live(d)' => Live(d) /\ chains'[d] = chains[d]
    BY <1>6, ChainGoneKept
  <2> QED
    BY <2>1, <2>4, <2>5 DEF SizeAgrees
<1> QED
  BY <1>1, <1>2, <1>3, <1>4, <1>5, <1>6 DEF ChainStep

LEMMA NextSurfaceTabled ==
  ASSUME TypeOK, SurfaceAlone, ChainAlone, OneChain, SurfaceTabled, TextureTaken, Counted, Next
  PROVE  SurfaceTabled'
<1>0. busy \in [Threads -> Call] /\ None \notin Hwnds /\ None \notin SurfaceState
      /\ state \in SurfaceState \cup {None}
  BY BusyType, LayerAssumption DEF TypeOK
<1> HIDE LayerAssumption
<1>1. ASSUME NEW t \in Threads, InstanceStep(t)
      PROVE  SurfaceTabled'
  <2>1. Same(SurfaceCalls) /\ UNCHANGED <<surface, surfMap, state>>
    BY <1>0, <1>1, InstanceFrame
  <2>2. SizeAgrees' <=> SizeAgrees
    BY <1>0, <1>1, <2>1, InstanceFrame, SizeAgreesSame
  <2> QED
    BY <1>1, <2>1, <2>2, RacedFrame, SurfaceTabledSame
<1>2. ASSUME NEW t \in Threads, DeviceStep(t)
      PROVE  SurfaceTabled'
  <2>1. Same(SurfaceCalls) /\ UNCHANGED <<surface, surfMap, state, raced>>
    BY <1>0, <1>2, DeviceFrame DEF rest
  <2>2. SizeAgrees' <=> SizeAgrees
    BY <1>0, <1>2, <2>1, DeviceFrame, SizeAgreesSame
  <2> QED
    BY <2>1, <2>2, SurfaceTabledSame
<1>3. ASSUME NEW t \in Threads, SurfaceStep(t)
      PROVE  SurfaceTabled'
  BY <1>0, <1>3, SurfaceTabledKept
<1>4. ASSUME NEW t \in Threads, ChainStep(t)
      PROVE  SurfaceTabled'
  <2>1. Same(SurfaceCalls) /\ UNCHANGED <<surface, surfMap, raced>>
    BY <1>0, <1>4, ChainFrame
  <2> QED
    BY <1>4, <2>1, SizeFollows, SurfaceTabledSame
<1>5. ASSUME Commit
      PROVE  SurfaceTabled'
  <2>1. Same(SurfaceCalls) /\ Same(ChainCalls) /\ UNCHANGED <<surface, surfMap, raced, chains, retired>>
    BY <1>5, CommitFrame, SameBusy DEF driver, tables
  <2>2. PICK x : state # None /\ state' = [state EXCEPT !.tex = x, !.flag = TRUE]
    BY <1>5 DEF Commit
  <2>3. state' # None /\ state'.hwnd = state.hwnd /\ state'.size = state.size
    <3>1. \E y \in Textures \cup {None} : state' = [state EXCEPT !.tex = y, !.flag = TRUE]
      BY <1>5 DEF Commit
    <3> QED
      BY <1>0, <2>2, <3>1 DEF SurfaceState
  <2> QED
    BY <2>1, <2>2, <2>3, SizeAgreesSame, SurfaceTabledSame
<1>6. ASSUME NEW c \in Chains, Present(c)
      PROVE  SurfaceTabled'
  <2>1. Same(SurfaceCalls) /\ Same(ChainCalls) /\ UNCHANGED <<surface, surfMap, raced, chains, retired, busy>>
    BY <1>6, PresentFrame, SameBusy DEF driver
  <2>2. PresentLeaves(c) /\ SurfaceReady /\ ChainReady(c) /\ chainMap[c] # None
    BY <1>6, PresentFacts
  <2>3. CASE state' = None <=> state = None
    <3>1. state # None => state'.hwnd = state.hwnd /\ state'.size = state.size
      BY <2>2, <2>3 DEF PresentLeaves, Leaves
    <3> QED
      BY <2>1, <2>3, <3>1, SizeAgreesSame, SurfaceTabledSame
  <2>4. CASE state = None /\ state' # None
    <3>1. state'.size = chainMap[c].size /\ state'.hwnd = surfMap
      BY <2>2, <2>4 DEF PresentLeaves, Leaves
    <3>2. ~InCall(ChainCalls) /\ Live(c)
      BY <2>2 DEF ChainReady, OneChain
    <3>3. chainMap[c].size = chains[c]
      BY <3>2 DEF OneChain, InCall, ChainCalls
    <3>4. \A d \in Chains : Live(d)' => d = c
      BY <2>1, <3>2 DEF OneChain, Live
    <3>5. surface # None /\ ~InCall({"map surface"})
      BY <2>2 DEF SurfaceReady
    <3>6. /\ InCall({"map surface"})' <=> InCall({"map surface"})
          /\ InCall({"unmap surface"})' <=> InCall({"unmap surface"})
          /\ InCall({"unmap surface", "clean surface"})' <=> InCall({"unmap surface", "clean surface"})
      BY <2>1, InCallSame DEF SurfaceCalls
    <3> QED
      BY <2>1, <3>1, <3>3, <3>4, <3>5, <3>6 DEF SurfaceTabled
  <2>5. state # None => state' # None
    BY <1>0, <2>2 DEF PresentLeaves, Leaves
  <2> QED
    BY <2>3, <2>4, <2>5
<1> QED
  BY <1>1, <1>2, <1>3, <1>4, <1>5, <1>6, NextCases
-----------------------------------------------------------------------------
(***************************************************************************)
(* The renderers: what they have, and what is left of them.                *)
(***************************************************************************)
LEMMA TextureTakenKept ==
  ASSUME TypeOK, OneChain, TextureTaken, Counted, NEW t \in Threads, ChainStep(t)
  PROVE  TextureTaken'
<1>0. state \in SurfaceState \cup {None}
  BY DEF TypeOK
<1> HIDE LayerAssumption
<1>1. CASE CreateChain(t) \/ DestroyChain(t)
  <2>1. PICK c \in Chains \cup {None} : Cleanup(c)
    BY <1>1 DEF CreateChain, DestroyChain
  <2>2. CASE c = None \/ chainMap[c] = None
    BY <2>1, <2>2, CleanupFacts DEF TextureTaken
  <2>3. CASE c # None /\ chainMap[c] # None
    BY <2>1, <2>3, CleanupFacts DEF TextureTaken
  <2> QED
    BY <2>2, <2>3
<1>2. CASE MakeChain(t) \/ ChainGone(t)
  BY <1>2 DEF MakeChain, ChainGone, tables, rest, TextureTaken
<1>3. CASE MapChain(t)
  <2>1. state' = state
    BY <1>3 DEF MapChain, rest
  <2>2. \A d \in Chains : chainMap[d] = None
    <3>1. At(t, "map chain")
      BY <1>3 DEF MapChain
    <3>2. Live(busy[t].c) /\ chainMap[busy[t].c] = None /\ busy[t].c \in Chains
      BY <3>1 DEF OneChain, ChainPhase, At
    <3> QED
      BY <3>2 DEF OneChain
  <2> QED
    BY <2>1, <2>2 DEF TextureTaken
<1>4. CASE Resize(t)
  <2>1. chainMap' = chainMap /\ state' = IF state = None THEN None ELSE [state EXCEPT !.size = busy[t].size]
    BY <1>4 DEF Resize, tables
  <2>2. state # None => state'.flag = state.flag /\ state'.tex = state.tex
    BY <1>0, <2>1 DEF SurfaceState
  <2> QED
    BY <2>1, <2>2 DEF TextureTaken
<1> QED
  BY <1>1, <1>2, <1>3, <1>4 DEF ChainStep

LEMMA NextTextureTaken ==
  ASSUME TypeOK, OneChain, TextureTaken, Counted, Next
  PROVE  TextureTaken'
<1>0. busy \in [Threads -> Call] /\ state \in SurfaceState \cup {None}
  BY BusyType DEF TypeOK
<1> HIDE LayerAssumption
<1>1. ASSUME UNCHANGED <<state, chainMap>>
      PROVE  TextureTaken'
  BY <1>1 DEF TextureTaken
<1>2. ASSUME NEW t \in Threads, InstanceStep(t) \/ DeviceStep(t)
      PROVE  TextureTaken'
  BY <1>0, <1>1, <1>2, InstanceFrame, DeviceFrame DEF rest
<1>3. ASSUME NEW t \in Threads, SurfaceStep(t)
      PROVE  TextureTaken'
  <2>1. chainMap' = chainMap
    BY <1>0, <1>3, SurfaceFrame
  <2>2. state' = state \/ state' = None
    BY <1>3 DEF SurfaceStep, CreateSurface, MapSurface, DestroySurface, UnmapSurface, CleanSurface, rest
  <2> QED
    BY <1>1, <2>1, <2>2 DEF TextureTaken
<1>4. ASSUME NEW t \in Threads, ChainStep(t)
      PROVE  TextureTaken'
  BY <1>4, TextureTakenKept
<1>5. ASSUME Commit
      PROVE  TextureTaken'
  <2>1. state # None /\ \E x \in Textures \cup {None} : state' = [state EXCEPT !.tex = x, !.flag = TRUE]
    BY <1>5 DEF Commit
  <2>2. state'.flag
    BY <1>0, <2>1 DEF SurfaceState
  <2> QED
    BY <2>2 DEF TextureTaken
<1>6. ASSUME NEW c \in Chains, Present(c)
      PROVE  TextureTaken'
  <2>1. PresentLeaves(c) /\ chainMap[c] # None
    BY <1>6, PresentFacts
  <2>2. ASSUME NEW x, NEW size, NEW hwnd, Leaves(c, x, size, hwnd)
        PROVE  TextureTaken'
    <3>1. chainMap'[c] # None /\ chainMap'[c].rend = x
      BY <2>1, <2>2, RendererSet DEF Leaves
    <3>2. ~state'.flag => x # None /\ x.tex = IF x.failed THEN None ELSE state'.tex
      BY <2>2 DEF Leaves, Fits
    <3> QED
      BY <3>1, <3>2 DEF TextureTaken
  <2>3. state' = None => TextureTaken'
    BY DEF TextureTaken
  <2> QED
    BY <2>1, <2>2, <2>3 DEF PresentLeaves
<1> QED
  BY <1>2, <1>3, <1>4, <1>5, <1>6, NextCases

LEMMA CountedSame ==
  ASSUME Counted, UNCHANGED <<chainMap, objects, lapses>>
  PROVE  Counted'
BY DEF Counted, Has

LEMMA CountedKept ==
  ASSUME TypeOK, ChainAlone, OneChain, Counted, NEW t \in Threads, ChainStep(t)
  PROVE  Counted'
<1>0. busy \in [Threads -> Call] /\ objects \in [Kinds -> Nat]
  BY BusyType DEF TypeOK
<1> HIDE LayerAssumption
<1>a. lapses' = lapses
  BY <1>0, ChainFrame
<1>1. CASE CreateChain(t) \/ DestroyChain(t)
  <2>1. PICK c \in Chains \cup {None} : Cleanup(c)
    BY <1>1 DEF CreateChain, DestroyChain
  <2>2. CASE c = None \/ chainMap[c] = None
    <3>1. UNCHANGED <<chainMap, state, objects>>
      BY <2>1, <2>2, CleanupFacts
    <3> QED
      BY <1>a, <3>1, CountedSame
  <2>3. CASE c # None /\ chainMap[c] # None
    <3>1. /\ \A d \in Chains : chainMap'[d] = IF d = c THEN None ELSE chainMap[d]
          /\ lapses = 0 => objects' = NoObjects
      BY <2>1, <2>3, CleanupFacts
    <3>2. \A d \in Chains : chainMap'[d] = None
      BY <2>3, <3>1 DEF OneChain
    <3> QED
      BY <1>a, <3>1, <3>2 DEF Counted
  <2> QED
    BY <2>2, <2>3
<1>2. CASE MakeChain(t) \/ ChainGone(t) \/ Resize(t)
  <2>1. UNCHANGED <<chainMap, objects>>
    BY <1>2 DEF MakeChain, ChainGone, Resize, tables, rest
  <2> QED
    BY <1>a, <2>1, CountedSame
<1>3. CASE MapChain(t)
  <2>1. /\ \A d \in Chains : chainMap'[d] # None => d = busy[t].c /\ chainMap'[d].rend = None
        /\ \A d \in Chains : chainMap[d] = None
        /\ busy[t].c \in Chains
        /\ chainMap'[busy[t].c] # None
    <3>1. None \notin Entry /\ chainMap \in [Chains -> Entry \cup {None}]
      BY ChainTypes
    <3>2. /\ chainMap' = [chainMap EXCEPT ![busy[t].c] = [size |-> busy[t].size, rend |-> None]]
          /\ At(t, "map chain")
      BY <1>3 DEF MapChain
    <3>3. busy[t].size \in Sizes /\ busy[t].c \in Chains
      <4>1. Live(busy[t].c) /\ chains[busy[t].c] = busy[t].size /\ busy[t].c \in Chains
        BY <3>2 DEF OneChain, ChainPhase, At
      <4> QED
        BY <4>1, ChainTypes DEF Live
    <3>4. [size |-> busy[t].size, rend |-> None] \in Entry
      BY <3>3 DEF Entry
    <3> QED
      BY <1>3, <3>1, <3>2, <3>3, <3>4, MapChainKept
  <2>2. objects' = objects
    BY <1>3 DEF MapChain, rest
  <2>3. lapses = 0 => objects = NoObjects
    BY <2>1 DEF Counted
  <2>4. Has(objects, None, lapses = 0)
    <3>1. lapses = 0 => \A k \in Kinds : objects[k] = 0
      BY <2>3 DEF NoObjects
    <3> QED
      BY <1>0, <3>1, HoldsFacts DEF Has
  <2>5. \A d \in Chains : chainMap'[d] # None => Has(objects', chainMap'[d].rend, lapses' = 0)
    BY <1>a, <2>1, <2>2, <2>4
  <2> QED
    BY <2>1, <2>5 DEF Counted
<1> QED
  BY <1>1, <1>2, <1>3 DEF ChainStep

LEMMA NextCounted ==
  ASSUME TypeOK, ChainAlone, OneChain, TextureTaken, Counted, Next
  PROVE  Counted'
<1>0. busy \in [Threads -> Call]
  BY BusyType
<1> HIDE LayerAssumption
<1>1. ASSUME NEW t \in Threads, InstanceStep(t) \/ DeviceStep(t) \/ SurfaceStep(t)
      PROVE  Counted'
  BY <1>0, <1>1, InstanceFrame, DeviceFrame, SurfaceFrame, CountedSame DEF rest
<1>2. ASSUME NEW t \in Threads, ChainStep(t)
      PROVE  Counted'
  BY <1>2, CountedKept
<1>3. ASSUME Commit
      PROVE  Counted'
  BY <1>3, CommitFrame, CountedSame DEF tables
<1>4. ASSUME NEW c \in Chains, Present(c)
      PROVE  Counted'
  <2>1. PresentLeaves(c) /\ chainMap[c] # None
    BY <1>4, PresentFacts
  <2>2. \A d \in Chains : d # c => chainMap[d] = None
    BY <2>1 DEF OneChain
  <2>3. ASSUME NEW x, NEW size, NEW hwnd, Leaves(c, x, size, hwnd)
        PROVE  Counted'
    <3>1. /\ chainMap'[c] # None /\ chainMap'[c].rend = x
          /\ \A d \in Chains : d # c => chainMap'[d] = chainMap[d]
      BY <2>1, <2>3, RendererSet DEF Leaves
    <3>2. Has(objects', x, lapses' = 0)
      BY <2>3 DEF Leaves
    <3> QED
      BY <2>2, <3>1, <3>2 DEF Counted
  <2>4. CASE /\ UNCHANGED <<objects, lapses>>
             /\ chainMap' = [chainMap EXCEPT ![c].rend = chainMap[c].rend]
    <3>1. chainMap[c].rend \in Renderer \cup {None}
      BY <2>1, ChainTypes DEF Entry
    <3>2. /\ chainMap'[c] # None /\ chainMap'[c].rend = chainMap[c].rend
          /\ \A d \in Chains : d # c => chainMap'[d] = chainMap[d]
      BY <2>1, <2>4, <3>1, RendererSet
    <3>3. Has(objects, chainMap[c].rend, lapses = 0)
      BY <2>1 DEF Counted
    <3>4. Has(objects', chainMap'[c].rend, lapses' = 0)
      BY <2>4, <3>2, <3>3
    <3> QED
      BY <2>2, <3>2, <3>4 DEF Counted
  <2> QED
    BY <2>1, <2>3, <2>4 DEF PresentLeaves
<1> QED
  BY <1>1, <1>2, <1>3, <1>4, NextCases
-----------------------------------------------------------------------------
(***************************************************************************)
(* The theorems.                                                           *)
(***************************************************************************)
LEMMA PresentType ==
  ASSUME TypeOK, OneChain, TextureTaken, Counted, NEW c \in Chains, Present(c)
  PROVE  TypeOK' /\ ShowsCommitted'
<1>1. /\ PresentLeaves(c) /\ chainMap[c] # None
      /\ UNCHANGED <<driver, busy, instTable, physMap, devTable, queueMap, surfMap, raced>>
  BY PresentFacts
<1>2. chainMap' \in [Chains -> Entry \cup {None}]
  BY <1>1, PresentEntry, RendererSet
<1>3. /\ state' \in SurfaceState \cup {None} /\ objects' \in [Kinds -> Nat]
      /\ lapses' \in 0 .. MaxLapses /\ ShowsCommitted'
  BY <1>1 DEF PresentLeaves, Leaves, TypeOK
<1> QED
  BY <1>1, <1>2, <1>3 DEF TypeOK, driver

LEMMA ChainType ==
  ASSUME TypeOK, OneChain, ChainAlone, Counted, NEW t \in Threads, ChainStep(t)
  PROVE  /\ chains' \in [Chains -> Sizes \cup {None}] /\ retired' \subseteq Chains
         /\ chainMap' \in [Chains -> Entry \cup {None}]
         /\ state' \in SurfaceState \cup {None} /\ objects' \in [Kinds -> Nat]
<1>0. /\ chains \in [Chains -> Sizes \cup {None}] /\ retired \subseteq Chains
      /\ busy \in [Threads -> Call]
      /\ chainMap \in [Chains -> Entry \cup {None}]
      /\ state \in SurfaceState \cup {None} /\ objects \in [Kinds -> Nat]
  BY BusyType DEF TypeOK
<1> HIDE LayerAssumption
<1>1. CASE CreateChain(t)
  <2>1. PICK old \in Chains \cup {None} : Cleanup(old) /\ retired' = retired \cup ({old} \ {None})
    BY <1>1 DEF CreateChain
  <2>2. chains' = chains
    BY <1>1 DEF CreateChain
  <2> QED
    BY <1>0, <2>1, <2>2, CleanupFacts
<1>2. CASE MakeChain(t)
  <2>1. busy[t].c \in Chains /\ busy[t].size \in Sizes
    BY <1>2 DEF MakeChain, OneChain, ChainPhase
  <2>2. chains' = [chains EXCEPT ![busy[t].c] = busy[t].size] \/ chains' = chains
    BY <1>2 DEF MakeChain
  <2>3. UNCHANGED <<retired, chainMap, state, objects>>
    BY <1>2 DEF MakeChain, tables, rest
  <2> QED
    BY <1>0, <2>1, <2>2, <2>3
<1>3. CASE MapChain(t)
  BY <1>0, <1>3, MapChainKept DEF MapChain, driver, rest
<1>4. CASE Resize(t)
  <2>1. /\ At(t, "resize")
        /\ state' = IF state = None THEN None ELSE [state EXCEPT !.size = busy[t].size]
        /\ UNCHANGED <<chains, retired, chainMap, objects>>
    BY <1>4 DEF Resize, driver, tables
  <2>2. busy[t].size \in Sizes
    <3>1. Live(busy[t].c) /\ chains[busy[t].c] = busy[t].size /\ busy[t].c \in Chains
      BY <2>1 DEF OneChain, ChainPhase, At
    <3> QED
      BY <1>0, <3>1 DEF Live
  <2>3. state' \in SurfaceState \cup {None}
    BY <1>0, <2>1, <2>2 DEF SurfaceState
  <2> QED
    BY <1>0, <2>1, <2>3
<1>5. CASE DestroyChain(t)
  <2>1. PICK c \in Chains : Cleanup(c)
    BY <1>5 DEF DestroyChain
  <2>2. UNCHANGED <<chains, retired>>
    BY <1>5 DEF DestroyChain, driver
  <2> QED
    BY <1>0, <2>1, <2>2, CleanupFacts
<1>6. CASE ChainGone(t)
  <2>1. /\ chains' = [chains EXCEPT ![busy[t].c] = None] /\ retired' = retired \ {busy[t].c}
        /\ UNCHANGED <<chainMap, state, objects>>
    BY <1>6 DEF ChainGone, tables, rest
  <2> QED
    BY <1>0, <2>1
<1> QED
  BY <1>1, <1>2, <1>3, <1>4, <1>5, <1>6 DEF ChainStep

LEMMA NextType ==
  ASSUME TypeOK, ChainAlone, OneChain, TextureTaken, Counted, Next
  PROVE  TypeOK' /\ ShowsCommitted'
<1>0. busy \in [Threads -> Call]
  BY BusyType
<1> HIDE LayerAssumption
<1>a. busy' \in [Threads -> Call] <=>
        busy' \in [Threads -> {NoCall} \cup
          [at : Calls, c : Chains \cup {None}, size : Sizes \cup {None}]]
  BY DEF Call
<1>b. (~ \E c \in Chains : Present(c)) => ShowsCommitted'
  BY DEF Next, ShowsCommitted
<1>c. (\E c \in Chains : Present(c)) => ShowsCommitted'
  BY PresentType
<1>1. ASSUME NEW t \in Threads, InstanceStep(t)
      PROVE  TypeOK'
  <2>1. /\ instance' \in BOOLEAN /\ instTable' \in BOOLEAN /\ physMap' \in BOOLEAN
    BY <1>1 DEF TypeOK, InstanceStep, CreateInstance, Enumerate, FillInstance, DestroyInstance,
         InstanceGone, ForgetDevices, driver, tables
  <2>2. raced' \subseteq {"physical", "surface"}
    BY <1>1, RacedFrame DEF TypeOK
  <2>3. busy' \in [Threads -> Call] /\ UNCHANGED <<device, surface, chains, retired, devTable,
                                                  queueMap, surfMap, chainMap, state, objects, lapses>>
    BY <1>0, <1>1, InstanceFrame
  <2> QED
    BY <1>a, <2>1, <2>2, <2>3 DEF TypeOK
<1>2. ASSUME NEW t \in Threads, DeviceStep(t)
      PROVE  TypeOK'
  <2>1. /\ device' \in BOOLEAN /\ devTable' \in BOOLEAN /\ queueMap' \in BOOLEAN
    BY <1>2 DEF TypeOK, DeviceStep, CreateDevice, GetQueues, FillDevice, DestroyDevice,
         ForgetQueues, DeviceGone, driver, tables
  <2>2. /\ busy' \in [Threads -> Call]
        /\ UNCHANGED <<instance, surface, chains, retired, instTable, physMap, surfMap, chainMap,
                       state, objects, lapses, raced>>
    BY <1>0, <1>2, DeviceFrame DEF rest
  <2> QED
    BY <1>a, <2>1, <2>2 DEF TypeOK
<1>3. ASSUME NEW t \in Threads, SurfaceStep(t)
      PROVE  TypeOK'
  <2>1. /\ surface' \in Hwnds \cup {None} /\ surfMap' \in Hwnds \cup {None}
        /\ state' \in SurfaceState \cup {None}
    BY <1>3 DEF TypeOK, SurfaceStep, CreateSurface, MapSurface, DestroySurface, UnmapSurface,
         CleanSurface, driver, tables, rest
  <2>2. raced' \subseteq {"physical", "surface"}
    BY <1>3, RacedFrame DEF TypeOK
  <2>3. /\ busy' \in [Threads -> Call]
        /\ UNCHANGED <<instance, device, chains, retired, instTable, physMap, devTable, queueMap,
                       chainMap, objects, lapses>>
    BY <1>0, <1>3, SurfaceFrame
  <2> QED
    BY <1>a, <2>1, <2>2, <2>3 DEF TypeOK
<1>4. ASSUME NEW t \in Threads, ChainStep(t)
      PROVE  TypeOK'
  <2>1. /\ chains' \in [Chains -> Sizes \cup {None}] /\ retired' \subseteq Chains
        /\ chainMap' \in [Chains -> Entry \cup {None}]
        /\ state' \in SurfaceState \cup {None} /\ objects' \in [Kinds -> Nat]
    BY <1>4, ChainType
  <2>2. /\ busy' \in [Threads -> Call]
        /\ UNCHANGED <<instance, device, surface, instTable, physMap, devTable, queueMap, surfMap,
                       lapses, raced>>
    BY <1>0, <1>4, ChainFrame
  <2> QED
    BY <1>a, <2>1, <2>2 DEF TypeOK
<1>5. ASSUME Commit
      PROVE  TypeOK'
  <2>1. UNCHANGED <<driver, busy, tables, objects, lapses, raced>>
    BY <1>5, CommitFrame
  <2>2. state' \in SurfaceState \cup {None}
    BY <1>5 DEF Commit, TypeOK, SurfaceState
  <2> QED
    BY <2>1, <2>2 DEF TypeOK, driver, tables
<1>6. ASSUME NEW c \in Chains, Present(c)
      PROVE  TypeOK'
  BY <1>6, PresentType
<1> QED
  BY <1>1, <1>2, <1>3, <1>4, <1>5, <1>6, <1>b, <1>c, NextCases

LayerInv == TypeOK /\ Layer /\ ShowsCommitted

LEMMA LayerInit == Init => LayerInv
<1> SUFFICES ASSUME Init PROVE LayerInv
  OBVIOUS
<1>0. 0 \in 0 .. MaxLapses
  BY LayerAssumption
<1> HIDE LayerAssumption
<1>1. /\ ~instance /\ ~device /\ surface = None /\ retired = {}
      /\ ~instTable /\ ~physMap /\ ~devTable /\ ~queueMap /\ surfMap = None
      /\ state = None /\ objects = NoObjects /\ lapses = 0 /\ raced = {} /\ drawn = None
      /\ \A t \in Threads : busy[t] = NoCall /\ busy[t].at = ""
      /\ \A c \in Chains : chains[c] = None /\ chainMap[c] = None
  BY DEF Init, NoCall
<1>2. TypeOK
  BY <1>0 DEF Init, TypeOK, NoObjects
<1>3. InstanceAlone /\ DeviceAlone /\ SurfaceAlone /\ ChainAlone
  BY <1>1 DEF InstanceAlone, DeviceAlone, SurfaceAlone, ChainAlone, OneIn, InCall, InstancePhases,
       DevicePhases, ChainCalls
<1>4. InstanceTabled /\ DeviceTabled /\ SurfaceTabled
  BY <1>1 DEF InstanceTabled, DeviceTabled, SurfaceTabled, InstanceReady, DeviceReady
<1>5. Parents
  BY <1>1 DEF Parents, InCall, ChainCalls
<1>6. OneChain
  BY <1>1 DEF OneChain, ChainPhase, Live, At
<1>7. TextureTaken /\ Counted /\ ShowsCommitted
  BY <1>1 DEF TextureTaken, Counted, ShowsCommitted
<1> QED
  BY <1>2, <1>3, <1>4, <1>5, <1>6, <1>7 DEF LayerInv, Layer

LEMMA LayerNext == LayerInv /\ [Next]_vars => LayerInv'
<1> SUFFICES ASSUME LayerInv, [Next]_vars PROVE LayerInv'
  OBVIOUS
<1> HIDE LayerAssumption
<1>1. CASE Next
  <2>1. /\ TypeOK /\ InstanceInv /\ DeviceInv /\ Parents /\ SurfaceAlone /\ ChainAlone /\ OneChain
        /\ SurfaceTabled /\ TextureTaken /\ Counted
    BY DEF LayerInv, Layer, InstanceInv, DeviceInv
  <2>2. TypeOK' /\ ShowsCommitted'
    BY <1>1, <2>1, NextType
  <2>3. InstanceInv' /\ DeviceInv'
    BY <1>1, <2>1, NextInstance, NextDevice
  <2>4. Parents'
    BY <1>1, <2>1, NextParents
  <2>5. SurfaceAlone' /\ ChainAlone'
    BY <1>1, <2>1, NextSurfaceAlone, NextChainAlone
  <2>6. OneChain'
    BY <1>1, <2>1, NextOneChain
  <2>7. SurfaceTabled'
    BY <1>1, <2>1, NextSurfaceTabled
  <2>8. TextureTaken' /\ Counted'
    BY <1>1, <2>1, NextTextureTaken, NextCounted
  <2> QED
    BY <2>2, <2>3, <2>4, <2>5, <2>6, <2>7, <2>8 DEF LayerInv, Layer, InstanceInv, DeviceInv
<1>2. CASE UNCHANGED vars
  <2>1. UNCHANGED <<instance, device, surface, chains, retired, busy, instTable, physMap, devTable,
                    queueMap, surfMap, chainMap, state, objects, lapses, raced, drawn>>
    BY <1>2 DEF vars, driver, tables, rest
  <2>2. TypeOK' /\ ShowsCommitted'
    BY <2>1 DEF LayerInv, TypeOK, ShowsCommitted
  <2>3. \A S : Same(S)
    BY <2>1, SameBusy
  <2>4. InstanceInv' /\ DeviceInv'
    BY <2>1, <2>3, InstanceSame, DeviceSame DEF LayerInv, Layer, InstanceInv, DeviceInv
  <2>5. Parents'
    BY <2>1 DEF LayerInv, Layer, Parents, InCall
  <2>6. SurfaceAlone' /\ ChainAlone'
    BY <2>1 DEF LayerInv, Layer, SurfaceAlone, ChainAlone, InCall, OneIn
  <2>7. OneChain'
    BY <2>1, <2>3, OneChainSame DEF LayerInv, Layer
  <2>8. SurfaceTabled'
    <3>1. SizeAgrees' <=> SizeAgrees
      BY <2>1 DEF SizeAgrees, Live, InCall
    <3> QED
      BY <2>1, <2>3, <3>1, SurfaceTabledSame DEF LayerInv, Layer
  <2>9. TextureTaken' /\ Counted'
    <3>1. TextureTaken'
      BY <2>1 DEF LayerInv, Layer, TextureTaken
    <3> QED
      BY <2>1, <3>1, CountedSame DEF LayerInv, Layer
  <2> QED
    BY <2>2, <2>4, <2>5, <2>6, <2>7, <2>8, <2>9 DEF LayerInv, Layer, InstanceInv, DeviceInv
<1> QED
  BY <1>1, <1>2

LEMMA LayerAlways == Spec => []LayerInv
<1> HIDE LayerAssumption
<1> QED
  BY LayerInit, LayerNext, PTL DEF Spec

LEMMA TablesFollow == LayerInv => TablesAgree
<1> SUFFICES ASSUME LayerInv PROVE TablesAgree
  OBVIOUS
<1> HIDE LayerAssumption
<1>0. /\ TypeOK /\ InstanceAlone /\ InstanceTabled /\ DeviceAlone /\ DeviceTabled /\ Parents
      /\ OneChain /\ SurfaceTabled
  BY DEF LayerInv, Layer
<1>1. NoStaleEntry
  <2>1. /\ instTable => instance
        /\ devTable \/ queueMap => device
    BY <1>0 DEF InstanceTabled, DeviceTabled, InstanceReady, DeviceReady
  <2>2. \A c \in Chains : chainMap[c] # None => chains[c] # None
    BY <1>0 DEF OneChain, Live
  <2>3. /\ physMap => instance \/ InCall({"forget devices"})
        /\ surfMap # None => surface # None \/ InCall({"unmap surface"})
        /\ state # None => surface # None \/ InCall({"unmap surface", "clean surface"})
    BY <1>0 DEF InstanceTabled, SurfaceTabled
  <2> QED
    BY <2>1, <2>2, <2>3 DEF NoStaleEntry
<1>2. Known
  <2>1. InstanceReady => instTable /\ (physMap \/ "physical" \in raced)
    <3>1. InstanceReady => instance /\ ~InCall({"enumerate"})
      BY DEF InstanceReady, InCall
    <3> QED
      BY <1>0, <3>1 DEF InstanceTabled
  <2>2. DeviceReady => devTable /\ queueMap
    <3>1. DeviceReady => device /\ ~InCall({"get queues", "destroy device"})
      BY DEF DeviceReady, InCall
    <3> QED
      BY <1>0, <3>1 DEF DeviceTabled
  <2>3. SurfaceReady => surfMap = surface \/ "surface" \in raced
    BY <1>0 DEF SurfaceReady, SurfaceTabled
  <2>4. ASSUME NEW c \in Chains, ChainReady(c), c \notin retired
        PROVE  chainMap[c] # None /\ chainMap[c].size = chains[c]
    <3>1. Live(c) /\ ~InCall(ChainCalls)
      BY <2>4 DEF ChainReady, Live
    <3> QED
      BY <1>0, <3>1 DEF OneChain, InCall, ChainCalls
  <2> QED
    BY <2>1, <2>2, <2>3, <2>4 DEF Known
<1>3. SurfaceAgrees
  <2> SUFFICES ASSUME NEW c \in Chains, state # None, ChainReady(c), c \notin retired,
                      "surface" \notin raced
               PROVE  state.size = chains[c] /\ state.hwnd = surface
    BY DEF SurfaceAgrees
  <2>1. chains[c] # None /\ Live(c) /\ ~InCall({"map chain", "resize"})
    BY DEF ChainReady, Live, InCall, ChainCalls
  <2>2. surface # None
    BY <1>0, <2>1 DEF Parents
  <2> QED
    BY <1>0, <2>1, <2>2 DEF SurfaceTabled
<1> QED
  BY <1>0, <1>1, <1>2, <1>3 DEF TablesAgree

LEMMA NothingIsLeft == LayerInv => NothingLeft
<1> SUFFICES ASSUME LayerInv, lapses = 0,
                    \A c \in Chains : chainMap[c] = None \/ chainMap[c].rend = None
             PROVE  objects = NoObjects
  BY DEF NothingLeft
<1> HIDE LayerAssumption
<1>0. Counted /\ objects \in [Kinds -> Nat]
  BY DEF LayerInv, Layer, TypeOK
<1>1. CASE \A c \in Chains : chainMap[c] = None
  BY <1>0, <1>1 DEF Counted
<1>2. ASSUME NEW c \in Chains, chainMap[c] # None
      PROVE  objects = NoObjects
  <2>1. Has(objects, None, TRUE)
    BY <1>0, <1>2 DEF Counted
  <2>2. \A k \in Kinds : objects[k] = 0
    BY <2>1, HoldsFacts DEF Has
  <2> QED
    BY <1>0, <2>2 DEF NoObjects
<1> QED
  BY <1>1, <1>2

(* The tables of the layer hold what exists, all of it, and as it is, but  *)
(* for the two races the property names: whatever the calls of any number  *)
(* of threads on any number of handles of swapchains, no unwrap of a       *)
(* present fails for an object that the application may use.               *)
THEOREM TablesStayTrue == Spec => []TablesAgree
<1> HIDE LayerAssumption
<1> QED
  BY LayerAlways, TablesFollow, PTL

(* A present shows the texture committed last, through every recreation of *)
(* the swapchain, or nothing after that could not be imported.             *)
THEOREM FramesShowCommitted == Spec => []ShowsCommitted
<1> HIDE LayerAssumption
<1>1. LayerInv => ShowsCommitted
  BY DEF LayerInv
<1> QED
  BY <1>1, LayerAlways, PTL

(* The drop of a renderer destroys all that its creation and its textures  *)
(* made, for any number of images of the swapchain.                        *)
THEOREM NothingStaysBehind == Spec => []NothingLeft
<1> HIDE LayerAssumption
<1> QED
  BY LayerAlways, NothingIsLeft, PTL
=============================================================================

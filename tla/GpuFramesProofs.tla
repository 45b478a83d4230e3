--------------------------- MODULE GpuFramesProofs ---------------------------
(***************************************************************************)
(* What the overlay gives the GPU stays in order: GpuInOrder, for any      *)
(* swapchains, images, semaphores, queues and textures.                    *)
(*                                                                         *)
(* Vulkan: an image is rendered to, in the present under way or given to a *)
(* present, one of them at a time (ImagesInv), and a frame's semaphore     *)
(* goes to the present of its image (Carried).  Whoever draws over an      *)
(* image or presents it waits for all that still renders to it             *)
(* (AwaitedInv).  Direct3D 12: while a list is unfinished the fence is     *)
(* behind the value that was counted for it (FenceInv), and an application *)
(* that waits for its own work has one list for each buffer (AllocsInv).   *)
(***************************************************************************)
EXTENDS GpuFrames, FiniteSetTheorems, SequenceTheorems, TLAPS

(* A texture belongs to one renderer.                                      *)
TexInv ==
  /\ TexTypeOK
  /\ \A c, d \in Chains : texture[c] = texture[d] /\ texture[c] # None => c = d

(* The other library is not there.                                         *)
ApiInv ==
  /\ gpu.api = "vulkan" => frame = "app" /\ \A q \in Queues : lists[q] = <<>>
  /\ gpu.api = "dx12" => queue = <<>> /\ running = {}
-----------------------------------------------------------------------------
(* Vulkan: what an operation is.                                           *)
Ops ==
  [kind : {"app", "draw", "present"}, waits : SUBSET (Sems \cup Frames),
   blocks : SUBSET (Sems \cup Frames), signals : SUBSET (Sems \cup Frames),
   frames : SUBSET Frames, tex : Objects \cup {None}]

AppOp(o) == o.waits = {} /\ o.blocks = {} /\ o.signals \subseteq Sems
DrawOp(o) ==
  /\ o.waits \subseteq Sems /\ o.blocks \subseteq o.waits
  /\ o.signals = o.frames /\ o.tex # None
PresentOp(o) ==
  /\ o.signals = {} /\ o.blocks = o.waits
  /\ o.waits \subseteq Sems \/ o.waits \subseteq o.frames
OpOK(o) ==
  /\ o.frames # {}
  /\ o.kind = "app" => AppOp(o)
  /\ o.kind = "draw" => DrawOp(o)
  /\ o.kind = "present" => PresentOp(o)

OpsInv ==
  /\ queue \in Seq(Ops) /\ running \subseteq Ops
  /\ \A o \in Pending : OpOK(o)
RestInv ==
  /\ signalled \subseteq Sems \cup Frames
  /\ fenced \subseteq Frames /\ failed \subseteq Frames
  /\ recorded \in [Frames -> Objects \cup {None}]
  /\ rendered \subseteq [frames : SUBSET Frames, sems : SUBSET Sems]
  /\ call = None \/ call \in Calls
  /\ broken \in {"", "twice", "refused"}

(* It is somewhere once.                                                   *)
Single(s) == \A i, j \in DOMAIN s : s[i] = s[j] => i = j
OnceInv == Single(queue) /\ ToSet(queue) \cap running = {}

(* The present under way.                                                  *)
CallInv ==
  call # None =>
    /\ call.frames # {} /\ call.buf \subseteq call.frames
    /\ call.todo \subseteq {f[1] : f \in call.frames}
    /\ call.at # None => call.at \in {f[1] : f \in call.frames} \ call.todo
    /\ \A f \in call.buf : f[1] \notin call.todo /\ f[1] # call.at

(* An image is rendered, in the present under way or given to a present:   *)
(* one of them at a time.                                                  *)
Shown == {o \in Pending : o.kind = "present"}
Meets(x, y) == x.frames \cap y.frames # {}
ImagesInv ==
  /\ \A b \in rendered : b.frames # {}
  /\ \A b, c \in rendered : Meets(b, c) => b = c
  /\ \A p, q \in Shown : Meets(p, q) => p = q
  /\ \A b \in rendered, p \in Shown : ~Meets(b, p)
  /\ call # None =>
       /\ \A b \in rendered : ~Meets(b, call)
       /\ \A p \in Shown : ~Meets(p, call)

(* What a draw that is not done reads is there and as it was recorded, and *)
(* its fence is not signalled.                                             *)
Drawn == {o \in Pending : o.kind = "draw"}
DrawsInv ==
  /\ \A d \in Drawn :
       /\ d.tex \in alive /\ d.frames \cap fenced = {}
       /\ \A f \in d.frames : recorded[f] = d.tex
  /\ \A d, e \in Drawn : Meets(d, e) => d = e

(* A semaphore has one signal, that of a frame is on its way to the        *)
(* present of its image, and what an operation took to run is not          *)
(* signalled again meanwhile.                                              *)
Carried(f) ==
  \/ call # None /\ f \in call.buf
  \/ \E p \in ToSet(queue) : p.kind = "present" /\ f \in p.waits
SignalsInv ==
  /\ \A o \in Pending : o.signals \cap signalled = {}
  /\ \A o, p \in Pending : o.signals \cap p.signals # {} => o = p
  /\ \A f \in Frames : f \in signalled => Carried(f)
  /\ \A o \in Pending : \A f \in o.signals : f \in Frames => Carried(f)
  /\ \A o \in Pending, r \in running : o.signals \cap r.blocks = {}

(* Whoever draws over an image or presents it waits for a signal of each   *)
(* submission that still renders to it, or for a draw that does.           *)
Rendering == {o \in Pending : o.kind = "app"}
Awaits(o, x) == o.signals \cap x # {}
Covers(o, f) == \E d \in Drawn : f \in d.signals /\ Awaits(o, d.waits)
AwaitedInv ==
  \A o \in Rendering :
    /\ \A b \in rendered : Meets(o, b) /\ b.sems # {} => Awaits(o, b.sems)
    /\ call # None /\ Meets(o, call) =>
         Awaits(o, call.sems) /\ \A f \in call.buf : Covers(o, f)
    /\ \A d \in Drawn : Meets(o, d) => Awaits(o, d.waits)
    /\ \A p \in Shown : Meets(o, p) =>
         /\ p \notin running
         /\ Awaits(o, p.waits) \/ (p.waits # {} /\ \A f \in p.waits : Covers(o, f))

VkInv ==
  /\ OpsInv /\ RestInv /\ OnceInv /\ CallInv /\ ImagesInv /\ DrawsInv
  /\ broken = "" => SignalsInv /\ AwaitedInv
-----------------------------------------------------------------------------
(* Direct3D 12: the types, and what the frame under way has.               *)
FrameInv ==
  /\ DxTypeOK
  /\ frame \in {"present", "draw"} => fenceVal < MaxVal
  /\ frame = "draw" => last # None /\ texture[Chain] # None

(* With one queue at a time the fence is behind while a list is not done.  *)
Work(q) == {i \in DOMAIN lists[q] : lists[q][i].kind \in {"list", "signal"}}
FenceInv ==
  /\ fence <= fenceVal
  /\ \A q, r \in Queues : Work(q) # {} /\ Work(r) # {} => q = r
  /\ \A q \in Queues : \A i \in Work(q) :
       /\ lists[q][i].val <= fenceVal
       /\ lists[q][i].kind = "list" => fence < fenceVal /\ lists[q][i].tex \in alive
       /\ lists[q][i].kind = "signal" =>
            \A j \in ListsOn(q) : i < j => lists[q][i].val < fenceVal

(* An application that keeps to the rules has one list for each buffer.    *)
AllocsInv ==
  \A q \in Queues : \A i \in ListsOn(q) :
    /\ q = Main
    /\ allocs[lists[q][i].buffer] = lists[q][i].tex
    /\ OnlyList(q, i)
    /\ frame \in {"present", "draw"} => lists[q][i].buffer # buffer

DxInv ==
  /\ FrameInv
  /\ "queues" \notin lapses => FenceInv
  /\ lapses \cap {"ahead", "other", "queues"} = {} => AllocsInv

GpuInv == TexInv /\ ApiInv /\ VkInv /\ DxInv
-----------------------------------------------------------------------------
(* What is on a sequence that grows, or loses its first.                   *)
LEMMA ConcatOps ==
  ASSUME NEW T, NEW s \in Seq(T), NEW t \in Seq(T)
  PROVE  /\ s \o t \in Seq(T)
         /\ ToSet(s \o t) = ToSet(s) \cup ToSet(t)
         /\ Single(s) /\ Single(t) /\ ToSet(s) \cap ToSet(t) = {} => Single(s \o t)
<1> DEFINE u == s \o t
<1>1. /\ u \in Seq(T) /\ Len(u) = Len(s) + Len(t)
      /\ \A i \in 1 .. Len(s) : u[i] = s[i]
      /\ \A i \in 1 .. Len(t) : u[Len(s) + i] = t[i]
      /\ \A i \in DOMAIN u : i \in 1 .. Len(s) \/ i - Len(s) \in 1 .. Len(t)
      /\ DOMAIN u = 1 .. Len(u) /\ DOMAIN s = 1 .. Len(s) /\ DOMAIN t = 1 .. Len(t)
      /\ Len(s) \in Nat /\ Len(t) \in Nat
  OBVIOUS
<1>2. \A i \in DOMAIN u :
        \/ i \in DOMAIN s /\ u[i] = s[i]
        \/ i - Len(s) \in DOMAIN t /\ u[i] = t[i - Len(s)]
  BY <1>1
<1> HIDE DEF u
<1>3. ToSet(u) = ToSet(s) \cup ToSet(t)
  <2>1. ToSet(u) \subseteq ToSet(s) \cup ToSet(t)
    BY <1>2 DEF ToSet
  <2>2. ToSet(s) \subseteq ToSet(u)
    BY <1>1 DEF ToSet
  <2>3. ToSet(t) \subseteq ToSet(u)
    <3>1. \A i \in DOMAIN t : Len(s) + i \in DOMAIN u /\ u[Len(s) + i] = t[i]
      BY <1>1
    <3> QED BY <3>1 DEF ToSet
  <2> QED BY <2>1, <2>2, <2>3
<1>4. ASSUME Single(s), Single(t), ToSet(s) \cap ToSet(t) = {}
      PROVE  Single(u)
  <2> SUFFICES ASSUME NEW i \in DOMAIN u, NEW j \in DOMAIN u, u[i] = u[j]
               PROVE  i = j
    BY DEF Single
  <2>1. CASE i \in DOMAIN s /\ u[i] = s[i] /\ j \in DOMAIN s /\ u[j] = s[j]
    BY <2>1, <1>4 DEF Single
  <2>2. CASE /\ i - Len(s) \in DOMAIN t /\ u[i] = t[i - Len(s)]
             /\ j - Len(s) \in DOMAIN t /\ u[j] = t[j - Len(s)]
    <3>1. i - Len(s) = j - Len(s)
      BY <2>2, <1>4 DEF Single
    <3> QED BY <3>1, <1>1
  <2>3. CASE \/ u[i] \in ToSet(s) /\ u[j] \in ToSet(t)
             \/ u[j] \in ToSet(s) /\ u[i] \in ToSet(t)
    BY <2>3, <1>4
  <2> QED BY <2>1, <2>2, <2>3, <1>2 DEF ToSet
<1> QED BY <1>1, <1>3, <1>4 DEF u

LEMMA AppendOps ==
  ASSUME NEW T, NEW s \in Seq(T), NEW o \in T
  PROVE  /\ Append(s, o) \in Seq(T)
         /\ ToSet(Append(s, o)) = ToSet(s) \cup {o}
         /\ Single(s) /\ o \notin ToSet(s) => Single(Append(s, o))
<1> DEFINE t == <<o>>
<1>1. Append(s, o) = s \o t
  BY AppendIsConcat
<1>2. t \in Seq(T) /\ DOMAIN t = {1} /\ t[1] = o
  OBVIOUS
<1> HIDE DEF t
<1>3. ToSet(t) = {o} /\ Single(t)
  BY <1>2 DEF ToSet, Single
<1>4. /\ s \o t \in Seq(T) /\ ToSet(s \o t) = ToSet(s) \cup ToSet(t)
      /\ Single(s) /\ Single(t) /\ ToSet(s) \cap ToSet(t) = {} => Single(s \o t)
  BY <1>2, ConcatOps
<1> QED BY <1>1, <1>3, <1>4

LEMMA TailOps ==
  ASSUME NEW T, NEW s \in Seq(T), s # <<>>, Single(s)
  PROVE  /\ Tail(s) \in Seq(T) /\ Head(s) \in ToSet(s)
         /\ ToSet(Tail(s)) = ToSet(s) \ {Head(s)} /\ Single(Tail(s))
<1>1. /\ Tail(s) \in Seq(T) /\ Len(Tail(s)) = Len(s) - 1 /\ Len(s) \in Nat \ {0}
      /\ \A i \in 1 .. Len(s) - 1 : Tail(s)[i] = s[i + 1]
      /\ Head(s) = s[1] /\ DOMAIN s = 1 .. Len(s) /\ DOMAIN Tail(s) = 1 .. Len(s) - 1
  OBVIOUS
<1> DEFINE t == Tail(s)
           h == Head(s)
<1> HIDE DEF t, h
<1>2. /\ \A i \in DOMAIN t : i + 1 \in DOMAIN s /\ t[i] = s[i + 1] /\ i + 1 # 1
      /\ \A i \in DOMAIN s : i # 1 => i - 1 \in DOMAIN t /\ t[i - 1] = s[i]
      /\ 1 \in DOMAIN s /\ h = s[1]
  BY <1>1 DEF t, h
<1>3. \A i \in DOMAIN s : i # 1 => s[i] # h
  BY <1>2 DEF Single
<1>4. ToSet(t) = ToSet(s) \ {h}
  <2>1. ToSet(t) \subseteq ToSet(s) \ {h}
    BY <1>2, <1>3 DEF ToSet
  <2>2. ToSet(s) \ {h} \subseteq ToSet(t)
    BY <1>2 DEF ToSet
  <2> QED BY <2>1, <2>2
<1>5. Single(t)
  <2> SUFFICES ASSUME NEW i \in DOMAIN t, NEW j \in DOMAIN t, t[i] = t[j]
               PROVE  i = j
    BY DEF Single
  <2>1. i + 1 = j + 1
    BY <1>2 DEF Single
  <2> QED BY <2>1, <1>1 DEF t
<1>6. h \in ToSet(s)
  BY <1>2 DEF ToSet
<1> QED BY <1>1, <1>4, <1>5, <1>6 DEF t, h

(* SetToSeq lists a finite set, each of its elements once.                 *)
LEMMA SetToSeqLists ==
  ASSUME NEW S, IsFiniteSet(S)
  PROVE  /\ SetToSeq(S) \in [1 .. Cardinality(S) -> S]
         /\ \A i, j \in 1 .. Cardinality(S) : SetToSeq(S)[i] = SetToSeq(S)[j] => i = j
<1> DEFINE D == 1 .. Cardinality(S)
<1>1. \E f \in [D -> S] : IsInjective(f)
  BY FS_CardinalityType DEF ExistsBijection, Bijection, Injection, IsInjective
<1>2. SetToSeq(S) \in [D -> S] /\ IsInjective(SetToSeq(S))
  BY <1>1 DEF SetToSeq
<1> QED BY <1>2 DEF IsInjective
-----------------------------------------------------------------------------
(* Textures.                                                               *)
LEMMA ReplaceKeeps ==
  ASSUME TexInv, gpu' = gpu, updated' \in [Chains -> BOOLEAN],
         NEW c \in Chains, NEW t \in Objects \cup {None}, Replace(c, t)
  PROVE  /\ TexInv'
         /\ texture[c] = None => alive \subseteq alive'
         /\ texture' \in [Chains -> Objects \cup {None}] /\ texture'[c] = t
<1> USE TexturesAssumption
<1>1. /\ texture \in [Chains -> Objects \cup {None}] /\ alive \subseteq Objects
      /\ t \notin alive /\ texture' = [texture EXCEPT ![c] = t]
      /\ alive' = (alive \ {texture[c]}) \cup ({t} \ {None})
      /\ \A d \in Chains : texture[d] # None => texture[d] \in alive
      /\ \A d, e \in Chains : texture[d] = texture[e] /\ texture[d] # None => d = e
      /\ gpu \in Cases
  BY DEF TexInv, TexTypeOK, Replace
<1>2. /\ texture' \in [Chains -> Objects \cup {None}] /\ texture'[c] = t
      /\ \A d \in Chains : d # c => texture'[d] = texture[d]
      /\ alive' \subseteq Objects
  BY <1>1
<1>3. \A d \in Chains : texture'[d] # None => texture'[d] \in alive'
  BY <1>1, <1>2
<1>4. \A d, e \in Chains : texture'[d] = texture'[e] /\ texture'[d] # None => d = e
  BY <1>1, <1>2
<1> QED BY <1>1, <1>2, <1>3, <1>4 DEF TexInv, TexTypeOK

LEMMA TexKeeps ==
  ASSUME TexInv, UNCHANGED <<gpu, texture, alive>>, updated' \in [Chains -> BOOLEAN]
  PROVE  TexInv'
BY DEF TexInv, TexTypeOK

LEMMA ChainType == TexTypeOK => Chain \in gpu.chains /\ Chain \in Chains
BY CasesAssumption DEF TexTypeOK, Chain
-----------------------------------------------------------------------------
(* Direct3D 12.                                                            *)
(* Items that are added to a queue come last, and the rest stays.          *)
LEMMA Grows ==
  ASSUME lists \in [Queues -> Seq(ItemSet)], NEW q \in Queues, NEW s \in Seq(ItemSet),
         lists' = [lists EXCEPT ![q] = @ \o s]
  PROVE  /\ lists' \in [Queues -> Seq(ItemSet)]
         /\ \A r \in Queues : \A i \in DOMAIN lists'[r] :
              \/ i \in DOMAIN lists[r] /\ lists'[r][i] = lists[r][i]
              \/ /\ r = q /\ i > Len(lists[q]) /\ i - Len(lists[q]) \in DOMAIN s
                 /\ lists'[r][i] = s[i - Len(lists[q])]
         /\ \A r \in Queues : \A i \in DOMAIN lists[r] : i \in Nat
         /\ \A i \in DOMAIN lists[q] : i <= Len(lists[q])
         /\ Len(lists[q]) \in Nat /\ \A i \in DOMAIN s : i \in Nat
<1> DEFINE l == lists[q]
           u == l \o s
<1>1. l \in Seq(ItemSet)
  OBVIOUS
<1>2. /\ u \in Seq(ItemSet) /\ Len(l) \in Nat
      /\ \A i \in DOMAIN u :
           \/ i \in DOMAIN l /\ u[i] = l[i]
           \/ i > Len(l) /\ i - Len(l) \in DOMAIN s /\ u[i] = s[i - Len(l)]
      /\ \A i \in DOMAIN l : i <= Len(l) /\ i \in Nat
      /\ \A i \in DOMAIN s : i \in Nat
  BY <1>1
<1>3. lists'[q] = u /\ \A r \in Queues : r # q => lists'[r] = lists[r]
  OBVIOUS
<1>4. \A r \in Queues : \A i \in DOMAIN lists[r] : i \in Nat
  <2> SUFFICES ASSUME NEW r \in Queues PROVE \A i \in DOMAIN lists[r] : i \in Nat
    OBVIOUS
  <2>1. lists[r] \in Seq(ItemSet)
    OBVIOUS
  <2> QED BY <2>1
<1>5. lists' \in [Queues -> Seq(ItemSet)]
  BY <1>2
<1> HIDE DEF u
<1> QED BY <1>2, <1>3, <1>4, <1>5

LEMMA Shrinks ==
  ASSUME lists \in [Queues -> Seq(ItemSet)], NEW q \in Queues, lists[q] # <<>>,
         lists' = [lists EXCEPT ![q] = Tail(@)]
  PROVE  /\ lists' \in [Queues -> Seq(ItemSet)]
         /\ Head(lists[q]) = lists[q][1] /\ 1 \in DOMAIN lists[q]
         /\ Head(lists[q]) \in ItemSet
         /\ \A i \in DOMAIN lists'[q] :
              i \in Nat \ {0} /\ i + 1 \in DOMAIN lists[q] /\ lists'[q][i] = lists[q][i + 1]
         /\ \A r \in Queues : r # q => lists'[r] = lists[r]
<1> DEFINE l == lists[q]
           t == Tail(l)
<1>1. l \in Seq(ItemSet) /\ l # <<>>
  OBVIOUS
<1>2. /\ t \in Seq(ItemSet) /\ Head(l) = l[1] /\ 1 \in DOMAIN l /\ Head(l) \in ItemSet
      /\ \A i \in DOMAIN t : i \in Nat \ {0} /\ i + 1 \in DOMAIN l /\ t[i] = l[i + 1]
  BY <1>1
<1>3. lists'[q] = t /\ \A r \in Queues : r # q => lists'[r] = lists[r]
  OBVIOUS
<1>5. lists' \in [Queues -> Seq(ItemSet)]
  BY <1>2
<1> HIDE DEF t
<1> QED BY <1>2, <1>3, <1>5

LEMMA ItemBuffers ==
  ASSUME DxTypeOK, NEW q \in Queues, NEW i \in DOMAIN lists[q]
  PROVE  lists[q][i] \in ItemSet /\ lists[q][i].buffer \in Bufs
<1>1. lists[q] \in Seq(ItemSet)
  BY DEF DxTypeOK
<1>2. lists[q][i] \in ItemSet
  BY <1>1
<1> QED BY <1>2 DEF ItemSet

(* What Fence and AllocsInv say of a state in which the queues have items  *)
(* that they had before, at the same places.                               *)
LEMMA FenceStays ==
  ASSUME FenceInv, UNCHANGED <<fence, fenceVal>>, alive \subseteq alive',
         \A q \in Queues : \A i \in DOMAIN lists'[q] :
           lists'[q][i].kind \in {"list", "signal"} =>
             i \in DOMAIN lists[q] /\ lists'[q][i] = lists[q][i]
  PROVE  FenceInv'
<1>1. \A q \in Queues : \A i \in Work(q)' :
        i \in Work(q) /\ lists'[q][i] = lists[q][i]
  BY DEF Work
<1>2. \A q \in Queues : \A i \in ListsOn(q)' :
        i \in ListsOn(q) /\ lists'[q][i] = lists[q][i]
  BY DEF ListsOn
<1> QED BY <1>1, <1>2 DEF FenceInv

LEMMA AllocsStay ==
  ASSUME AllocsInv, UNCHANGED allocs,
         frame' \in {"present", "draw"} => UNCHANGED buffer /\ frame \in {"present", "draw"},
         \A q \in Queues : \A i \in DOMAIN lists'[q] :
           lists'[q][i].kind = "list" => i \in DOMAIN lists[q] /\ lists'[q][i] = lists[q][i]
  PROVE  AllocsInv'
<1>1. \A q \in Queues : \A i \in ListsOn(q)' :
        i \in ListsOn(q) /\ lists'[q][i] = lists[q][i]
  BY DEF ListsOn
<1>2. ASSUME NEW q \in Queues, NEW i \in ListsOn(q)'
      PROVE  OnlyList(q, i)'
  BY <1>1, <1>2 DEF AllocsInv, OnlyList
<1> QED BY <1>1, <1>2 DEF AllocsInv

(* When the fence has reached its value no list is unfinished.             *)
LEMMA ReachedIsDone ==
  ASSUME FrameInv, FenceInv, Reached
  PROVE  \A q \in Queues : \A i \in DOMAIN lists[q] : lists[q][i].kind # "list"
<1>1. fence \in Nat /\ fenceVal \in Nat /\ ~(fence < fenceVal)
  BY Dx12Assumption DEF FrameInv, DxTypeOK, Reached
<1> QED BY <1>1 DEF FenceInv, Work

LEMMA NoOverlayKeeps ==
  ASSUME TexInv, DxInv, NoOverlay
  PROVE  TexInv' /\ DxInv'
<1>1. /\ frame' = "execute" /\ last' = None
      /\ UNCHANGED <<gpu, updated, texture, alive, lists, fence, fenceVal, allocs, buffer, lapses>>
  BY DEF NoOverlay, texVars
<1>2. TexInv'
  BY <1>1, TexKeeps DEF TexInv, TexTypeOK
<1>3. FrameInv'
  BY <1>1 DEF DxTypeOK, DxInv, FrameInv
<1>4. "queues" \notin lapses' => FenceInv'
  BY <1>1, FenceStays DEF DxInv
<1>5. lapses' \cap {"ahead", "other", "queues"} = {} => AllocsInv'
  BY <1>1, AllocsStay DEF DxInv
<1> QED BY <1>2, <1>3, <1>4, <1>5 DEF DxInv

LEMMA KeepsKeeps ==
  ASSUME TexInv, DxInv, Keeps
  PROVE  TexInv' /\ DxInv'
<1>1. /\ frame = "present" /\ last # None
      /\ \/ frame' = "execute" /\ last' = None
         \/ frame' = "draw" /\ last' = last /\ texture[Chain] # None
      /\ UNCHANGED <<gpu, updated, texture, alive, lists, fence, fenceVal, allocs, buffer, lapses>>
  BY DEF Keeps, texVars
<1>2. TexInv'
  BY <1>1, TexKeeps DEF TexInv, TexTypeOK
<1>3. FrameInv'
  <2>1. DxTypeOK'
    BY <1>1 DEF DxTypeOK, DxInv, FrameInv
  <2>2. Chain' = Chain
    BY <1>1 DEF Chain
  <2> QED BY <1>1, <2>1, <2>2 DEF DxInv, FrameInv
<1>4. "queues" \notin lapses' => FenceInv'
  BY <1>1, FenceStays DEF DxInv
<1>5. lapses' \cap {"ahead", "other", "queues"} = {} => AllocsInv'
  BY <1>1, AllocsStay DEF DxInv
<1> QED BY <1>2, <1>3, <1>4, <1>5 DEF DxInv

LEMMA UpdatesKeeps ==
  ASSUME TexInv, DxInv, Updates
  PROVE  TexInv' /\ DxInv'
<1>1. PICK t \in Objects \cup {None} :
        /\ Replace(Chain, t)
        /\ IF t = None THEN frame' = "execute" /\ last' = None
                       ELSE frame' = "draw" /\ UNCHANGED last
  BY DEF Updates
<1>2. /\ frame = "present" /\ last # None /\ Reached /\ Taken(Chain)
      /\ UNCHANGED <<gpu, lists, fence, fenceVal, allocs, buffer, lapses>>
  BY DEF Updates
<1>3. Chain \in Chains /\ updated' \in [Chains -> BOOLEAN] /\ Chain' = Chain
  BY <1>2, ChainType DEF TexInv, TexTypeOK, Taken, Chain
<1>4. TexInv' /\ texture'[Chain] = t
  BY <1>1, <1>2, <1>3, ReplaceKeeps
<1>5. FrameInv'
  <2>1. DxTypeOK'
    BY <1>1, <1>2 DEF DxTypeOK, DxInv, FrameInv
  <2> QED BY <1>1, <1>2, <1>3, <1>4, <2>1 DEF DxInv, FrameInv
<1>6. ASSUME "queues" \notin lapses'
      PROVE  FenceInv'
  <2>1. FenceInv /\ \A q \in Queues : \A i \in DOMAIN lists[q] : lists[q][i].kind # "list"
    BY <1>2, <1>6, ReachedIsDone DEF DxInv
  <2>2. \A q \in Queues : Work(q)' = Work(q) /\ ListsOn(q)' = {}
    BY <1>2, <2>1 DEF Work, ListsOn
  <2> QED BY <1>2, <2>1, <2>2 DEF FenceInv, Work
<1>7. lapses' \cap {"ahead", "other", "queues"} = {} => AllocsInv'
  BY <1>1, <1>2, AllocsStay DEF DxInv
<1> QED BY <1>4, <1>5, <1>6, <1>7 DEF DxInv

LEMMA MutexFailsKeeps ==
  ASSUME TexInv, DxInv, MutexFails
  PROVE  TexInv' /\ DxInv'
<1>1. /\ frame = "draw" /\ frame' = "execute" /\ last' = None
      /\ allocs' = [allocs EXCEPT ![buffer] = None]
      /\ UNCHANGED <<gpu, updated, texture, alive, lists, fence, fenceVal, buffer, lapses>>
  BY DEF MutexFails, texVars
<1>2. TexInv'
  BY <1>1, TexKeeps DEF TexInv, TexTypeOK
<1>3. FrameInv'
  BY <1>1 DEF DxTypeOK, DxInv, FrameInv
<1>4. "queues" \notin lapses' => FenceInv'
  BY <1>1, FenceStays DEF DxInv
<1>5. ASSUME lapses' \cap {"ahead", "other", "queues"} = {} PROVE AllocsInv'
  <2>1. AllocsInv /\ allocs \in [Bufs -> Objects \cup {None}]
    BY <1>1, <1>5 DEF DxInv, FrameInv, DxTypeOK
  <2>2. \A q \in Queues : ListsOn(q)' = ListsOn(q) /\ \A i \in ListsOn(q) :
          /\ OnlyList(q, i)' <=> OnlyList(q, i)
          /\ lists[q][i].buffer # buffer
    BY <1>1, <2>1 DEF ListsOn, OnlyList, AllocsInv
  <2>3. \A b : b # buffer => allocs'[b] = allocs[b] \/ b \notin Bufs
    BY <1>1, <2>1
  <2>4. \A q \in Queues : \A i \in ListsOn(q) : lists[q][i].buffer \in Bufs
    BY ItemBuffers DEF DxInv, FrameInv, ListsOn
  <2> QED BY <1>1, <2>1, <2>2, <2>3, <2>4 DEF AllocsInv
<1> QED BY <1>2, <1>3, <1>4, <1>5 DEF DxInv

LEMMA FlipKeeps ==
  ASSUME TexInv, DxInv, Flip
  PROVE  TexInv' /\ DxInv'
<1> DEFINE new == <<Item("present", buffer, None, 0)>>
<1>1. /\ frame = "execute" /\ frame' = "app" /\ buffer' = (buffer + 1) % BackBuffers
      /\ lists' = [lists EXCEPT ![Main] = Append(@, Item("present", buffer, None, 0))]
      /\ UNCHANGED <<gpu, updated, texture, alive, fence, fenceVal, allocs, last, lapses>>
  BY DEF Flip, texVars
<1>2. TexInv'
  BY <1>1, TexKeeps DEF TexInv, TexTypeOK
<1>3. /\ lists \in [Queues -> Seq(ItemSet)] /\ buffer \in Bufs /\ Main \in Queues
      /\ buffer' \in Bufs
  <2>1. buffer \in 0 .. BackBuffers - 1 /\ BackBuffers \in Nat \ {0}
    BY Dx12Assumption DEF DxInv, FrameInv, DxTypeOK, Bufs
  <2>2. (buffer + 1) % BackBuffers \in 0 .. BackBuffers - 1
    BY <2>1
  <2> QED BY <1>1, <2>1, <2>2, Dx12Assumption DEF DxInv, FrameInv, DxTypeOK, Bufs
<1>4. /\ new \in Seq(ItemSet) /\ lists' = [lists EXCEPT ![Main] = @ \o new]
      /\ \A i \in DOMAIN new : new[i].kind = "present"
  <2>1. Item("present", buffer, None, 0) \in ItemSet
    BY <1>3, Dx12Assumption DEF Item, ItemSet
  <2>2. lists[Main] \in Seq(ItemSet)
    BY <1>3
  <2>3. Append(lists[Main], Item("present", buffer, None, 0)) = lists[Main] \o new
    BY <2>1, <2>2, AppendIsConcat
  <2>4. new \in Seq(ItemSet) /\ DOMAIN new = {1} /\ new[1] = Item("present", buffer, None, 0)
    BY <2>1
  <2>5. lists' = [lists EXCEPT ![Main] = @ \o new]
    BY <1>1, <2>3
  <2> HIDE DEF new
  <2>6. \A i \in DOMAIN new : new[i].kind = "present"
    BY <2>4 DEF Item
  <2> QED BY <2>4, <2>5, <2>6
<1> HIDE DEF new
<1>5. /\ lists' \in [Queues -> Seq(ItemSet)]
      /\ \A q \in Queues : \A i \in DOMAIN lists'[q] :
           lists'[q][i].kind \in {"list", "signal"} =>
             i \in DOMAIN lists[q] /\ lists'[q][i] = lists[q][i]
  BY <1>3, <1>4, Grows
<1>6. FrameInv'
  BY <1>1, <1>3, <1>5 DEF DxInv, FrameInv, DxTypeOK, Bufs, ItemSet
<1>7. "queues" \notin lapses' => FenceInv'
  BY <1>1, <1>5, FenceStays DEF DxInv
<1>8. lapses' \cap {"ahead", "other", "queues"} = {} => AllocsInv'
  BY <1>1, <1>5, AllocsStay DEF DxInv
<1> QED BY <1>2, <1>6, <1>7, <1>8 DEF DxInv

LEMMA DropFramesKeeps ==
  ASSUME TexInv, DxInv, DropFrames
  PROVE  TexInv' /\ DxInv'
<1>1. /\ frame = "app" /\ Reached /\ Replace(Chain, None)
      /\ updated' = [updated EXCEPT ![Chain] = TRUE]
      /\ fence' = 0 /\ fenceVal' = 0 /\ allocs' = [b \in Bufs |-> None] /\ buffer' = 0
      /\ lists' = [q \in Queues |-> [i \in DOMAIN lists[q] |-> Void(lists[q][i])]]
      /\ UNCHANGED <<gpu, frame, last, lapses>>
  BY DEF DropFrames
<1>2. TexInv'
  BY <1>1, ChainType, ReplaceKeeps DEF TexInv, TexTypeOK
<1>3. \A q \in Queues :
        /\ lists'[q] \in Seq(ItemSet) /\ DOMAIN lists'[q] = DOMAIN lists[q]
        /\ \A i \in DOMAIN lists[q] :
             /\ lists'[q][i].kind # "signal"
             /\ lists'[q][i].kind = "list" => lists[q][i].kind = "list"
  <2> SUFFICES ASSUME NEW q \in Queues
               PROVE  /\ lists'[q] \in Seq(ItemSet) /\ DOMAIN lists'[q] = DOMAIN lists[q]
                      /\ \A i \in DOMAIN lists[q] :
                           /\ lists'[q][i].kind # "signal"
                           /\ lists'[q][i].kind = "list" => lists[q][i].kind = "list"
    OBVIOUS
  <2>1. lists[q] \in Seq(ItemSet) /\ \A i \in DOMAIN lists[q] : lists[q][i] \in ItemSet
    BY ItemBuffers DEF DxInv, FrameInv, DxTypeOK
  <2>2. lists'[q] = [i \in DOMAIN lists[q] |-> Void(lists[q][i])]
    BY <1>1
  <2>3. \A i \in DOMAIN lists[q] :
          /\ Void(lists[q][i]) \in ItemSet
          /\ Void(lists[q][i]).kind # "signal"
          /\ Void(lists[q][i]).kind = "list" => lists[q][i].kind = "list"
    BY <2>1, Dx12Assumption DEF Void, Item, ItemSet
  <2>4. DOMAIN lists[q] = 1 .. Len(lists[q]) /\ Len(lists[q]) \in Nat
    BY <2>1
  <2>5. lists'[q] \in Seq(ItemSet)
    BY <2>2, <2>3, <2>4
  <2> QED BY <2>2, <2>3, <2>5
<1>4. FrameInv'
  <2>1. lists' \in [Queues -> Seq(ItemSet)]
    BY <1>1, <1>3
  <2>2. 0 \in 0 .. MaxVal /\ 0 \in Bufs
    BY Dx12Assumption DEF Bufs
  <2> QED BY <1>1, <2>1, <2>2 DEF DxInv, FrameInv, DxTypeOK, Bufs, ItemSet
<1>5. ASSUME "queues" \notin lapses'
      PROVE  FenceInv' /\ AllocsInv'
  <2>1. FenceInv /\ \A q \in Queues : \A i \in DOMAIN lists[q] : lists[q][i].kind # "list"
    BY <1>1, <1>5, ReachedIsDone DEF DxInv
  <2>2. \A q \in Queues : Work(q)' = {} /\ ListsOn(q)' = {}
    BY <1>3, <2>1 DEF Work, ListsOn
  <2> QED BY <1>1, <2>2 DEF FenceInv, AllocsInv
<1> QED BY <1>2, <1>4, <1>5 DEF DxInv

LEMMA CommitKeeps ==
  ASSUME TexInv, DxInv, Commit(Chain), UNCHANGED dxVars
  PROVE  TexInv' /\ DxInv'
<1>1. /\ updated' = [updated EXCEPT ![Chain] = TRUE]
      /\ UNCHANGED <<gpu, texture, alive, lists, fence, fenceVal, allocs, frame, buffer, last, lapses>>
  BY DEF Commit, dxVars
<1>2. TexInv'
  BY <1>1, TexKeeps DEF TexInv, TexTypeOK
<1>3. FrameInv'
  BY <1>1 DEF DxInv, FrameInv, DxTypeOK, Chain, ItemSet, Bufs
<1>4. "queues" \notin lapses' => FenceInv'
  BY <1>1, FenceStays DEF DxInv
<1>5. lapses' \cap {"ahead", "other", "queues"} = {} => AllocsInv'
  BY <1>1, AllocsStay DEF DxInv
<1> QED BY <1>2, <1>3, <1>4, <1>5 DEF DxInv

LEMMA ExecuteKeeps ==
  ASSUME TexInv, DxInv, NEW q \in Queues, Execute(q)
  PROVE  TexInv' /\ DxInv'
<1>1. /\ frame = "app" /\ fenceVal < MaxVal /\ frame' = "present" /\ last' = q
      /\ lapses' = lapses \cup IF \E i \in Items(Main) : i.buffer = buffer THEN {"ahead"} ELSE {}
      /\ UNCHANGED <<gpu, updated, texture, alive, lists, fence, fenceVal, allocs, buffer>>
  BY DEF Execute, texVars
<1>2. TexInv'
  BY <1>1, TexKeeps DEF TexInv, TexTypeOK
<1>3. FrameInv'
  BY <1>1 DEF DxInv, FrameInv, DxTypeOK, ItemSet, Bufs
<1>4. "queues" \notin lapses' => FenceInv'
  BY <1>1, FenceStays DEF DxInv
<1>5. ASSUME lapses' \cap {"ahead", "other", "queues"} = {} PROVE AllocsInv'
  <2>1. AllocsInv /\ \A i \in Items(Main) : i.buffer # buffer
    BY <1>1, <1>5 DEF DxInv
  <2>2. \A i \in ListsOn(Main) : lists[Main][i].buffer # buffer
    BY <2>1 DEF Items, ListsOn
  <2>3. \A r \in Queues : ListsOn(r)' = ListsOn(r) /\ \A i \in ListsOn(r) :
          OnlyList(r, i)' <=> OnlyList(r, i)
    BY <1>1 DEF ListsOn, OnlyList
  <2> QED BY <1>1, <2>1, <2>2, <2>3 DEF AllocsInv
<1> QED BY <1>2, <1>3, <1>4, <1>5 DEF DxInv

LEMMA CompleteKeeps ==
  ASSUME TexInv, DxInv, NEW q \in Queues, Complete(q)
  PROVE  TexInv' /\ DxInv'
<1> DEFINE h == Head(lists[q])
<1>1. /\ lists[q] # <<>> /\ lists' = [lists EXCEPT ![q] = Tail(@)]
      /\ fence' = IF h.kind = "signal" THEN h.val ELSE fence
      /\ allocs' = IF h.kind = "list" THEN [allocs EXCEPT ![h.buffer] = None] ELSE allocs
      /\ UNCHANGED <<gpu, updated, texture, alive, fenceVal, frame, buffer, last, lapses>>
  BY DEF Complete, texVars
<1>2. TexInv'
  BY <1>1, TexKeeps DEF TexInv, TexTypeOK
<1>3. DxTypeOK
  BY DEF DxInv, FrameInv
<1>4. /\ lists' \in [Queues -> Seq(ItemSet)]
      /\ h = lists[q][1] /\ 1 \in DOMAIN lists[q] /\ h \in ItemSet
      /\ \A i \in DOMAIN lists'[q] :
           i \in Nat \ {0} /\ i + 1 \in DOMAIN lists[q] /\ lists'[q][i] = lists[q][i + 1]
      /\ \A r \in Queues : r # q => lists'[r] = lists[r]
  BY <1>1, <1>3, Shrinks DEF DxTypeOK
<1> HIDE DEF h
<1>5. h.val \in 0 .. MaxVal /\ h.buffer \in Bufs
  BY <1>4 DEF ItemSet
<1>6. FrameInv'
  <2>1. DxTypeOK'
    BY <1>1, <1>3, <1>4, <1>5 DEF DxTypeOK, ItemSet, Bufs
  <2>2. Chain' = Chain
    BY <1>1 DEF Chain
  <2> QED BY <1>1, <2>1, <2>2 DEF DxInv, FrameInv
<1>7. /\ \A i \in Work(q)' : i \in Nat \ {0} /\ i + 1 \in Work(q) /\ lists'[q][i] = lists[q][i + 1]
      /\ \A i \in ListsOn(q)' :
           i \in Nat \ {0} /\ i + 1 \in ListsOn(q) /\ lists'[q][i] = lists[q][i + 1]
      /\ \A r \in Queues : r # q => Work(r)' = Work(r) /\ ListsOn(r)' = ListsOn(r)
  BY <1>4 DEF Work, ListsOn
<1>8. \A r \in Queues : \A i \in ListsOn(r) : i \in Work(r)
  BY DEF ListsOn, Work
<1>9. ASSUME "queues" \notin lapses'
      PROVE  FenceInv'
  <2>1. FenceInv
    BY <1>1, <1>9 DEF DxInv
  <2>2. fence \in Nat /\ fenceVal \in Nat /\ h.val \in Nat /\ fence \in Int
    BY <1>3, <1>5, Dx12Assumption DEF DxTypeOK
  <2>3. fence' <= fenceVal
    <3>1. h.kind = "signal" => 1 \in Work(q)
      BY <1>4 DEF Work
    <3> QED BY <1>1, <1>4, <2>1, <3>1 DEF FenceInv
  <2>4. \A r, u \in Queues : Work(r)' # {} /\ Work(u)' # {} => r = u
    <3>1. \A r \in Queues : Work(r)' # {} => Work(r) # {}
      BY <1>7
    <3> QED BY <2>1, <3>1 DEF FenceInv
  <2>5. ASSUME NEW r \in Queues, NEW i \in Work(r)'
        PROVE  /\ lists'[r][i].val <= fenceVal
               /\ lists'[r][i].kind = "list" => fence' < fenceVal /\ lists'[r][i].tex \in alive
               /\ lists'[r][i].kind = "signal" =>
                    \A j \in ListsOn(r)' : i < j => lists'[r][i].val < fenceVal
    <3>1. CASE r = q
      <4>1. i \in Nat \ {0} /\ i + 1 \in Work(q) /\ lists'[q][i] = lists[q][i + 1]
        BY <3>1, <1>7, <2>5
      <4>2. lists[q][i + 1].kind = "list" => i + 1 \in ListsOn(q) /\ 1 < i + 1
        BY <4>1 DEF Work, ListsOn
      <4>3. h.kind = "signal" => 1 \in Work(q)
        BY <1>4 DEF Work
      <4>4. lists[q][i + 1].kind = "list" => fence' < fenceVal /\ lists[q][i + 1].tex \in alive
        BY <4>1, <4>2, <4>3, <1>1, <1>4, <2>1 DEF FenceInv
      <4>5. ASSUME lists[q][i + 1].kind = "signal", NEW j \in ListsOn(q)', i < j
            PROVE  lists[q][i + 1].val < fenceVal
        <5>1. j + 1 \in ListsOn(q) /\ j \in Nat /\ i + 1 < j + 1
          BY <4>1, <4>5, <1>7
        <5> QED BY <5>1, <4>1, <4>5, <2>1 DEF FenceInv
      <4> QED BY <3>1, <4>1, <4>4, <4>5, <2>1 DEF FenceInv
    <3>2. CASE r # q
      <4>1. i \in Work(r) /\ lists'[r] = lists[r] /\ ListsOn(r)' = ListsOn(r)
        BY <3>2, <1>4, <1>7, <2>5
      <4>2. h.kind # "signal"
        <5>1. h.kind = "signal" => 1 \in Work(q)
          BY <1>4 DEF Work
        <5> QED BY <5>1, <4>1, <3>2, <2>1 DEF FenceInv
      <4> QED BY <4>1, <4>2, <1>1, <2>1 DEF FenceInv
    <3> QED BY <3>1, <3>2
  <2> QED BY <1>1, <2>3, <2>4, <2>5 DEF FenceInv
<1>10. ASSUME lapses' \cap {"ahead", "other", "queues"} = {}
       PROVE  AllocsInv'
  <2>1. AllocsInv /\ allocs \in [Bufs -> Objects \cup {None}]
    BY <1>1, <1>3, <1>10 DEF DxInv, DxTypeOK
  <2>2. \A r \in Queues : \A i \in ListsOn(r)' : r = Main
    BY <1>7, <2>1 DEF AllocsInv
  <2>4. ASSUME NEW i \in ListsOn(q)'
        PROVE  /\ q = Main
               /\ allocs'[lists'[q][i].buffer] = lists'[q][i].tex
               /\ OnlyList(q, i)'
               /\ frame \in {"present", "draw"} => lists'[q][i].buffer # buffer
    <3>1. i \in Nat \ {0} /\ i + 1 \in ListsOn(q) /\ lists'[q][i] = lists[q][i + 1]
      BY <1>7, <2>4
    <3>2. /\ q = Main /\ OnlyList(q, i + 1)
          /\ allocs[lists[q][i + 1].buffer] = lists[q][i + 1].tex
          /\ frame \in {"present", "draw"} => lists[q][i + 1].buffer # buffer
      BY <3>1, <2>1 DEF AllocsInv
    <3>3. h.kind = "list" => h.buffer # lists[q][i + 1].buffer
      <4>1. h.kind = "list" => 1 \in ListsOn(q)
        BY <1>4 DEF ListsOn
      <4>2. 1 # i + 1
        BY <3>1
      <4> QED BY <4>1, <4>2, <3>2, <1>4 DEF OnlyList
    <3>4. OnlyList(q, i)'
      <4> SUFFICES ASSUME NEW r \in Queues, NEW j \in ListsOn(r)',
                          lists'[r][j].buffer = lists'[q][i].buffer
                   PROVE  r = q /\ j = i
        BY DEF OnlyList
      <4>1. r = q
        BY <2>2, <3>2
      <4>2. j \in Nat /\ j + 1 \in ListsOn(q) /\ lists'[q][j] = lists[q][j + 1]
        BY <4>1, <1>7
      <4>3. j + 1 = i + 1
        BY <4>1, <4>2, <3>1, <3>2 DEF OnlyList
      <4> QED BY <4>1, <4>2, <4>3, <3>1
    <3>5. allocs'[lists[q][i + 1].buffer] = allocs[lists[q][i + 1].buffer]
      BY <1>1, <3>3, <2>1
    <3> QED BY <3>1, <3>2, <3>4, <3>5
  <2>5. ASSUME NEW r \in Queues, NEW i \in ListsOn(r)', r # q
        PROVE  /\ r = Main
               /\ allocs'[lists'[r][i].buffer] = lists'[r][i].tex
               /\ OnlyList(r, i)'
               /\ frame \in {"present", "draw"} => lists'[r][i].buffer # buffer
    <3>1. i \in ListsOn(r) /\ lists'[r] = lists[r] /\ r = Main
      BY <2>2, <2>5, <1>4, <1>7
    <3>2. OnlyList(r, i) /\ h.kind # "list"
      BY <3>1, <2>1, <2>5, <1>4 DEF AllocsInv, ListsOn
    <3>3. OnlyList(r, i)'
      BY <3>1, <3>2, <2>2, <1>7, <2>5 DEF OnlyList
    <3> QED BY <3>1, <3>2, <3>3, <2>1, <1>1 DEF AllocsInv
  <2> QED BY <1>1, <2>4, <2>5 DEF AllocsInv
<1> QED BY <1>2, <1>6, <1>9, <1>10 DEF DxInv

LEMMA SubmitKeeps ==
  ASSUME TexInv, DxInv, Submit
  PROVE  TexInv' /\ DxInv'
<1> DEFINE t == texture[Chain]
           n == Len(lists[last])
           list == Item("list", buffer, t, 0)
           signal == Item("signal", buffer, None, fenceVal + 1)
<1>1. PICK ok \in BOOLEAN :
        /\ Register(ok)
        /\ lapses' = lapses \cup (IF ok THEN {} ELSE {"signal"})
                            \cup (IF last = Main THEN {} ELSE {"other"})
                            \cup (IF TwoQueues THEN {"queues"} ELSE {})
  BY DEF Submit
<1> DEFINE tail == IF ok THEN <<signal>> ELSE <<>>
           new == <<list>> \o tail
<1>2. /\ frame = "draw" /\ frame' = "execute" /\ last' = None
      /\ allocs' = [allocs EXCEPT ![buffer] = t]
      /\ UNCHANGED <<gpu, updated, texture, alive, fence, buffer>>
      /\ fenceVal' = fenceVal + 1
      /\ lists' = [lists EXCEPT ![last] = @ \o <<list>> \o tail]
  BY <1>1 DEF Submit, texVars, Register
<1>3. TexInv'
  BY <1>2, TexKeeps DEF TexInv, TexTypeOK
<1>4. /\ DxTypeOK /\ lists \in [Queues -> Seq(ItemSet)] /\ last \in Queues
      /\ t \in Objects /\ t \in alive /\ buffer \in Bufs
      /\ fenceVal \in Nat /\ fenceVal < MaxVal /\ fence \in Nat /\ MaxVal \in Nat
      /\ allocs \in [Bufs -> Objects \cup {None}]
  <2>1. Chain \in Chains /\ texture[Chain] # None
    BY <1>2, ChainType DEF TexInv, DxInv, FrameInv
  <2>2. t \in Objects /\ t \in alive
    BY <2>1 DEF TexInv, TexTypeOK
  <2> QED BY <1>2, <2>2, Dx12Assumption DEF DxInv, FrameInv, DxTypeOK
<1>5. list \in ItemSet /\ signal \in ItemSet
  BY <1>4 DEF Item, ItemSet
<1>6. /\ list.kind = "list" /\ list.buffer = buffer /\ list.tex = t /\ list.val = 0
      /\ signal.kind = "signal" /\ signal.val = fenceVal + 1
  BY DEF Item
<1> HIDE DEF list, signal
<1>7. /\ new \in Seq(ItemSet)
      /\ \A i \in DOMAIN new : (i = 1 /\ new[i] = list) \/ (i = 2 /\ new[i] = signal)
      /\ lists' = [lists EXCEPT ![last] = @ \o new]
  <2>1. <<list>> \in Seq(ItemSet) /\ tail \in Seq(ItemSet) /\ lists[last] \in Seq(ItemSet)
    BY <1>4, <1>5
  <2>2. (lists[last] \o <<list>>) \o tail = lists[last] \o new
    <3>1. \A a, b, c \in Seq(ItemSet) : (a \o b) \o c = a \o (b \o c)
      BY ConcatAssociative
    <3> HIDE DEF tail
    <3> QED BY <2>1, <3>1
  <2>3. <<list>> \in Seq(ItemSet) /\ Len(<<list>>) = 1 /\ <<list>>[1] = list
    BY <1>5
  <2>4. \A i \in DOMAIN new : (i = 1 /\ new[i] = list) \/ (i = 2 /\ new[i] = signal)
    <3> DEFINE two == Append(<<list>>, signal)
    <3>1. /\ two \in Seq(ItemSet) /\ Len(two) = 2
          /\ two[1] = list /\ two[2] = signal
      BY <1>5, <2>3, AppendProperties
    <3>2. ok => new = two
      BY <1>5, <2>3, AppendIsConcat
    <3> HIDE DEF two
    <3>3. \A i \in DOMAIN two : (i = 1 /\ two[i] = list) \/ (i = 2 /\ two[i] = signal)
      BY <3>1
    <3>4. ~ok => new = <<list>>
      BY <2>3, ConcatEmptySeq
    <3> HIDE DEF new, tail
    <3> QED BY <3>2, <3>3, <3>4
  <2>5. new \in Seq(ItemSet)
    BY <2>1
  <2> HIDE DEF new, tail
  <2> QED BY <1>2, <2>2, <2>4, <2>5
<1> HIDE DEF new
<1>8. /\ lists' \in [Queues -> Seq(ItemSet)]
      /\ \A r \in Queues : \A i \in DOMAIN lists'[r] :
           \/ i \in DOMAIN lists[r] /\ lists'[r][i] = lists[r][i]
           \/ /\ r = last /\ i > n /\ i - n \in DOMAIN new
              /\ lists'[r][i] = new[i - n]
      /\ \A r \in Queues : \A i \in DOMAIN lists[r] : i \in Nat
      /\ \A i \in DOMAIN lists[last] : i <= n
      /\ n \in Nat /\ \A i \in DOMAIN new : i \in Nat
  BY <1>4, <1>7, Grows
<1> HIDE DEF t
<1>9. FrameInv'
  <2>1. fenceVal + 1 \in 0 .. MaxVal
    BY <1>4
  <2>2. lapses' \subseteq {"ahead", "other", "queues", "signal"}
    BY <1>1, <1>4 DEF DxTypeOK
  <2>3. lists' \in [Queues -> Seq(ItemSet')] /\ Bufs' = Bufs
    BY <1>8 DEF ItemSet, Bufs
  <2>4. allocs' \in [Bufs -> Objects \cup {None}]
    BY <1>2, <1>4
  <2> QED BY <1>2, <1>4, <2>1, <2>2, <2>3, <2>4 DEF DxTypeOK, FrameInv
<1>10. \A r \in Queues : \A i \in DOMAIN lists'[r] :
         \/ i \in DOMAIN lists[r] /\ lists'[r][i] = lists[r][i] /\ (r = last => i <= n)
         \/ r = last /\ i = n + 1 /\ lists'[r][i] = list
         \/ r = last /\ i = n + 2 /\ lists'[r][i] = signal
  <2> SUFFICES ASSUME NEW r \in Queues, NEW i \in DOMAIN lists'[r]
               PROVE  \/ i \in DOMAIN lists[r] /\ lists'[r][i] = lists[r][i] /\ (r = last => i <= n)
                      \/ r = last /\ i = n + 1 /\ lists'[r][i] = list
                      \/ r = last /\ i = n + 2 /\ lists'[r][i] = signal
    OBVIOUS
  <2>1. CASE i \in DOMAIN lists[r] /\ lists'[r][i] = lists[r][i]
    BY <2>1, <1>8
  <2>2. CASE r = last /\ i > n /\ i - n \in DOMAIN new /\ lists'[r][i] = new[i - n]
    <3>1. (i - n = 1 /\ new[i - n] = list) \/ (i - n = 2 /\ new[i - n] = signal)
      BY <2>2, <1>7
    <3>2. lists'[r] \in Seq(ItemSet) /\ i \in Nat
      <4>1. lists'[r] \in Seq(ItemSet)
        BY <1>8
      <4> QED BY <4>1
    <3> QED BY <2>2, <3>1, <3>2, <1>8
  <2> QED BY <2>1, <2>2, <1>8
<1> HIDE DEF n
<1>11. /\ \A r \in Queues : \A i \in Work(r)' :
            \/ i \in Work(r) /\ lists'[r][i] = lists[r][i] /\ (r = last => i <= n) /\ i \in Nat
            \/ r = last /\ i = n + 1 /\ lists'[r][i] = list
            \/ r = last /\ i = n + 2 /\ lists'[r][i] = signal
       /\ \A r \in Queues : \A i \in ListsOn(r)' :
            \/ i \in ListsOn(r) /\ lists'[r][i] = lists[r][i] /\ (r = last => i <= n) /\ i \in Nat
            \/ r = last /\ i = n + 1 /\ lists'[r][i] = list
  BY <1>6, <1>8, <1>10 DEF Work, ListsOn
<1>12. ASSUME "queues" \notin lapses'
       PROVE  FenceInv'
  <2>1. FenceInv /\ ~TwoQueues
    BY <1>1, <1>12 DEF DxInv
  <2>2. \A r \in Queues : r # last => Work(r) = {}
    BY <2>1 DEF TwoQueues, Items, Work
  <2>3. \A r \in Queues : Work(r)' # {} => r = last
    BY <2>2, <1>11
  <2>4. fence' < fenceVal'
    BY <1>2, <1>4, <2>1 DEF FenceInv
  <2>5. ASSUME NEW r \in Queues, NEW i \in Work(r)'
        PROVE  /\ lists'[r][i].val <= fenceVal'
               /\ lists'[r][i].kind = "list" => lists'[r][i].tex \in alive
               /\ lists'[r][i].kind = "signal" =>
                    \A j \in ListsOn(r)' : i < j => lists'[r][i].val < fenceVal'
    <3>1. CASE i \in Work(r) /\ lists'[r][i] = lists[r][i]
      <4>1. /\ lists[r][i].val <= fenceVal
            /\ lists[r][i].kind = "list" => lists[r][i].tex \in alive
        BY <3>1, <2>1 DEF FenceInv
      <4>2. lists[r][i].val \in Nat
        <5>1. lists[r][i] \in ItemSet
          BY <3>1, <1>4, ItemBuffers DEF Work
        <5> QED BY <5>1, <1>4 DEF ItemSet
      <4> QED BY <3>1, <4>1, <4>2, <1>2, <1>4
    <3>2. CASE r = last /\ i = n + 1 /\ lists'[r][i] = list
      BY <3>2, <1>2, <1>4, <1>6
    <3>3. CASE r = last /\ i = n + 2 /\ lists'[r][i] = signal
      <4>1. \A j \in ListsOn(r)' : ~(i < j)
        BY <3>3, <1>8, <1>11
      <4> QED BY <3>3, <4>1, <1>2, <1>4, <1>6
    <3> QED BY <3>1, <3>2, <3>3, <1>11, <2>5
  <2>6. fence' <= fenceVal'
    BY <1>2, <1>4, <2>4
  <2>7. \A r, u \in Queues : Work(r)' # {} /\ Work(u)' # {} => r = u
    BY <2>3
  <2> QED BY <1>2, <2>4, <2>5, <2>6, <2>7 DEF FenceInv
<1>13. ASSUME lapses' \cap {"ahead", "other", "queues"} = {}
       PROVE  AllocsInv'
  <2>1. AllocsInv /\ last = Main
    BY <1>1, <1>13 DEF DxInv
  <2>2. \A r \in Queues : \A i \in ListsOn(r) : r = Main /\ lists[r][i].buffer # buffer
    BY <2>1, <1>2 DEF AllocsInv
  <2>3. ASSUME NEW r \in Queues, NEW i \in ListsOn(r)'
        PROVE  /\ r = Main
               /\ allocs'[lists'[r][i].buffer] = lists'[r][i].tex
               /\ OnlyList(r, i)'
    <3>1. r = Main
      BY <1>11, <2>1, <2>2, <2>3
    <3>2. CASE i \in ListsOn(r) /\ lists'[r][i] = lists[r][i]
      <4>1. OnlyList(r, i) /\ allocs[lists[r][i].buffer] = lists[r][i].tex
        BY <3>2, <2>1 DEF AllocsInv
      <4>2. lists[r][i].buffer # buffer
        BY <3>2, <2>2
      <4>3. OnlyList(r, i)'
        BY <3>2, <4>1, <4>2, <1>6, <1>11 DEF OnlyList
      <4>4. allocs'[lists[r][i].buffer] = allocs[lists[r][i].buffer]
        <5>1. lists[r][i].buffer \in Bufs
          BY <3>2, <1>4, ItemBuffers DEF ListsOn
        <5> QED BY <5>1, <4>2, <1>2, <1>4
      <4> QED BY <3>1, <3>2, <4>1, <4>3, <4>4
    <3>3. CASE i = n + 1 /\ lists'[r][i] = list
      <4>1. OnlyList(r, i)'
        BY <3>1, <3>3, <2>1, <2>2, <1>6, <1>11 DEF OnlyList
      <4>2. allocs'[buffer] = t
        BY <1>2, <1>4
      <4> QED BY <3>1, <3>3, <4>1, <4>2, <1>6
    <3> QED BY <3>2, <3>3, <1>11, <2>3
  <2> QED BY <1>2, <2>3 DEF AllocsInv
<1> QED BY <1>3, <1>9, <1>12, <1>13 DEF DxInv

LEMMA DxStep ==
  ASSUME TexInv, DxInv, DxNext
  PROVE  TexInv' /\ DxInv'
<1>1. CASE Renders
  BY <1>1, NoOverlayKeeps, UpdatesKeeps, KeepsKeeps, MutexFailsKeeps, SubmitKeeps, FlipKeeps
  DEF Renders
<1>2. ASSUME NEW q \in gpu.queues, Execute(q) \/ Complete(q)
      PROVE  TexInv' /\ DxInv'
  <2>1. q \in Queues
    BY <1>2, Dx12Assumption DEF TexInv, TexTypeOK
  <2> QED BY <1>2, <2>1, ExecuteKeeps, CompleteKeeps
<1> QED BY <1>1, <1>2, DropFramesKeeps, CommitKeeps DEF DxNext
-----------------------------------------------------------------------------
(* Vulkan: a step of the present under way that gives the GPU nothing.     *)
LEMMA CallGoesOn ==
  ASSUME VkInv, call # None, call' # None, RestInv', CallInv',
         call'.frames = call.frames, call'.sems = call.sems, call'.buf = call.buf,
         UNCHANGED <<queue, running, signalled, rendered, broken>>,
         \A d \in Drawn :
           /\ d.tex \in alive' /\ d.frames \cap fenced' = {}
           /\ \A f \in d.frames : recorded'[f] = d.tex
  PROVE  VkInv'
<1>1. Pending' = Pending /\ Shown' = Shown /\ Drawn' = Drawn /\ Rendering' = Rendering
  BY DEF Pending, Shown, Drawn, Rendering
<1>2. OpsInv' /\ OnceInv'
  BY <1>1 DEF VkInv, OpsInv, OnceInv, Ops
<1>3. ImagesInv'
  BY <1>1 DEF VkInv, ImagesInv, Meets
<1>4. DrawsInv'
  BY <1>1 DEF VkInv, DrawsInv, Meets
<1>5. ASSUME broken' = "" PROVE SignalsInv'
  <2>1. \A f : Carried(f)' <=> Carried(f)
    BY DEF Carried
  <2> QED BY <1>1, <1>5, <2>1 DEF VkInv, SignalsInv
<1>6. ASSUME broken' = "" PROVE AwaitedInv'
  <2>1. \A o, f : Covers(o, f)' <=> Covers(o, f)
    BY <1>1 DEF Covers
  <2> QED BY <1>1, <1>6, <2>1 DEF VkInv, AwaitedInv, Meets, Awaits
<1> QED BY <1>2, <1>3, <1>4, <1>5, <1>6 DEF VkInv

LEMMA ImagesOfChains == \A f \in Frames : f[1] \in Chains /\ f[1] # None
BY TexturesAssumption DEF Frames

LEMMA OpFields ==
  ASSUME OpsInv, NEW o \in Pending
  PROVE  /\ o \in Ops /\ OpOK(o) /\ o.kind \in {"app", "draw", "present"}
         /\ o.waits \subseteq Sems \cup Frames /\ o.blocks \subseteq Sems \cup Frames
         /\ o.signals \subseteq Sems \cup Frames /\ o.frames \subseteq Frames
         /\ o.tex \in Objects \cup {None} /\ o.blocks \subseteq o.waits
<1>1. ToSet(queue) \subseteq Ops /\ running \subseteq Ops
  <2>1. queue \in Seq(Ops)
    BY DEF OpsInv
  <2>2. \A i \in DOMAIN queue : queue[i] \in Ops
    BY <2>1
  <2> QED BY <2>2 DEF OpsInv, ToSet
<1>2. o \in Ops
  BY <1>1 DEF Pending
<1>3. OpOK(o) /\ o.kind \in {"app", "draw", "present"}
  BY <1>2 DEF OpsInv, Ops
<1>4. o.blocks \subseteq o.waits
  BY <1>3 DEF OpOK, AppOp, DrawOp, PresentOp
<1> QED BY <1>2, <1>3, <1>4 DEF Ops

(* Of a present the fields that it keeps.                                  *)
LEMMA CallFields ==
  ASSUME RestInv, call # None
  PROVE  /\ call \in Calls
         /\ call.frames \subseteq Frames /\ call.sems \subseteq Sems
         /\ call.todo \subseteq Chains /\ call.buf \subseteq Frames
BY DEF RestInv, Calls

LEMMA TurnFields ==
  ASSUME call \in Calls, NEW T \in SUBSET Chains, NEW a \in Chains \cup {None},
         call' = [call EXCEPT !.todo = T, !.at = a]
  PROVE  /\ call' \in Calls /\ call'.frames = call.frames /\ call'.sems = call.sems
         /\ call'.buf = call.buf /\ call'.todo = T /\ call'.at = a
BY DEF Calls

LEMMA TurnKeeps ==
  ASSUME VkInv, call # None, call.at = None,
         NEW c \in call.todo, NEW a \in {c, None}, Turn(c, a),
         UNCHANGED <<queue, running, signalled, fenced, recorded, rendered, broken, failed>>,
         \A d \in Drawn : d.tex \in alive'
  PROVE  VkInv'
<1> USE TexturesAssumption, VulkanAssumption
<1>1. PICK T : T = call.todo \ {c}
  OBVIOUS
<1>2. call' = [call EXCEPT !.todo = T, !.at = a] /\ T \in SUBSET Chains /\ a \in Chains \cup {None}
  BY <1>1, CallFields DEF VkInv, Turn
<1>3. /\ call' \in Calls /\ call'.frames = call.frames /\ call'.sems = call.sems
      /\ call'.buf = call.buf /\ call'.todo = T /\ call'.at = a
  BY <1>2, CallFields, TurnFields DEF VkInv
<1>4. RestInv' /\ call' # None
  BY <1>3 DEF VkInv, RestInv, Calls
<1>5. CallInv'
  BY <1>1, <1>3, <1>4 DEF VkInv, CallInv
<1>6. \A d \in Drawn : d.frames \cap fenced' = {} /\ \A f \in d.frames : recorded'[f] = d.tex
  BY DEF VkInv, DrawsInv
<1> QED BY <1>3, <1>4, <1>5, <1>6, CallGoesOn

LEMMA SkipKeeps ==
  ASSUME TexInv, VkInv, NEW c \in Chains, Skip(c)
  PROVE  TexInv' /\ VkInv'
<1>1. /\ call # None /\ call.at = None /\ c \in call.todo /\ Turn(c, None)
      /\ UNCHANGED <<gpu, updated, texture, alive, queue, running, signalled, fenced, recorded,
                     rendered, broken, failed>>
  BY DEF Skip, texVars
<1>2. TexInv'
  BY <1>1, TexKeeps DEF TexInv, TexTypeOK
<1>3. \A d \in Drawn : d.tex \in alive'
  BY <1>1 DEF VkInv, DrawsInv
<1> QED BY <1>1, <1>2, <1>3, TurnKeeps

LEMMA KeepKeeps ==
  ASSUME TexInv, VkInv, NEW c \in Chains, Keep(c)
  PROVE  TexInv' /\ VkInv'
<1>1. /\ call # None /\ call.at = None /\ c \in call.todo /\ Turn(c, c)
      /\ UNCHANGED <<gpu, updated, texture, alive, queue, running, signalled, fenced, recorded,
                     rendered, broken, failed>>
  BY DEF Keep, texVars
<1>2. TexInv'
  BY <1>1, TexKeeps DEF TexInv, TexTypeOK
<1>3. \A d \in Drawn : d.tex \in alive'
  BY <1>1 DEF VkInv, DrawsInv
<1> QED BY <1>1, <1>2, <1>3, TurnKeeps

(* With nothing given to the GPU there is no draw.                         *)
LEMMA IdleHasNone == Idle => Pending = {}
BY DEF Idle, Pending, ToSet

LEMMA UpdateKeeps ==
  ASSUME TexInv, VkInv, NEW c \in Chains, Update(c)
  PROVE  TexInv' /\ VkInv'
<1>1. /\ call # None /\ call.at = None /\ c \in call.todo
      /\ texture[c] # None => Idle
      /\ updated' = [updated EXCEPT ![c] = FALSE]
      /\ UNCHANGED <<gpu, queue, running, signalled, fenced, recorded, rendered, broken, failed>>
  BY DEF Update, Taken
<1>2. PICK t \in Objects \cup {None} : Replace(c, t) /\ Turn(c, IF t = None THEN None ELSE c)
  BY DEF Update
<1>3. PICK a \in {c, None} : a = IF t = None THEN None ELSE c
  OBVIOUS
<1>4. /\ TexInv' /\ (texture[c] = None => alive \subseteq alive')
  BY <1>1, <1>2, ReplaceKeeps DEF TexInv, TexTypeOK
<1>5. \A d \in Drawn : d.tex \in alive'
  <2>1. CASE texture[c] = None
    BY <2>1, <1>4 DEF VkInv, DrawsInv
  <2>2. CASE texture[c] # None
    BY <2>2, <1>1, IdleHasNone DEF Drawn
  <2> QED BY <2>1, <2>2
<1> QED BY <1>1, <1>2, <1>3, <1>4, <1>5, TurnKeeps

LEMMA CurrentIs ==
  ASSUME RestInv, CallInv, call # None, call.at # None
  PROVE  Current \in call.frames /\ Current[1] = call.at /\ Current \in Frames
<1>1. \E f \in call.frames : f[1] = call.at
  BY DEF CallInv
<1>2. Current \in call.frames /\ Current[1] = call.at
  BY <1>1 DEF Current
<1> QED BY <1>2, CallFields

LEMMA NothingKeeps ==
  ASSUME TexInv, VkInv, Nothing
  PROVE  TexInv' /\ VkInv'
<1> USE VulkanAssumption
<1>1. /\ call # None /\ call.at # None /\ call' = [call EXCEPT !.at = None]
      /\ UNCHANGED <<gpu, updated, texture, alive, queue, running, signalled, fenced, recorded,
                     rendered, broken, failed>>
  BY DEF Nothing, texVars
<1>2. TexInv'
  BY <1>1, TexKeeps DEF TexInv, TexTypeOK
<1>3. /\ call' \in Calls /\ call'.frames = call.frames /\ call'.sems = call.sems
      /\ call'.buf = call.buf /\ call'.todo = call.todo /\ call'.at = None
  BY <1>1, CallFields DEF VkInv, Calls
<1>4. RestInv' /\ call' # None
  BY <1>1, <1>3 DEF VkInv, RestInv, Calls
<1>5. CallInv'
  <2>1. \A f \in call.buf : f[1] # None
    BY <1>1, CallFields, ImagesOfChains DEF VkInv
  <2> QED BY <1>1, <1>3, <1>4, <2>1 DEF VkInv, CallInv
<1>6. \A d \in Drawn :
        /\ d.tex \in alive' /\ d.frames \cap fenced' = {}
        /\ \A f \in d.frames : recorded'[f] = d.tex
  BY <1>1 DEF VkInv, DrawsInv
<1> QED BY <1>1, <1>2, <1>3, <1>4, <1>5, <1>6, CallGoesOn

LEMMA DrawFailsKeeps ==
  ASSUME TexInv, VkInv, DrawFails
  PROVE  TexInv' /\ VkInv'
<1> USE VulkanAssumption
<1>1. /\ call # None /\ call.at # None /\ call' = [call EXCEPT !.at = None]
      /\ Current \in fenced /\ recorded' = [recorded EXCEPT ![Current] = None]
      /\ fenced' \subseteq fenced /\ failed' \in {failed, {Current}}
      /\ UNCHANGED <<gpu, updated, texture, alive, queue, running, signalled, rendered, broken>>
  BY DEF DrawFails, texVars
<1>2. TexInv'
  BY <1>1, TexKeeps DEF TexInv, TexTypeOK
<1>3. /\ call' \in Calls /\ call'.frames = call.frames /\ call'.sems = call.sems
      /\ call'.buf = call.buf /\ call'.todo = call.todo /\ call'.at = None
  BY <1>1, CallFields DEF VkInv, Calls
<1>4. RestInv' /\ call' # None
  BY <1>1, <1>3, CurrentIs DEF VkInv, RestInv, Calls
<1>5. CallInv'
  <2>1. \A f \in call.buf : f[1] # None
    BY <1>1, CallFields, ImagesOfChains DEF VkInv
  <2> QED BY <1>1, <1>3, <1>4, <2>1 DEF VkInv, CallInv
<1>6. \A d \in Drawn :
        /\ d.tex \in alive' /\ d.frames \cap fenced' = {}
        /\ \A f \in d.frames : recorded'[f] = d.tex
  <2>1. \A d \in Drawn : Current \notin d.frames
    BY <1>1 DEF VkInv, DrawsInv
  <2>2. \A f : f # Current => recorded'[f] = recorded[f] \/ f \notin Frames
    BY <1>1 DEF VkInv, RestInv
  <2>3. \A d \in Drawn : d.frames \subseteq Frames
    BY OpFields DEF VkInv, Drawn
  <2> QED BY <1>1, <2>1, <2>2, <2>3 DEF VkInv, DrawsInv
<1> QED BY <1>1, <1>2, <1>3, <1>4, <1>5, <1>6, CallGoesOn

(* Nothing but textures changes, none of them one that a draw reads.       *)
LEMMA VkStays ==
  ASSUME VkInv, UNCHANGED vkVars, \A d \in Drawn : d.tex \in alive'
  PROVE  VkInv'
<1>1. UNCHANGED <<queue, running, signalled, fenced, recorded, rendered, call, broken, failed>>
  BY DEF vkVars
<1>2. Pending' = Pending /\ Shown' = Shown /\ Drawn' = Drawn /\ Rendering' = Rendering
  BY <1>1 DEF Pending, Shown, Drawn, Rendering
<1>3. /\ \A f : Carried(f)' <=> Carried(f)
      /\ \A o, f : Covers(o, f)' <=> Covers(o, f)
  BY <1>1, <1>2 DEF Carried, Covers
<1>4. OpsInv' /\ RestInv' /\ OnceInv' /\ CallInv' /\ ImagesInv'
  BY <1>1, <1>2 DEF VkInv, OpsInv, RestInv, OnceInv, CallInv, ImagesInv, Meets, Ops, Calls
<1>5. DrawsInv'
  BY <1>1, <1>2 DEF VkInv, DrawsInv, Meets
<1>6. broken' = "" => SignalsInv' /\ AwaitedInv'
  BY <1>1, <1>2, <1>3 DEF VkInv, SignalsInv, AwaitedInv, Meets, Awaits
<1> QED BY <1>4, <1>5, <1>6 DEF VkInv

LEMMA VkCommitKeeps ==
  ASSUME TexInv, VkInv, NEW c \in Chains, Commit(c), UNCHANGED vkVars
  PROVE  TexInv' /\ VkInv'
<1>1. updated' = [updated EXCEPT ![c] = TRUE] /\ UNCHANGED <<gpu, texture, alive>>
  BY DEF Commit
<1>2. TexInv'
  BY <1>1, TexKeeps DEF TexInv, TexTypeOK
<1>3. \A d \in Drawn : d.tex \in alive'
  BY <1>1 DEF VkInv, DrawsInv
<1> QED BY <1>2, <1>3, VkStays

LEMMA CallKeeps ==
  ASSUME TexInv, VkInv, Call
  PROVE  TexInv' /\ VkInv'
<1> USE TexturesAssumption, VulkanAssumption
<1>1. PICK b \in rendered :
        /\ call = None
        /\ b.sems = {} => \A op \in Pending : op.frames \cap b.frames = {}
        /\ call' = [frames |-> b.frames, sems |-> b.sems, todo |-> {f[1] : f \in b.frames},
                    at |-> None, buf |-> {}]
        /\ rendered' = rendered \ {b}
        /\ UNCHANGED <<gpu, updated, texture, alive, queue, running, signalled, fenced, recorded,
                       broken, failed>>
  BY DEF Call, texVars
<1>2. TexInv'
  BY <1>1, TexKeeps DEF TexInv, TexTypeOK
<1>3. b.frames \subseteq Frames /\ b.sems \subseteq Sems /\ b.frames # {}
  BY DEF VkInv, RestInv, ImagesInv
<1>4. /\ call' \in Calls /\ call'.frames = b.frames /\ call'.sems = b.sems
      /\ call'.todo = {f[1] : f \in b.frames} /\ call'.at = None /\ call'.buf = {}
  <2>1. {f[1] : f \in b.frames} \subseteq Chains
    BY <1>3, ImagesOfChains
  <2>2. PICK T : T = {f[1] : f \in b.frames}
    OBVIOUS
  <2>3. call' = [frames |-> b.frames, sems |-> b.sems, todo |-> T, at |-> None, buf |-> {}]
    BY <1>1, <2>2
  <2>4. T \in SUBSET Chains
    BY <2>1, <2>2
  <2>5. /\ call' \in Calls /\ call'.frames = b.frames /\ call'.sems = b.sems
        /\ call'.todo = T /\ call'.at = None /\ call'.buf = {}
    BY <1>3, <2>3, <2>4 DEF Calls
  <2> QED BY <2>2, <2>5
<1>5. Pending' = Pending /\ Shown' = Shown /\ Drawn' = Drawn /\ Rendering' = Rendering
  BY <1>1 DEF Pending, Shown, Drawn, Rendering
<1>6. OpsInv' /\ RestInv' /\ OnceInv'
  BY <1>1, <1>4, <1>5 DEF VkInv, OpsInv, RestInv, OnceInv, Ops, Calls
<1>7. CallInv'
  BY <1>3, <1>4 DEF CallInv
<1>8. ImagesInv'
  <2>1. \A x \in rendered' : x \in rendered /\ x # b
    BY <1>1
  <2>2. call' # None
    BY <1>4
  <2>3. \A x : Meets(x, call') <=> Meets(x, b)
    BY <1>4 DEF Meets
  <2>4. \A p : Meets(p, b) <=> Meets(b, p)
    BY DEF Meets
  <2>5. \A x, y : Meets(x, y)' <=> Meets(x, y)
    BY DEF Meets
  <2> QED BY <1>5, <2>1, <2>2, <2>3, <2>4, <2>5 DEF VkInv, ImagesInv, Meets
<1>9. DrawsInv'
  BY <1>1, <1>5 DEF VkInv, DrawsInv, Meets
<1>10. ASSUME broken' = "" PROVE SignalsInv'
  <2>1. \A f : Carried(f)' <=> Carried(f)
    BY <1>1, <1>4 DEF Carried
  <2> QED BY <1>1, <1>5, <1>10, <2>1 DEF VkInv, SignalsInv
<1>11. ASSUME broken' = "" PROVE AwaitedInv'
  <2>1. \A o, f : Covers(o, f)' <=> Covers(o, f)
    BY <1>5 DEF Covers
  <2>2. ASSUME NEW o \in Rendering, Meets(o, call')
        PROVE  Awaits(o, call'.sems)
    <3>1. Meets(o, b) /\ o \in Pending
      BY <2>2, <1>4 DEF Meets, Rendering
    <3>2. b.sems # {}
      BY <1>1, <3>1 DEF Meets
    <3> QED BY <1>1, <1>4, <1>11, <3>1, <3>2 DEF VkInv, AwaitedInv
  <2>3. \A x \in rendered' : x \in rendered
    BY <1>1
  <2> QED BY <1>1, <1>4, <1>5, <1>11, <2>1, <2>2, <2>3 DEF VkInv, AwaitedInv, Meets, Awaits
<1> QED BY <1>2, <1>6, <1>7, <1>8, <1>9, <1>10, <1>11 DEF VkInv

LEMMA DropRendererKeeps ==
  ASSUME TexInv, VkInv, NEW c \in Chains, DropRenderer(c)
  PROVE  TexInv' /\ VkInv'
<1> USE TexturesAssumption
<1>1. PICK mine : mine = {f \in Frames : f[1] = c}
  OBVIOUS
<1>2. /\ call = None /\ queue = <<>> /\ running = {} /\ Idle
      /\ Replace(c, None) /\ updated' = [updated EXCEPT ![c] = TRUE]
      /\ fenced' = fenced \cup mine /\ failed' = failed \ mine
      /\ signalled' = signalled \ mine
      /\ recorded' = [f \in Frames |-> IF f \in mine THEN None ELSE recorded[f]]
      /\ UNCHANGED <<gpu, queue, running, rendered, call, broken>>
  BY <1>1 DEF DropRenderer, Idle
<1>3. TexInv'
  BY <1>2, ReplaceKeeps DEF TexInv, TexTypeOK
<1>4. /\ Pending = {} /\ Pending' = {} /\ Shown' = {} /\ Drawn' = {} /\ Rendering' = {}
      /\ Shown = {} /\ ToSet(queue) = {}
  BY <1>2, IdleHasNone DEF Pending, Shown, Drawn, Rendering, Idle, ToSet
<1>5. OpsInv' /\ OnceInv' /\ CallInv'
  BY <1>2, <1>4 DEF VkInv, OpsInv, OnceInv, CallInv, Ops
<1>6. RestInv'
  BY <1>1, <1>2 DEF VkInv, RestInv
<1>7. ImagesInv' /\ DrawsInv'
  BY <1>2, <1>4 DEF VkInv, ImagesInv, DrawsInv, Meets
<1>8. broken' = "" => SignalsInv' /\ AwaitedInv'
  <2>1. \A f : ~Carried(f)
    BY <1>2, <1>4 DEF Carried
  <2>2. \A f : f \in signalled' => f \in signalled
    BY <1>2
  <2> QED BY <1>2, <1>4, <2>1, <2>2 DEF VkInv, SignalsInv, AwaitedInv
<1> QED BY <1>3, <1>5, <1>6, <1>7, <1>8 DEF VkInv

(* The GPU is given one more.                                              *)
LEMMA GivesOne ==
  ASSUME OpsInv, OnceInv, NEW d \in Ops, d \notin Pending, OpOK(d),
         queue' = Append(queue, d), running' = running
  PROVE  /\ ToSet(queue') = ToSet(queue) \cup {d} /\ Pending' = Pending \cup {d}
         /\ OpsInv' /\ OnceInv'
<1>1. queue \in Seq(Ops) /\ d \notin ToSet(queue) /\ d \notin running /\ Single(queue)
  BY DEF OpsInv, OnceInv, Pending
<1>2. queue' \in Seq(Ops) /\ ToSet(queue') = ToSet(queue) \cup {d} /\ Single(queue')
  BY <1>1, AppendOps
<1>3. Pending' = Pending \cup {d}
  BY <1>2 DEF Pending
<1>4. OnceInv'
  BY <1>1, <1>2 DEF OnceInv
<1>5. \A o \in Pending' : OpOK(o)
  BY <1>3 DEF OpsInv
<1>6. \A o : OpOK(o)' <=> OpOK(o)
  BY DEF OpOK, AppOp, DrawOp, PresentOp
<1>7. OpsInv'
  BY <1>2, <1>5, <1>6 DEF OpsInv, Ops
<1> QED BY <1>2, <1>3, <1>4, <1>7

(* Of the images of the present under way nothing that the GPU was given   *)
(* waits.                                                                  *)
LEMMA NoneWaits ==
  ASSUME VkInv, call # None, NEW f \in call.frames, NEW o \in Pending
  PROVE  f \in Frames /\ f \notin Sems /\ f \notin o.waits
<1>1. f \in Frames /\ f \notin Sems
  BY CallFields, VulkanAssumption DEF VkInv
<1>2. OpOK(o) /\ o.kind \in {"app", "draw", "present"}
  BY OpFields DEF VkInv
<1>3. o.kind = "present" => f \notin o.frames
  BY DEF VkInv, ImagesInv, Shown, Meets
<1> QED BY <1>1, <1>2, <1>3 DEF OpOK, AppOp, DrawOp, PresentOp

LEMMA OpIs ==
  ASSUME NEW k, NEW w, NEW b, NEW g, NEW fs, NEW t, NEW o, o = Op(k, w, b, g, fs, t)
  PROVE  /\ o.kind = k /\ o.waits = w /\ o.blocks = b /\ o.signals = g /\ o.frames = fs
         /\ o.tex = t
         /\ (/\ k \in {"app", "draw", "present"} /\ w \subseteq Sems \cup Frames
             /\ b \subseteq Sems \cup Frames /\ g \subseteq Sems \cup Frames
             /\ fs \subseteq Frames /\ t \in Objects \cup {None}) => o \in Ops
BY DEF Op, Ops

LEMMA DrawKeeps ==
  ASSUME TexInv, VkInv, Draw
  PROVE  TexInv' /\ VkInv'
<1> USE VulkanAssumption, TexturesAssumption
<1>1. PICK f : f = Current
  OBVIOUS
<1>2. PICK blocks \in SUBSET call.sems :
        queue' = Append(queue, Op("draw", call.sems, blocks, {f}, {f}, texture[call.at]))
  BY <1>1 DEF Draw
<1>3. PICK d : d = Op("draw", call.sems, blocks, {f}, {f}, texture[call.at])
  OBVIOUS
<1>4. /\ call # None /\ call.at # None /\ texture[call.at] # None /\ f \in fenced
      /\ fenced' = fenced \ {f}
      /\ recorded' = [recorded EXCEPT ![f] = texture[call.at]]
      /\ broken' = IF call.buf # {} /\ call.sems # {} THEN "twice" ELSE broken
      /\ call' = [call EXCEPT !.buf = call.buf \cup {f}, !.at = None]
      /\ UNCHANGED <<gpu, updated, texture, alive, running, signalled, rendered, failed>>
  BY <1>1 DEF Draw, texVars
<1>5. /\ f \in call.frames /\ f[1] = call.at /\ f \in Frames /\ f \notin call.buf
      /\ f \notin Sems /\ call.at \in Chains
  BY <1>1, <1>4, CurrentIs, CallFields, ImagesOfChains DEF VkInv, CallInv
<1>6. texture[call.at] \in Objects /\ texture[call.at] \in alive
  BY <1>4, <1>5 DEF TexInv, TexTypeOK
<1>7. /\ d.kind = "draw" /\ d.waits = call.sems /\ d.blocks = blocks /\ d.signals = {f}
      /\ d.frames = {f} /\ d.tex = texture[call.at]
      /\ d \in Ops /\ call.sems \subseteq Sems
  <2>1. /\ call.sems \subseteq Sems \cup Frames /\ blocks \subseteq Sems \cup Frames
        /\ {f} \subseteq Sems \cup Frames /\ {f} \subseteq Frames
        /\ texture[call.at] \in Objects \cup {None} /\ call.sems \subseteq Sems
    BY <1>4, <1>5, <1>6, CallFields DEF VkInv
  <2> QED BY <1>3, <2>1, OpIs
<1>8. OpOK(d)
  BY <1>4, <1>7 DEF OpOK, DrawOp
<1>9. d \notin Pending
  BY <1>4, <1>7 DEF VkInv, DrawsInv, Drawn
<1>10. /\ ToSet(queue') = ToSet(queue) \cup {d} /\ Pending' = Pending \cup {d}
       /\ OpsInv' /\ OnceInv'
  BY <1>2, <1>3, <1>4, <1>7, <1>8, <1>9, GivesOne DEF VkInv
<1>11. Drawn' = Drawn \cup {d} /\ Shown' = Shown /\ Rendering' = Rendering
  BY <1>7, <1>10 DEF Drawn, Shown, Rendering
<1>12. /\ call' \in Calls /\ call'.frames = call.frames /\ call'.sems = call.sems
       /\ call'.buf = call.buf \cup {f} /\ call'.todo = call.todo /\ call'.at = None
       /\ call' # None
  <2>1. PICK B : B = call.buf \cup {f}
    OBVIOUS
  <2>2. B \in SUBSET Frames /\ call \in Calls
    BY <2>1, <1>4, <1>5, CallFields DEF VkInv
  <2>3. call' = [call EXCEPT !.buf = B, !.at = None]
    BY <2>1, <1>4
  <2>4. /\ call' \in Calls /\ call'.frames = call.frames /\ call'.sems = call.sems
        /\ call'.buf = B /\ call'.todo = call.todo /\ call'.at = None
    BY <2>2, <2>3 DEF Calls
  <2> QED BY <2>1, <2>4
<1>13. TexInv'
  BY <1>4, TexKeeps DEF TexInv, TexTypeOK
<1>14. RestInv'
  BY <1>4, <1>5, <1>6, <1>12 DEF VkInv, RestInv, Calls
<1>15. CallInv'
  <2>1. \A g \in call'.buf : g[1] # None
    BY <1>12, CallFields, <1>4, <1>5, ImagesOfChains DEF VkInv
  <2>2. f[1] \notin call.todo
    BY <1>4, <1>5 DEF VkInv, CallInv
  <2> QED BY <1>4, <1>5, <1>12, <2>1, <2>2 DEF VkInv, CallInv
<1>16. ImagesInv'
  BY <1>4, <1>11, <1>12 DEF VkInv, ImagesInv, Meets
<1>17. DrawsInv'
  <2>1. \A e \in Drawn : f \notin e.frames
    BY <1>4 DEF VkInv, DrawsInv
  <2>2. \A g : g # f => recorded'[g] = recorded[g] \/ g \notin Frames
    BY <1>4 DEF VkInv, RestInv
  <2>3. \A e \in Drawn : e.frames \subseteq Frames
    BY OpFields DEF VkInv, Drawn
  <2>4. recorded'[f] = d.tex
    BY <1>4, <1>5, <1>7 DEF VkInv, RestInv
  <2>5. \A e \in Drawn :
          /\ e.tex \in alive' /\ e.frames \cap fenced' = {}
          /\ \A g \in e.frames : recorded'[g] = e.tex
    BY <1>4, <2>1, <2>2, <2>3 DEF VkInv, DrawsInv
  <2>6. \A e \in Drawn : ~Meets(e, d) /\ ~Meets(d, e)
    BY <1>7, <2>1 DEF Meets
  <2> QED BY <1>4, <1>6, <1>7, <1>11, <2>4, <2>5, <2>6 DEF VkInv, DrawsInv, Meets
<1>18. broken' = "" => broken = ""
  BY <1>4
<1>19. ASSUME broken' = "" PROVE SignalsInv'
  <2>1. SignalsInv
    BY <1>18, <1>19 DEF VkInv
  <2>2. \A p \in ToSet(queue) : f \notin p.waits
    BY <1>4, <1>5, NoneWaits DEF Pending
  <2>3. ~Carried(f)
    BY <1>5, <2>2 DEF Carried
  <2>4. f \notin signalled /\ \A o \in Pending : f \notin o.signals
    BY <1>5, <2>1, <2>3 DEF SignalsInv
  <2>5. \A r \in running : f \notin r.blocks
    <3> SUFFICES ASSUME NEW r \in running PROVE f \notin r.blocks
      OBVIOUS
    <3>1. r \in Pending
      BY DEF Pending
    <3> QED BY <3>1, <1>4, <1>5, NoneWaits, OpFields DEF VkInv
  <2>6. Carried(f)' /\ \A g : Carried(g) => Carried(g)'
    BY <1>4, <1>10, <1>12 DEF Carried
  <2> QED BY <1>4, <1>7, <1>10, <2>1, <2>4, <2>5, <2>6 DEF SignalsInv
<1>20. ASSUME broken' = "" PROVE AwaitedInv'
  <2>1. AwaitedInv
    BY <1>18, <1>20 DEF VkInv
  <2>2. \A o, g : Covers(o, g) => Covers(o, g)'
    BY <1>11 DEF Covers, Awaits
  <2>3. \A o : /\ Meets(o, call') <=> Meets(o, call)
               /\ Meets(o, d) => Meets(o, call)
    BY <1>5, <1>7, <1>12 DEF Meets
  <2>4. \A o \in Rendering : Meets(o, call) => Awaits(o, call.sems) /\ Awaits(o, d.waits)
    BY <1>4, <1>7, <2>1 DEF AwaitedInv
  <2>5. ASSUME NEW o \in Rendering, Meets(o, call)
        PROVE  \A g \in call'.buf : Covers(o, g)'
    <3>1. \A g \in call.buf : Covers(o, g)
      BY <1>4, <2>1, <2>5 DEF AwaitedInv
    <3>2. Covers(o, f)'
      BY <1>7, <1>11, <2>4, <2>5 DEF Covers, Awaits
    <3> QED BY <1>12, <2>2, <3>1, <3>2
  <2>6. ASSUME NEW o \in Rendering
        PROVE  /\ \A b \in rendered' : Meets(o, b) /\ b.sems # {} => Awaits(o, b.sems)
               /\ \A e \in Drawn' : Meets(o, e) => Awaits(o, e.waits)
               /\ \A p \in Shown' : Meets(o, p) =>
                    /\ p \notin running'
                    /\ \/ Awaits(o, p.waits)
                       \/ p.waits # {} /\ \A g \in p.waits : Covers(o, g)'
    BY <1>4, <1>11, <2>1, <2>2, <2>3, <2>4 DEF AwaitedInv
  <2>7. \A x, y : (Meets(x, y)' <=> Meets(x, y)) /\ (Awaits(x, y)' <=> Awaits(x, y))
    BY DEF Meets, Awaits
  <2>8. \A o \in Rendering : Meets(o, call') => Awaits(o, call'.sems)
    BY <1>12, <2>3, <2>4
  <2> QED BY <1>11, <2>3, <2>5, <2>6, <2>8 DEF AwaitedInv, Meets, Awaits
<1> QED BY <1>10, <1>13, <1>14, <1>15, <1>16, <1>17, <1>19, <1>20 DEF VkInv

(* The present is given to the driver.                                     *)
LEMMA PresentGiven ==
  ASSUME VkInv, call # None, call.at = None, call' = None, NEW p, NEW W,
         W = PresentWaits, p = Op("present", W, W, {}, call.frames, None),
         queue' = Append(queue, p),
         UNCHANGED <<alive, rendered, broken, running, signalled, fenced, recorded, failed>>
  PROVE  VkInv'
<1> USE VulkanAssumption
<1>1. /\ call.frames \subseteq Frames /\ call.sems \subseteq Sems /\ call.buf \subseteq call.frames
      /\ call.frames # {}
  BY CallFields DEF VkInv, CallInv
<1>2. /\ call.buf = {} => W = call.sems
      /\ call.buf # {} => W = call.buf
  BY DEF PresentWaits
<1>3. /\ p.kind = "present" /\ p.waits = W /\ p.blocks = W /\ p.signals = {}
      /\ p.frames = call.frames /\ p \in Ops
  <2>1. W \subseteq Sems \cup Frames
    BY <1>1, <1>2
  <2> QED BY <1>1, <2>1, OpIs
<1>4. OpOK(p)
  BY <1>1, <1>2, <1>3 DEF OpOK, PresentOp
<1>5. \A q \in Shown : ~Meets(q, p) /\ ~Meets(p, q)
  BY <1>3 DEF VkInv, ImagesInv, Meets
<1>6. p \notin Pending
  BY <1>1, <1>3, <1>5 DEF Shown, Meets
<1>7. /\ ToSet(queue') = ToSet(queue) \cup {p} /\ Pending' = Pending \cup {p}
      /\ OpsInv' /\ OnceInv'
  BY <1>3, <1>4, <1>6, GivesOne DEF VkInv
<1>8. Shown' = Shown \cup {p} /\ Drawn' = Drawn /\ Rendering' = Rendering
  BY <1>3, <1>7 DEF Drawn, Shown, Rendering
<1>9. RestInv' /\ CallInv'
  BY DEF VkInv, RestInv, CallInv
<1>10. ImagesInv'
  <2>1. \A b \in rendered : ~Meets(b, p)
    BY <1>3 DEF VkInv, ImagesInv, Meets
  <2>2. \A q, r \in Shown' : Meets(q, r) => q = r
    <3>1. \A q, r \in Shown : Meets(q, r) => q = r
      BY DEF VkInv, ImagesInv
    <3>2. \A q \in Shown' : q \in Shown \/ q = p
      BY <1>8
    <3> QED BY <3>1, <3>2, <1>5
  <2>3. \A b \in rendered, q \in Shown' : ~Meets(b, q)
    BY <1>8, <2>1 DEF VkInv, ImagesInv
  <2> QED BY <2>2, <2>3 DEF VkInv, ImagesInv, Meets
<1>11. DrawsInv'
  BY <1>8 DEF VkInv, DrawsInv, Meets
<1>12. ASSUME broken' = "" PROVE SignalsInv'
  <2>1. \A f : Carried(f) => Carried(f)'
    <3> SUFFICES ASSUME NEW f, Carried(f) PROVE Carried(f)'
      OBVIOUS
    <3>1. CASE f \in call.buf
      <4>1. f \in p.waits
        BY <3>1, <1>2, <1>3
      <4> QED BY <4>1, <1>3, <1>7 DEF Carried
    <3>2. CASE \E q \in ToSet(queue) : q.kind = "present" /\ f \in q.waits
      BY <3>2, <1>7 DEF Carried
    <3> QED BY <3>1, <3>2 DEF Carried
  <2> QED BY <1>3, <1>7, <1>12, <2>1 DEF VkInv, SignalsInv
<1>13. ASSUME broken' = "" PROVE AwaitedInv'
  <2>1. AwaitedInv
    BY <1>13 DEF VkInv
  <2>2. \A o, f : Covers(o, f)' <=> Covers(o, f)
    BY <1>8 DEF Covers
  <2>3. \A o : Meets(o, p) <=> Meets(o, call)
    BY <1>3 DEF Meets
  <2>4. p \notin running
    BY <1>6 DEF Pending
  <2>5. ASSUME NEW o \in Rendering, Meets(o, p)
        PROVE  Awaits(o, p.waits) \/ (p.waits # {} /\ \A f \in p.waits : Covers(o, f))
    <3>1. Awaits(o, call.sems) /\ \A f \in call.buf : Covers(o, f)
      BY <2>1, <2>3, <2>5 DEF AwaitedInv
    <3> QED BY <3>1, <1>2, <1>3
  <2> QED BY <1>8, <2>1, <2>2, <2>4, <2>5 DEF AwaitedInv, Meets, Awaits
<1> QED BY <1>7, <1>9, <1>10, <1>11, <1>12, <1>13 DEF VkInv

(* The present is refused: the images are rendered, as they were.          *)
LEMMA PresentRefused ==
  ASSUME VkInv, call # None, call.at = None, call' = None,
         rendered' = rendered \cup {[frames |-> call.frames, sems |-> call.sems]},
         broken' = IF call.buf # {} THEN "refused" ELSE broken,
         UNCHANGED <<alive, queue, running, signalled, fenced, recorded, failed>>
  PROVE  VkInv'
<1>1. PICK b : b = [frames |-> call.frames, sems |-> call.sems]
  OBVIOUS
<1>2. /\ call.frames \subseteq Frames /\ call.sems \subseteq Sems /\ call.frames # {}
  BY CallFields DEF VkInv, CallInv
<1>3. /\ b.frames = call.frames /\ b.sems = call.sems
      /\ b \in [frames : SUBSET Frames, sems : SUBSET Sems] /\ rendered' = rendered \cup {b}
  BY <1>1, <1>2
<1>4. Pending' = Pending /\ Shown' = Shown /\ Drawn' = Drawn /\ Rendering' = Rendering
  BY DEF Pending, Shown, Drawn, Rendering
<1>5. OpsInv' /\ OnceInv' /\ CallInv'
  BY <1>4 DEF VkInv, OpsInv, OnceInv, CallInv, Ops
<1>6. RestInv'
  BY <1>3 DEF VkInv, RestInv
<1>7. ImagesInv'
  <2>1. /\ \A c \in rendered : ~Meets(c, b) /\ ~Meets(b, c)
        /\ \A p \in Shown : ~Meets(b, p)
    BY <1>3 DEF VkInv, ImagesInv, Meets
  <2>2. \A c, d \in rendered' : Meets(c, d) => c = d
    BY <1>3, <2>1 DEF VkInv, ImagesInv
  <2>3. \A c \in rendered' : c.frames # {} /\ \A p \in Shown : ~Meets(c, p)
    BY <1>2, <1>3, <2>1 DEF VkInv, ImagesInv
  <2> QED BY <1>4, <2>2, <2>3 DEF VkInv, ImagesInv, Meets
<1>8. DrawsInv'
  BY <1>4 DEF VkInv, DrawsInv, Meets
<1>9. ASSUME broken' = "" PROVE SignalsInv' /\ AwaitedInv'
  <2>1. call.buf = {} /\ broken = ""
    BY <1>9
  <2>2. \A f : Carried(f)' <=> Carried(f)
    BY <2>1 DEF Carried
  <2>3. SignalsInv'
    BY <1>4, <2>1, <2>2 DEF VkInv, SignalsInv
  <2>4. \A o, f : Covers(o, f)' <=> Covers(o, f)
    BY <1>4 DEF Covers
  <2>5. \A o \in Rendering : Meets(o, b) => Awaits(o, b.sems)
    BY <1>3, <2>1 DEF VkInv, AwaitedInv, Meets
  <2>6. AwaitedInv'
    BY <1>3, <1>4, <2>1, <2>4, <2>5 DEF VkInv, AwaitedInv, Meets, Awaits
  <2> QED BY <2>3, <2>6
<1> QED BY <1>5, <1>6, <1>7, <1>8, <1>9 DEF VkInv

LEMMA PresentKeeps ==
  ASSUME TexInv, VkInv, Present
  PROVE  TexInv' /\ VkInv'
<1>1. /\ call # None /\ call.at = None /\ call' = None
      /\ UNCHANGED <<gpu, updated, texture, alive, running, signalled, fenced, recorded, failed>>
  BY DEF Present, texVars
<1>2. TexInv'
  BY <1>1, TexKeeps DEF TexInv, TexTypeOK
<1>3. CASE queue' = Append(queue, Op("present", PresentWaits, PresentWaits, {}, call.frames, None))
           /\ UNCHANGED <<rendered, broken>>
  <2>1. PICK W : W = PresentWaits
    OBVIOUS
  <2>2. PICK p : p = Op("present", W, W, {}, call.frames, None)
    OBVIOUS
  <2>3. queue' = Append(queue, p)
    BY <1>3, <2>1, <2>2
  <2> QED BY <1>1, <1>2, <1>3, <2>1, <2>2, <2>3, PresentGiven
<1>4. CASE /\ rendered' = rendered \cup {[frames |-> call.frames, sems |-> call.sems]}
           /\ broken' = IF call.buf # {} THEN "refused" ELSE broken
           /\ UNCHANGED queue
  BY <1>1, <1>2, <1>4, PresentRefused
<1> QED BY <1>3, <1>4 DEF Present
-----------------------------------------------------------------------------
(* What the GPU does.                                                      *)
LEMMA Unsignalled ==
  ASSUME SignalsInv, NEW o \in Pending, NEW x, x \subseteq signalled
  PROVE  ~Awaits(o, x)
BY DEF SignalsInv, Awaits

LEMMA StartKeeps ==
  ASSUME TexInv, VkInv, Start
  PROVE  TexInv' /\ VkInv'
<1> USE VulkanAssumption
<1>1. PICK h : h = Head(queue)
  OBVIOUS
<1>2. /\ queue # <<>> /\ h.blocks \subseteq signalled /\ queue' = Tail(queue)
      /\ running' = running \cup {h} /\ signalled' = signalled \ h.blocks
      /\ UNCHANGED <<gpu, updated, texture, alive, fenced, recorded, rendered, call, broken, failed>>
  BY <1>1 DEF Start, texVars
<1>3. TexInv'
  BY <1>2, TexKeeps DEF TexInv, TexTypeOK
<1>4. /\ queue' \in Seq(Ops) /\ h \in ToSet(queue) /\ ToSet(queue') = ToSet(queue) \ {h}
      /\ Single(queue') /\ h \notin running
  BY <1>1, <1>2, TailOps DEF VkInv, OpsInv, OnceInv
<1>5. Pending' = Pending /\ Shown' = Shown /\ Drawn' = Drawn /\ Rendering' = Rendering
  BY <1>2, <1>4 DEF Pending, Shown, Drawn, Rendering
<1>6. h \in Pending /\ h \in Ops /\ OpOK(h)
  BY <1>4, OpFields DEF VkInv, Pending
<1>7. OpsInv' /\ OnceInv'
  BY <1>2, <1>4, <1>5, <1>6 DEF VkInv, OpsInv, OnceInv, Ops
<1>8. RestInv' /\ CallInv'
  BY <1>2 DEF VkInv, RestInv, CallInv, Calls
<1>9. ImagesInv' /\ DrawsInv'
  BY <1>2, <1>5 DEF VkInv, ImagesInv, DrawsInv, Meets
<1>10. ASSUME broken' = "" PROVE SignalsInv'
  <2>1. SignalsInv
    BY <1>2, <1>10 DEF VkInv
  <2>2. ASSUME NEW f \in Frames, Carried(f),
               f \in signalled' \/ \E o \in Pending : f \in o.signals
        PROVE  Carried(f)'
    <3>1. f \notin h.blocks
      BY <1>2, <2>1, <2>2 DEF SignalsInv
    <3>2. h.kind = "present" => h.blocks = h.waits
      BY <1>6 DEF OpOK, PresentOp
    <3>3. CASE call # None /\ f \in call.buf
      BY <3>3, <1>2 DEF Carried
    <3>4. CASE \E q \in ToSet(queue) : q.kind = "present" /\ f \in q.waits
      BY <3>1, <3>2, <3>4, <1>4 DEF Carried
    <3> QED BY <3>3, <3>4, <2>2 DEF Carried
  <2>3. \A o \in Pending : o.signals \cap h.blocks = {}
    BY <1>2, <2>1 DEF SignalsInv
  <2>4. \A f \in signalled' : f \in signalled
    BY <1>2
  <2>5. \A f \in Frames : f \in signalled' => Carried(f)'
    BY <2>1, <2>2, <2>4 DEF SignalsInv
  <2>6. \A o \in Pending : \A f \in o.signals : f \in Frames => Carried(f)'
    BY <2>1, <2>2 DEF SignalsInv
  <2>7. \A o \in Pending, r \in running' : o.signals \cap r.blocks = {}
    BY <1>2, <2>1, <2>3 DEF SignalsInv
  <2> QED BY <1>5, <2>1, <2>4, <2>5, <2>6, <2>7 DEF SignalsInv
<1>11. ASSUME broken' = "" PROVE AwaitedInv'
  <2>1. SignalsInv /\ AwaitedInv
    BY <1>2, <1>11 DEF VkInv
  <2>2. \A o, f : Covers(o, f)' <=> Covers(o, f)
    BY <1>5 DEF Covers
  <2>3. ASSUME NEW o \in Rendering, h \in Shown, Meets(o, h)
        PROVE  FALSE
    <3>1. h.waits \subseteq signalled
      BY <1>2, <1>6, <2>3 DEF OpOK, PresentOp, Shown
    <3>2. ~Awaits(o, h.waits)
      BY <3>1, <2>1, Unsignalled DEF Rendering
    <3>3. h.waits # {} /\ \A f \in h.waits : Covers(o, f)
      BY <2>1, <2>3, <3>2 DEF AwaitedInv
    <3>4. PICK f \in h.waits : Covers(o, f)
      BY <3>3
    <3>5. PICK d \in Drawn : f \in d.signals
      BY <3>4 DEF Covers
    <3>6. d \in Pending /\ f \in signalled
      BY <3>1 DEF Drawn
    <3> QED BY <3>5, <3>6, <2>1 DEF SignalsInv
  <2>4. ASSUME NEW o \in Rendering, NEW p \in Shown, Meets(o, p)
        PROVE  p \notin running'
    BY <1>2, <2>1, <2>3, <2>4 DEF AwaitedInv
  <2> QED BY <1>2, <1>5, <2>1, <2>2, <2>4 DEF AwaitedInv, Meets, Awaits
<1> QED BY <1>3, <1>7, <1>8, <1>9, <1>10, <1>11 DEF VkInv

LEMMA FinishKeeps ==
  ASSUME TexInv, VkInv, NEW op \in running, Finish(op)
  PROVE  TexInv' /\ VkInv'
<1> USE VulkanAssumption, TexturesAssumption
<1>1. /\ op.waits \ op.blocks \subseteq signalled /\ running' = running \ {op}
      /\ signalled' = (signalled \ (op.waits \ op.blocks)) \cup op.signals
      /\ fenced' = IF op.kind = "draw" THEN fenced \cup op.frames ELSE fenced
      /\ recorded' = [f \in Frames |-> IF op.kind = "draw" /\ f \in op.frames THEN None
                                       ELSE recorded[f]]
      /\ UNCHANGED <<gpu, updated, texture, alive, queue, rendered, call, broken, failed>>
  BY DEF Finish, texVars
<1>2. TexInv'
  BY <1>1, TexKeeps DEF TexInv, TexTypeOK
<1>3. op \in Pending /\ op \notin ToSet(queue)
  BY DEF VkInv, OnceInv, Pending
<1>4. /\ Pending' = Pending \ {op} /\ Shown' = Shown \ {op} /\ Drawn' = Drawn \ {op}
      /\ Rendering' = Rendering \ {op}
  BY <1>1, <1>3 DEF Pending, Shown, Drawn, Rendering
<1>5. op.signals \subseteq Sems \cup Frames /\ op.frames \subseteq Frames /\ OpOK(op)
  BY <1>3, OpFields DEF VkInv
<1>6. OpsInv' /\ OnceInv'
  BY <1>1, <1>4 DEF VkInv, OpsInv, OnceInv, Ops
<1>7. RestInv'
  BY <1>1, <1>5 DEF VkInv, RestInv, Calls
<1>8. CallInv' /\ ImagesInv'
  BY <1>1, <1>4 DEF VkInv, CallInv, ImagesInv, Meets
<1>9. DrawsInv'
  <2>1. ASSUME NEW d \in Drawn, d # op, op.kind = "draw"
        PROVE  d.frames \cap op.frames = {}
    BY <1>3, <2>1 DEF VkInv, DrawsInv, Meets, Drawn
  <2>2. \A d \in Drawn : d.frames \subseteq Frames
    BY OpFields DEF VkInv, Drawn
  <2>3. ASSUME NEW d \in Drawn, d # op
        PROVE  /\ d.tex \in alive /\ d.frames \cap fenced' = {}
               /\ \A f \in d.frames : recorded'[f] = d.tex
    BY <1>1, <2>1, <2>2, <2>3 DEF VkInv, DrawsInv
  <2> QED BY <1>1, <1>4, <2>3 DEF VkInv, DrawsInv, Meets
<1>10. ASSUME broken' = "" PROVE SignalsInv'
  <2>1. SignalsInv
    BY <1>1, <1>10 DEF VkInv
  <2>2. \A f : Carried(f)' <=> Carried(f)
    BY <1>1 DEF Carried
  <2>3. \A o \in Pending' : o \in Pending /\ o.signals \cap op.signals = {}
    BY <1>3, <1>4, <2>1 DEF SignalsInv
  <2>4. \A o \in Pending' : o.signals \cap signalled' = {}
    BY <1>1, <2>1, <2>3 DEF SignalsInv
  <2>5. \A f \in Frames : f \in signalled' => Carried(f)
    BY <1>1, <1>3, <2>1 DEF SignalsInv
  <2>6. \A r \in running' : r \in running
    BY <1>1
  <2> QED BY <2>1, <2>2, <2>3, <2>4, <2>5, <2>6 DEF SignalsInv
<1>11. ASSUME broken' = "" PROVE AwaitedInv'
  <2>1. SignalsInv /\ AwaitedInv
    BY <1>1, <1>11 DEF VkInv
  <2>2. ASSUME NEW o \in Pending
        PROVE  ~Awaits(o, op.waits)
    <3>1. o.signals \cap op.blocks = {}
      BY <2>1 DEF SignalsInv
    <3>2. o.signals \cap (op.waits \ op.blocks) = {}
      BY <1>1, <2>1 DEF SignalsInv
    <3> QED BY <3>1, <3>2 DEF Awaits
  <2>3. ASSUME NEW o \in Rendering, NEW f, Covers(o, f)
        PROVE  Covers(o, f)'
    <3>1. PICK d \in Drawn : f \in d.signals /\ Awaits(o, d.waits)
      BY <2>3 DEF Covers
    <3>2. d # op
      BY <2>2, <3>1 DEF Rendering
    <3> QED BY <1>4, <3>1, <3>2 DEF Covers, Awaits
  <2>4. \A o \in Rendering' : o \in Rendering
    BY <1>4
  <2>5. /\ \A d \in Drawn' : d \in Drawn
        /\ \A p \in Shown' : p \in Shown
        /\ \A r \in running' : r \in running
    BY <1>1, <1>4
  <2> QED BY <1>1, <2>1, <2>3, <2>4, <2>5 DEF AwaitedInv, Meets, Awaits
<1> QED BY <1>2, <1>6, <1>7, <1>8, <1>9, <1>10, <1>11 DEF VkInv
-----------------------------------------------------------------------------
(* What the application submits for the images fs with the semaphores S.   *)
Submitted(o, fs, S) ==
  /\ o \in Ops /\ o.kind = "app" /\ o.waits = {} /\ o.blocks = {}
  /\ o.signals \subseteq S /\ (S # {} => o.signals # {})
  /\ o.frames \subseteq fs /\ o.frames # {}

AppOps(s, fs, S) ==
  /\ s \in Seq(Ops) /\ Single(s)
  /\ \A o \in ToSet(s) : Submitted(o, fs, S)
  /\ \A o, p \in ToSet(s) : o.signals \cap p.signals # {} => o = p

LEMMA OneForAll ==
  ASSUME NEW fs \in SUBSET Frames, fs # {}, NEW S \in SUBSET Sems, NEW s,
         s = <<Op("app", {}, {}, S, fs, None)>>
  PROVE  AppOps(s, fs, S)
<1>1. PICK o : o = Op("app", {}, {}, S, fs, None)
  OBVIOUS
<1>2. /\ o \in Ops /\ o.kind = "app" /\ o.waits = {} /\ o.blocks = {} /\ o.signals = S
      /\ o.frames = fs
  BY <1>1, OpIs
<1>3. s = <<o>> /\ s \in Seq(Ops) /\ DOMAIN s = {1} /\ s[1] = o
  BY <1>1, <1>2
<1>4. ToSet(s) = {o} /\ Single(s)
  BY <1>3 DEF ToSet, Single
<1> QED BY <1>2, <1>3, <1>4 DEF Submitted, AppOps

EachOp(n, of, fseq) == [i \in 1 .. n |-> Op("app", {}, {}, {of[i]}, {fseq[i]}, None)]

LEMMA OneForEach ==
  ASSUME NEW fs \in SUBSET Frames, NEW S \in SUBSET Sems, NEW n \in Nat,
         NEW of \in [1 .. n -> S], NEW fseq \in [1 .. n -> fs],
         \A i, j \in 1 .. n : of[i] = of[j] => i = j
  PROVE  AppOps(EachOp(n, of, fseq), fs, S)
<1>9. PICK s : s = EachOp(n, of, fseq)
  OBVIOUS
<1>1. ASSUME NEW i \in 1 .. n
      PROVE  /\ s[i] \in Ops /\ s[i].signals = {of[i]} /\ Submitted(s[i], fs, S)
  <2>1. of[i] \in S /\ fseq[i] \in fs
    OBVIOUS
  <2>2. PICK o : o = Op("app", {}, {}, {of[i]}, {fseq[i]}, None)
    OBVIOUS
  <2>3. /\ o \in Ops /\ o.kind = "app" /\ o.waits = {} /\ o.blocks = {}
        /\ o.signals = {of[i]} /\ o.frames = {fseq[i]}
    <3>1. /\ {} \subseteq Sems \cup Frames /\ {of[i]} \subseteq Sems \cup Frames
          /\ {fseq[i]} \subseteq Frames /\ None \in Objects \cup {None}
          /\ "app" \in {"app", "draw", "present"}
      BY <2>1
    <3> HIDE <2>1
    <3> QED BY <2>2, <3>1, OpIs
  <2>5. s[i] = o
    BY <1>9, <2>2 DEF EachOp
  <2>4. Submitted(o, fs, S)
    BY <2>1, <2>3 DEF Submitted
  <2> QED BY <2>3, <2>4, <2>5
<1>8. DOMAIN s = 1 .. n /\ s = [i \in 1 .. n |-> s[i]]
  BY <1>9 DEF EachOp
<1>2. s \in Seq(Ops)
  <2>1. s \in [1 .. n -> Ops]
    BY <1>1, <1>8
  <2> QED BY <2>1
<1>3. ASSUME NEW i \in 1 .. n, NEW j \in 1 .. n, s[i].signals \cap s[j].signals # {}
      PROVE  i = j
  <2>1. of[i] = of[j]
    BY <1>1, <1>3
  <2> QED BY <2>1
<1>4. \A i \in 1 .. n : s[i].signals # {}
  BY <1>1
<1>5. Single(s)
  BY <1>3, <1>4, <1>8 DEF Single
<1>6. \A o \in ToSet(s) : Submitted(o, fs, S)
  BY <1>1, <1>8 DEF ToSet
<1>7. \A o, p \in ToSet(s) : o.signals \cap p.signals # {} => o = p
  BY <1>3, <1>8 DEF ToSet
<1> QED BY <1>2, <1>5, <1>6, <1>7, <1>9 DEF AppOps

LEMMA FramesFinite == IsFiniteSet(Frames) /\ IsFiniteSet(Sems)
BY VulkanAssumption, FS_Product DEF Frames

LEMMA RenderKeeps ==
  ASSUME TexInv, VkInv, Render
  PROVE  TexInv' /\ VkInv'
<1> USE VulkanAssumption, TexturesAssumption
<1>1. PICK fs \in (SUBSET {f \in gpu.chains \X gpu.images : ~Used(f)}) \ {{}},
           S \in SUBSET {s \in Sems : ~SemUsed(s)} :
        /\ queue' = queue \o
             IF Cardinality(S) = Cardinality(fs)
             THEN [i \in 1 .. Len(SetToSeq(S)) |->
                     Op("app", {}, {}, {SetToSeq(S)[i]}, {SetToSeq(fs)[i]}, None)]
             ELSE <<Op("app", {}, {}, S, fs, None)>>
        /\ rendered' = rendered \cup {[frames |-> fs, sems |-> S]}
  BY DEF Render
<1>2. /\ broken = "" /\ call = None
      /\ UNCHANGED <<gpu, updated, texture, alive, running, signalled, fenced, recorded, call,
                     broken, failed>>
  BY DEF Render, texVars
<1>3. TexInv'
  BY <1>2, TexKeeps DEF TexInv, TexTypeOK
<1>4. /\ fs \in SUBSET Frames /\ fs # {} /\ S \in SUBSET Sems
      /\ \A f \in fs : ~Used(f) /\ \A s \in S : ~SemUsed(s)
  <2>1. gpu.chains \subseteq Chains /\ gpu.images \subseteq Images
    BY CasesAssumption DEF TexInv, TexTypeOK
  <2> QED BY <2>1 DEF Frames
<1>5. /\ \A o \in Pending : /\ o.frames \cap fs = {}
                            /\ o.signals \cap S = {} /\ o.waits \cap S = {}
                            /\ o.blocks \cap S = {}
      /\ \A b \in rendered : b.frames \cap fs = {}
      /\ S \cap signalled = {}
  <2>1. \A o \in Pending : o.blocks \subseteq o.waits
    BY OpFields DEF VkInv
  <2> QED BY <1>4, <2>1 DEF Used, SemUsed
<1>6. PICK new : new = IF Cardinality(S) = Cardinality(fs)
             THEN [i \in 1 .. Len(SetToSeq(S)) |->
                     Op("app", {}, {}, {SetToSeq(S)[i]}, {SetToSeq(fs)[i]}, None)]
             ELSE <<Op("app", {}, {}, S, fs, None)>>
  OBVIOUS
<1>21. AppOps(new, fs, S)
  <2>1. IsFiniteSet(fs) /\ IsFiniteSet(S)
    BY <1>4, FramesFinite, FS_Subset
  <2>2. CASE Cardinality(S) = Cardinality(fs)
    <3>1. new = [i \in 1 .. Len(SetToSeq(S)) |->
                   Op("app", {}, {}, {SetToSeq(S)[i]}, {SetToSeq(fs)[i]}, None)]
      BY <1>6, <2>2
    <3>2. PICK of, fseq, n : of = SetToSeq(S) /\ fseq = SetToSeq(fs) /\ n = Cardinality(S)
      OBVIOUS
    <3>3. /\ n \in Nat /\ of \in [1 .. n -> S] /\ fseq \in [1 .. n -> fs]
          /\ \A i, j \in 1 .. n : of[i] = of[j] => i = j
      BY <2>1, <2>2, <3>2, SetToSeqLists, FS_CardinalityType
    <3>4. Len(of) = n
      BY <3>3
    <3>5. new = EachOp(n, of, fseq)
      BY <3>1, <3>2, <3>4 DEF EachOp
    <3> QED BY <1>4, <3>3, <3>5, OneForEach
  <2>3. CASE Cardinality(S) # Cardinality(fs)
    <3>1. new = <<Op("app", {}, {}, S, fs, None)>>
      BY <1>6, <2>3
    <3> QED BY <1>4, <3>1, OneForAll
  <2> QED BY <2>2, <2>3
<1>7. /\ new \in Seq(Ops) /\ Single(new)
      /\ \A o \in ToSet(new) : Submitted(o, fs, S)
      /\ \A o, p \in ToSet(new) : o.signals \cap p.signals # {} => o = p
  BY <1>21 DEF AppOps
<1>8. PICK N : N = ToSet(new)
  OBVIOUS
<1>9. PICK b : b = [frames |-> fs, sems |-> S]
  OBVIOUS
<1>10. /\ b.frames = fs /\ b.sems = S /\ rendered' = rendered \cup {b}
       /\ b \in [frames : SUBSET Frames, sems : SUBSET Sems]
  BY <1>1, <1>4, <1>9
<1>11. \A o \in N : o \notin Pending
  BY <1>5, <1>7, <1>8 DEF Submitted
<1>12. /\ queue' \in Seq(Ops) /\ ToSet(queue') = ToSet(queue) \cup N /\ Single(queue')
       /\ Pending' = Pending \cup N
  <2>1. queue' = queue \o new
    BY <1>1, <1>6
  <2>2. queue \in Seq(Ops) /\ Single(queue) /\ ToSet(queue) \cap ToSet(new) = {}
    BY <1>8, <1>11 DEF VkInv, OpsInv, OnceInv, Pending
  <2>3. queue' \in Seq(Ops) /\ ToSet(queue') = ToSet(queue) \cup N /\ Single(queue')
    BY <1>7, <1>8, <2>1, <2>2, ConcatOps
  <2> QED BY <1>2, <2>3 DEF Pending
<1>13. \A o \in N : Submitted(o, fs, S)
  BY <1>7, <1>8
<1>14. Shown' = Shown /\ Drawn' = Drawn /\ Rendering' = Rendering \cup N
  BY <1>12, <1>13 DEF Shown, Drawn, Rendering, Submitted
<1>15. OpsInv' /\ OnceInv'
  <2>1. \A o \in N : OpOK(o)
    BY <1>4, <1>13 DEF Submitted, OpOK, AppOp
  <2>2. N \cap running = {}
    BY <1>11 DEF Pending
  <2>3. OpsInv'
    BY <1>2, <1>12, <2>1 DEF VkInv, OpsInv, Ops
  <2> QED BY <1>2, <1>12, <2>2, <2>3 DEF VkInv, OnceInv
<1>16. RestInv' /\ CallInv'
  BY <1>2, <1>10 DEF VkInv, RestInv, CallInv
<1>17. ImagesInv'
  <2>1. /\ \A c \in rendered : ~Meets(c, b) /\ ~Meets(b, c)
        /\ \A p \in Shown : ~Meets(b, p)
    BY <1>5, <1>10 DEF Meets, Shown
  <2>2. \A c, d \in rendered' : Meets(c, d) => c = d
    BY <1>10, <2>1 DEF VkInv, ImagesInv
  <2>3. \A c \in rendered' : c.frames # {} /\ \A p \in Shown : ~Meets(c, p)
    BY <1>4, <1>10, <2>1 DEF VkInv, ImagesInv
  <2> QED BY <1>2, <1>14, <2>2, <2>3 DEF VkInv, ImagesInv, Meets
<1>18. DrawsInv'
  BY <1>2, <1>14 DEF VkInv, DrawsInv, Meets
<1>19. SignalsInv'
  <2>1. SignalsInv
    BY <1>2 DEF VkInv
  <2>2. \A f : Carried(f) => Carried(f)'
    BY <1>2, <1>12 DEF Carried
  <2>3. \A o \in N : o.signals \subseteq S
    BY <1>13 DEF Submitted
  <2>4. \A o \in Pending' : o.signals \cap signalled = {}
    BY <1>5, <1>12, <2>1, <2>3 DEF SignalsInv
  <2>5. \A o, p \in Pending' : o.signals \cap p.signals # {} => o = p
    <3>1. \A o \in N, p \in Pending : o.signals \cap p.signals = {}
      BY <1>5, <2>3
    <3>2. \A o, p \in N : o.signals \cap p.signals # {} => o = p
      BY <1>7, <1>8
    <3>3. \A o, p \in Pending : o.signals \cap p.signals # {} => o = p
      BY <2>1 DEF SignalsInv
    <3> QED BY <1>12, <3>1, <3>2, <3>3
  <2>6. \A o \in Pending' : \A f \in o.signals : f \in Frames => Carried(f)'
    <3>1. \A o \in N : \A f \in o.signals : f \notin Frames
      BY <1>4, <2>3
    <3> QED BY <1>12, <2>1, <2>2, <3>1 DEF SignalsInv
  <2>7. \A o \in Pending', r \in running : o.signals \cap r.blocks = {}
    <3>1. \A o \in N, r \in running : o.signals \cap r.blocks = {}
      BY <1>5, <2>3 DEF Pending
    <3> QED BY <1>12, <2>1, <3>1 DEF SignalsInv
  <2> QED BY <1>2, <2>1, <2>2, <2>4, <2>5, <2>6, <2>7 DEF SignalsInv
<1>20. AwaitedInv'
  <2>1. AwaitedInv
    BY <1>2 DEF VkInv
  <2>2. \A o, f : Covers(o, f)' <=> Covers(o, f)
    BY <1>14 DEF Covers
  <2>3. /\ \A o \in Rendering : ~Meets(o, b)
        /\ \A o \in N : ~(\E c \in rendered : Meets(o, c)) /\ ~(\E c \in Pending : Meets(o, c))
    BY <1>5, <1>10, <1>13 DEF Submitted, Rendering, Meets
  <2>4. \A o \in N : b.sems # {} => Awaits(o, b.sems)
    BY <1>10, <1>13 DEF Submitted, Awaits
  <2>5. \A o \in Rendering', c \in rendered' : Meets(o, c) /\ c.sems # {} => Awaits(o, c.sems)
    BY <1>10, <1>14, <2>1, <2>3, <2>4 DEF AwaitedInv
  <2>6. \A o \in Rendering', d \in Drawn : Meets(o, d) => Awaits(o, d.waits)
    BY <1>14, <2>1, <2>3 DEF AwaitedInv, Drawn
  <2>7. \A o \in Rendering', p \in Shown : Meets(o, p) =>
          /\ p \notin running
          /\ Awaits(o, p.waits) \/ (p.waits # {} /\ \A f \in p.waits : Covers(o, f))
    BY <1>14, <2>1, <2>3 DEF AwaitedInv, Shown
  <2> QED BY <1>2, <1>14, <2>2, <2>5, <2>6, <2>7 DEF AwaitedInv, Meets, Awaits
<1> QED BY <1>3, <1>15, <1>16, <1>17, <1>18, <1>19, <1>20 DEF VkInv

LEMMA VkStep ==
  ASSUME TexInv, VkInv, VkNext
  PROVE  TexInv' /\ VkInv'
<1>1. ASSUME NEW c \in Chains, Skip(c) \/ Keep(c) \/ Update(c)
      PROVE  TexInv' /\ VkInv'
  BY <1>1, SkipKeeps, KeepKeeps, UpdateKeeps
<1>2. CASE Frame
  BY <1>1, <1>2, CallKeeps, DrawKeeps, DrawFailsKeeps, NothingKeeps, PresentKeeps DEF Frame
<1>3. CASE Gpu
  BY <1>3, StartKeeps, FinishKeeps DEF Gpu
<1>4. ASSUME NEW c \in Chains, DropRenderer(c) \/ (Commit(c) /\ UNCHANGED vkVars)
      PROVE  TexInv' /\ VkInv'
  BY <1>4, DropRendererKeeps, VkCommitKeeps
<1> QED BY <1>2, <1>3, <1>4, RenderKeeps DEF VkNext
-----------------------------------------------------------------------------
(* Both libraries.                                                         *)
LEMMA VkFixes == VkNext => gpu' = gpu
<1>1. ASSUME NEW c \in Chains
      PROVE  /\ Skip(c) \/ Keep(c) \/ Update(c) => gpu' = gpu
             /\ DropRenderer(c) \/ Commit(c) => gpu' = gpu
  BY DEF Skip, Keep, Update, DropRenderer, Commit
<1>2. Frame => gpu' = gpu
  BY <1>1 DEF Frame, Call, Draw, DrawFails, Nothing, Present
<1>3. Gpu => gpu' = gpu
  BY DEF Gpu, Start, Finish
<1>4. Render => gpu' = gpu
  BY DEF Render
<1> QED BY <1>1, <1>2, <1>3, <1>4 DEF VkNext

LEMMA DxFixes == DxNext => gpu' = gpu
<1>1. Renders => gpu' = gpu
  BY DEF Renders, NoOverlay, Updates, Keeps, MutexFails, Submit, Flip
<1>2. \A q : Execute(q) \/ Complete(q) => gpu' = gpu
  BY DEF Execute, Complete
<1> QED BY <1>1, <1>2 DEF DxNext, DropFrames, Commit

LEMMA EmptyIs ==
  ASSUME NEW T, NEW s, s = <<>>
  PROVE  DOMAIN s = {} /\ s \in Seq(T)
<1>1. <<>> \in Seq(T) /\ Len(<<>>) = 0
  OBVIOUS
<1>2. DOMAIN <<>> = 1 .. Len(<<>>)
  BY <1>1
<1> QED BY <1>1, <1>2

LEMMA GpuInit == Init => GpuInv
<1> SUFFICES ASSUME Init PROVE GpuInv
  OBVIOUS
<1> USE TexturesAssumption, VulkanAssumption, Dx12Assumption
<1>1. /\ gpu \in Cases /\ updated = [c \in Chains |-> TRUE]
      /\ texture = [c \in Chains |-> None] /\ alive = {}
  BY DEF Init, TexInit
<1>2. /\ queue = <<>> /\ running = {} /\ signalled = {}
      /\ fenced = Frames /\ recorded = [f \in Frames |-> None]
      /\ rendered = {} /\ call = None /\ broken = "" /\ failed = {}
  BY DEF Init, VkInit
<1>3. /\ lists = [q \in Queues |-> <<>>] /\ fence = 0 /\ fenceVal = 0
      /\ allocs = [b \in Bufs |-> None]
      /\ frame = "app" /\ buffer = 0 /\ last = None /\ lapses = {}
  BY DEF Init, DxInit
<1>4. TexInv
  BY <1>1 DEF TexInv, TexTypeOK
<1>5. ApiInv
  BY <1>2, <1>3 DEF ApiInv
<1>6. /\ Pending = {} /\ ToSet(queue) = {} /\ Shown = {} /\ Drawn = {} /\ Rendering = {}
      /\ Single(queue) /\ queue \in Seq(Ops)
  <2>1. DOMAIN queue = {}
    BY <1>2, EmptyIs
  <2>2. ToSet(queue) = {} /\ Single(queue)
    BY <2>1 DEF ToSet, Single
  <2>3. Pending = {}
    BY <1>2, <2>2 DEF Pending
  <2>4. Shown = {} /\ Drawn = {} /\ Rendering = {}
    BY <2>3 DEF Shown, Drawn, Rendering
  <2>5. queue \in Seq(Ops)
    BY <1>2, EmptyIs
  <2> QED BY <2>2, <2>3, <2>4, <2>5
<1>7. OpsInv /\ OnceInv /\ CallInv /\ ImagesInv /\ DrawsInv
  BY <1>2, <1>6 DEF OpsInv, OnceInv, CallInv, ImagesInv, DrawsInv
<1>8. RestInv
  BY <1>2 DEF RestInv
<1>9. SignalsInv /\ AwaitedInv
  BY <1>2, <1>6 DEF SignalsInv, AwaitedInv
<1>10. FrameInv
  <2>1. 0 \in 0 .. MaxVal /\ 0 \in Bufs
    BY DEF Bufs
  <2>2. lists \in [Queues -> Seq(ItemSet)]
    BY <1>3
  <2> QED BY <1>3, <2>1, <2>2 DEF FrameInv, DxTypeOK
<1>11. \A q \in Queues : Work(q) = {} /\ ListsOn(q) = {}
  BY <1>3 DEF Work, ListsOn
<1>12. FenceInv /\ AllocsInv
  BY <1>3, <1>11 DEF FenceInv, AllocsInv
<1> QED BY <1>4, <1>5, <1>7, <1>8, <1>9, <1>10, <1>12 DEF GpuInv, VkInv, DxInv

LEMMA GpuStep == GpuInv /\ [Next]_vars => GpuInv'
<1> SUFFICES ASSUME GpuInv, [Next]_vars PROVE GpuInv'
  OBVIOUS
<1>1. TexInv /\ ApiInv /\ VkInv /\ DxInv
  BY DEF GpuInv
<1>2. ASSUME gpu.api = "vulkan", gpu' = gpu, UNCHANGED dxVars
      PROVE  DxInv' /\ ApiInv'
  <2>1. UNCHANGED <<lists, fence, fenceVal, allocs, frame, buffer, last, lapses>>
    BY <1>2 DEF dxVars
  <2>2. frame = "app" /\ \A q \in Queues : lists[q] = <<>>
    BY <1>1, <1>2 DEF ApiInv
  <2>3. ApiInv'
    BY <1>2, <2>1, <2>2 DEF ApiInv
  <2>4. FrameInv'
    BY <1>1, <2>1, <2>2 DEF DxInv, FrameInv, DxTypeOK, ItemSet, Bufs
  <2>5. \A q \in Queues : /\ Work(q) = {} /\ ListsOn(q) = {}
                         /\ Work(q)' = {} /\ ListsOn(q)' = {}
    BY <2>1, <2>2 DEF Work, ListsOn
  <2>6. "queues" \notin lapses' => FenceInv'
    BY <1>1, <2>1, <2>5 DEF DxInv, FenceInv
  <2>7. AllocsInv'
    BY <2>5 DEF AllocsInv
  <2> QED BY <2>3, <2>4, <2>6, <2>7 DEF DxInv
<1>3. ASSUME gpu.api = "dx12", gpu' = gpu, UNCHANGED vkVars
      PROVE  VkInv' /\ ApiInv'
  <2>1. queue' = <<>> /\ running' = {} /\ queue = <<>> /\ running = {}
    BY <1>1, <1>3 DEF ApiInv, vkVars
  <2>2. ApiInv'
    BY <1>3, <2>1 DEF ApiInv
  <2>3. Drawn = {}
    BY <2>1 DEF Drawn, Pending, ToSet
  <2> QED BY <1>1, <1>3, <2>2, <2>3, VkStays
<1>4. CASE gpu.api = "vulkan" /\ VkNext /\ UNCHANGED dxVars
  BY <1>1, <1>2, <1>4, VkStep, VkFixes DEF GpuInv
<1>5. CASE gpu.api = "dx12" /\ DxNext /\ UNCHANGED vkVars
  BY <1>1, <1>3, <1>5, DxStep, DxFixes DEF GpuInv
<1>6. CASE UNCHANGED vars
  <2>1. /\ UNCHANGED <<gpu, updated, texture, alive>> /\ UNCHANGED vkVars /\ UNCHANGED dxVars
    BY <1>6 DEF vars, texVars
  <2>2. TexInv'
    BY <1>1, <2>1, TexKeeps DEF TexInv, TexTypeOK
  <2>3. gpu.api = "vulkan" \/ gpu.api = "dx12"
    BY <1>1, CasesAssumption DEF TexInv, TexTypeOK
  <2>4. VkInv'
    <3>1. \A d \in Drawn : d.tex \in alive'
      BY <1>1, <2>1 DEF VkInv, DrawsInv
    <3> QED BY <1>1, <2>1, <3>1, VkStays
  <2>5. CASE gpu.api = "vulkan"
    BY <1>2, <2>1, <2>2, <2>4, <2>5 DEF GpuInv
  <2>6. CASE gpu.api = "dx12"
    <3>1. ApiInv'
      BY <1>3, <2>1, <2>6
    <3>2. /\ UNCHANGED <<lists, fence, fenceVal, allocs, frame, buffer, last, lapses>>
          /\ UNCHANGED <<gpu, texture, alive>>
      BY <2>1 DEF dxVars
    <3>3. FrameInv'
      BY <1>1, <3>2 DEF DxInv, FrameInv, DxTypeOK, ItemSet, Bufs, Chain
    <3>4. "queues" \notin lapses' => FenceInv'
      BY <1>1, <3>2, FenceStays DEF DxInv
    <3>5. lapses' \cap {"ahead", "other", "queues"} = {} => AllocsInv'
      BY <1>1, <3>2, AllocsStay DEF DxInv
    <3> QED BY <2>2, <2>4, <3>1, <3>3, <3>4, <3>5 DEF GpuInv, DxInv
  <2> QED BY <2>3, <2>5, <2>6
<1> QED BY <1>4, <1>5, <1>6 DEF Next
-----------------------------------------------------------------------------
LEMMA TypesFollow == GpuInv => TypeOK
<1> SUFFICES ASSUME GpuInv PROVE TypeOK
  OBVIOUS
<1>1. TexTypeOK /\ DxTypeOK /\ OpsInv /\ RestInv
  BY DEF GpuInv, TexInv, DxInv, FrameInv, VkInv
<1>2. \A op \in Pending :
        /\ op.kind \in {"app", "draw", "present"}
        /\ op.waits \cup op.signals \subseteq Sems \cup Frames
        /\ op.blocks \subseteq op.waits
        /\ op.frames \subseteq Frames /\ op.tex \in Objects \cup {None}
  BY <1>1, OpFields
<1>3. VkTypeOK
  BY <1>1, <1>2 DEF VkTypeOK, RestInv
<1> QED BY <1>1, <1>3 DEF TypeOK

LEMMA InFlightFollows == GpuInv => InFlight
<1> SUFFICES ASSUME GpuInv PROVE InFlight
  OBVIOUS
<1>1. DrawsInv /\ OnceInv /\ DxInv
  BY DEF GpuInv, VkInv
<1>2. ASSUME NEW d \in Draws
      PROVE  /\ d[2] \in Drawn
             /\ \/ d = <<0, d[2]>> /\ d[2] \in running
                \/ \E i \in DOMAIN queue : d = <<i, queue[i]>> /\ d[2] = queue[i]
  BY DEF Draws, Drawn, Pending, ToSet
<1>3. ASSUME NEW d \in Draws, NEW e \in Draws, d[2].frames \cap e[2].frames # {}
      PROVE  d = e
  <2>1. d[2] = e[2]
    BY <1>1, <1>2, <1>3 DEF DrawsInv, Meets
  <2>2. \A i \in DOMAIN queue : queue[i] \notin running
    BY <1>1 DEF OnceInv, ToSet
  <2>3. CASE d[2] \in running
    BY <1>2, <2>1, <2>2, <2>3
  <2>4. CASE d[2] \notin running
    <3>1. PICK i \in DOMAIN queue : d = <<i, queue[i]>> /\ d[2] = queue[i]
      BY <1>2, <2>4
    <3>2. PICK j \in DOMAIN queue : e = <<j, queue[j]>> /\ e[2] = queue[j]
      BY <1>2, <2>1, <2>4
    <3>3. i = j
      BY <1>1, <2>1, <3>1, <3>2 DEF OnceInv, Single
    <3> QED BY <3>1, <3>2, <3>3
  <2> QED BY <2>3, <2>4
<1>4. \A d \in Draws : d[2].tex \in alive /\ \A f \in d[2].frames : recorded[f] = d[2].tex
  BY <1>1, <1>2 DEF DrawsInv
<1>5. \A q \in Queues : \A i \in ListsOn(q) :
        /\ lists[q][i].tex \in alive \/ "queues" \in lapses
        /\ \/ allocs[lists[q][i].buffer] = lists[q][i].tex /\ OnlyList(q, i)
           \/ lapses \cap {"ahead", "other", "queues"} # {}
  <2>1. "queues" \notin lapses => \A q \in Queues : \A i \in ListsOn(q) : lists[q][i].tex \in alive
    BY <1>1 DEF DxInv, FenceInv, ListsOn, Work
  <2> QED BY <1>1, <2>1 DEF DxInv, AllocsInv
<1> QED BY <1>3, <1>4, <1>5 DEF InFlight

LEMMA SemaphoreOnceFollows == GpuInv => SemaphoreOnce
BY DEF GpuInv, VkInv, SignalsInv, SemaphoreOnce, Pending

LEMMA PresentOrderedFollows == GpuInv => PresentOrdered
<1> SUFFICES ASSUME GpuInv, broken = "", NEW op \in running, NEW other \in Pending \ {op},
                    other.frames \cap op.frames # {}, other.kind # "present"
             PROVE  /\ op.kind # "present"
                    /\ op.kind = "draw" => op.blocks # op.waits
  BY DEF PresentOrdered
<1>1. VkInv /\ SignalsInv /\ AwaitedInv /\ OpsInv
  BY DEF GpuInv, VkInv
<1>2. op \in Pending /\ OpOK(op) /\ OpOK(other) /\ other.kind \in {"app", "draw"}
  <2>1. op \in Pending
    BY DEF Pending
  <2> QED BY <1>1, <2>1, OpFields
<1>3. Meets(other, op) /\ Meets(op, other)
  BY DEF Meets
<1>4. CASE other.kind = "app"
  <2>1. other \in Rendering
    BY <1>4 DEF Rendering
  <2>2. op.kind # "present"
    BY <1>1, <1>2, <1>3, <2>1 DEF AwaitedInv, Shown
  <2>3. ASSUME op.kind = "draw" PROVE op.blocks # op.waits
    <3>1. Awaits(other, op.waits)
      BY <1>1, <1>2, <1>3, <2>1, <2>3 DEF AwaitedInv, Drawn
    <3>2. other.signals \cap op.blocks = {}
      BY <1>1 DEF SignalsInv
    <3> QED BY <3>1, <3>2 DEF Awaits
  <2> QED BY <2>2, <2>3
<1>5. CASE other.kind = "draw"
  <2>1. other \in Drawn
    BY <1>5 DEF Drawn
  <2>2. op.kind # "draw"
    BY <1>1, <1>2, <1>3, <2>1 DEF VkInv, DrawsInv, Drawn
  <2>3. ASSUME op.kind = "present" PROVE FALSE
    <3>1. PICK f : f \in other.frames /\ f \in op.frames
      OBVIOUS
    <3>2. f \in other.signals /\ f \in Frames
      BY <1>1, <1>2, <1>5, <3>1, OpFields DEF OpOK, DrawOp
    <3>3. Carried(f)
      BY <1>1, <3>2 DEF SignalsInv
    <3>4. op \in Shown
      BY <1>2, <2>3 DEF Shown
    <3>5. ~(call # None /\ f \in call.buf)
      BY <1>1, <3>1, <3>4 DEF VkInv, ImagesInv, CallInv, Meets
    <3>6. PICK p \in ToSet(queue) : p.kind = "present" /\ f \in p.waits
      BY <3>3, <3>5 DEF Carried
    <3>7. p \in Shown
      BY <3>6 DEF Shown, Pending
    <3>8. f \in p.frames
      <4>1. OpOK(p)
        BY <1>1, <3>7, OpFields DEF Shown
      <4> QED BY <4>1, <3>2, <3>6, VulkanAssumption DEF OpOK, PresentOp
    <3>9. p = op
      BY <1>1, <3>1, <3>4, <3>7, <3>8 DEF VkInv, ImagesInv, Meets
    <3> QED BY <1>1, <3>6, <3>9 DEF VkInv, OnceInv
  <2> QED BY <2>2, <2>3
<1> QED BY <1>2, <1>4, <1>5

(***************************************************************************)
(* GpuInOrder, for whatever is presented with either library: no texture,  *)
(* command buffer or allocator is touched that the GPU still uses, no      *)
(* semaphore is signalled twice, and an image is presented after what was  *)
(* drawn over it, but for the lapses that are named.                       *)
(***************************************************************************)
THEOREM GpuStaysInOrder == Spec => []GpuInOrder
<1>1. GpuInv => GpuInOrder
  BY TypesFollow, InFlightFollows, SemaphoreOnceFollows, PresentOrderedFollows DEF GpuInOrder
<1> QED BY <1>1, GpuInit, GpuStep, PTL DEF Spec
=============================================================================

----------------------------- MODULE VulkanLayer -----------------------------
(***************************************************************************)
(* The tables of the Vulkan layer (vulkan-layer/src/instance.rs,           *)
(* instance/surface.rs, device.rs, device/swapchain.rs), filled and        *)
(* emptied by calls of the application on several threads, and what a      *)
(* present finds in them.                                                  *)
(*                                                                         *)
(* There is one handle of each kind, two for swapchains: an object made    *)
(* after another was destroyed has its handle.  A call is one action up to *)
(* the driver and one for each table after it, or the other way round, in  *)
(* the order of the code.  The application keeps to the rules of Vulkan:   *)
(* parents outlive their children, and no object is used by two calls at a *)
(* time that one of them destroys or changes.                              *)
(***************************************************************************)
EXTENDS VulkanObjects

CONSTANTS
  None,
  Threads,
  Chains,        \* handles of swapchains
  Sizes,         \* sizes of swapchains
  Hwnds,         \* windows that surfaces are made for
  Textures,      \* textures that the client commits
  MaxLapses      \* bound on the creations and updates that fail

VARIABLES
  instance,      \* the instance exists; so does its physical device then
  device,        \* the device exists, and its queue
  surface,       \* the surface: its window; None if there is none
  chains,        \* [Chains -> the size of the swapchain, None]
  retired,       \* swapchains that were given as old_swapchain
  busy,          \* [Threads -> the call under way and how far it is, None]
  instTable,     \* DISPATCH_TABLE of instance.rs has the instance
  physMap,       \* PHYSICAL_DEVICE_MAP has the physical device
  devTable,      \* DISPATCH_TABLE of device.rs has the device
  queueMap,      \* QUEUE_MAP has the queue
  surfMap,       \* SURFACE_MAP, for the surface
  chainMap,      \* SWAPCHAIN_MAP
  state,         \* the entry of Surfaces for the surface
  objects,       \* objects of renderers, by kind
  lapses,        \* history: creations and updates that failed
  raced,         \* history: what was made while its handle was being removed
  drawn          \* history: what the present just made drew

driver == <<instance, device, surface, chains, retired>>
tables == <<instTable, physMap, devTable, queueMap, surfMap, chainMap>>
rest == <<state, objects, lapses, raced>>
vars == <<driver, busy, tables, rest, drawn>>

Calls == {"enumerate", "instance table", "destroy instance", "forget devices",
          "get queues", "device table", "forget queues", "destroy device",
          "map surface", "unmap surface", "clean surface",
          "make chain", "map chain", "resize", "destroy chain"}
NoCall == [at |-> "", c |-> None, size |-> None]
Renderer == [tex : Textures \cup {None}, failed : BOOLEAN]
Entry == [size : Sizes, rend : Renderer \cup {None}]
SurfaceState == [size : Sizes, hwnd : Hwnds, tex : Textures \cup {None}, flag : BOOLEAN]

ASSUME LayerAssumption ==
  /\ MaxLapses \in Nat
  /\ None \notin Chains \cup Sizes \cup Hwnds \cup Textures
  /\ None \notin Renderer \cup Entry \cup SurfaceState

TypeOK ==
  /\ instance \in BOOLEAN /\ device \in BOOLEAN /\ surface \in Hwnds \cup {None}
  /\ chains \in [Chains -> Sizes \cup {None}] /\ retired \subseteq Chains
  /\ busy \in [Threads -> {NoCall} \cup
       [at : Calls, c : Chains \cup {None}, size : Sizes \cup {None}]]
  /\ instTable \in BOOLEAN /\ physMap \in BOOLEAN
  /\ devTable \in BOOLEAN /\ queueMap \in BOOLEAN
  /\ surfMap \in Hwnds \cup {None}
  /\ chainMap \in [Chains -> Entry \cup {None}]
  /\ state \in SurfaceState \cup {None}
  /\ objects \in [Kinds -> Nat] /\ lapses \in 0 .. MaxLapses
  /\ raced \subseteq {"physical", "surface"}

Init ==
  /\ instance = FALSE /\ device = FALSE /\ surface = None
  /\ chains = [c \in Chains |-> None] /\ retired = {}
  /\ busy = [t \in Threads |-> NoCall]
  /\ instTable = FALSE /\ physMap = FALSE /\ devTable = FALSE /\ queueMap = FALSE
  /\ surfMap = None /\ chainMap = [c \in Chains |-> None]
  /\ state = None /\ objects = NoObjects /\ lapses = 0 /\ raced = {} /\ drawn = None

At(t, step) == busy[t].at = step
Goes(t, step) == busy' = [busy EXCEPT ![t].at = step]
Returns(t) == busy' = [busy EXCEPT ![t] = NoCall]
InCall(steps) == \E t \in Threads : busy[t].at \in steps

(* What the application may use: made, and not in a call that makes or     *)
(* destroys it.                                                            *)
ChainCalls == {"make chain", "map chain", "resize", "destroy chain"}
InstanceReady == instance /\ ~InCall({"enumerate", "instance table", "destroy instance"})
DeviceReady == device /\ ~InCall({"get queues", "device table", "forget queues", "destroy device"})
SurfaceReady == surface # None /\ ~InCall({"map surface"})
ChainReady(c) == chains[c] # None /\ ~InCall(ChainCalls)
-----------------------------------------------------------------------------
(* vkCreateInstance: the driver, the physical devices, the table.          *)
CreateInstance(t) ==
  /\ At(t, "") /\ ~instance
  /\ instance' = TRUE
  /\ raced' = IF InCall({"forget devices"}) THEN raced \cup {"physical"} ELSE raced \ {"physical"}
  /\ Goes(t, "enumerate")
  /\ UNCHANGED <<device, surface, chains, retired, tables, state, objects, lapses>>

Enumerate(t) ==
  /\ At(t, "enumerate")
  /\ physMap' = TRUE
  /\ Goes(t, "instance table")
  /\ UNCHANGED <<driver, instTable, devTable, queueMap, surfMap, chainMap, rest>>

FillInstance(t) ==
  /\ At(t, "instance table")
  /\ instTable' = TRUE
  /\ Returns(t)
  /\ UNCHANGED <<driver, physMap, devTable, queueMap, surfMap, chainMap, rest>>

(* vkDestroyInstance: the table, the driver, the physical devices.         *)
DestroyInstance(t) ==
  /\ At(t, "") /\ InstanceReady /\ ~device /\ surface = None
  /\ \A u \in Threads : At(u, "") \/ At(u, "forget devices")
  /\ instTable' = FALSE
  /\ Goes(t, "destroy instance")
  /\ UNCHANGED <<driver, physMap, devTable, queueMap, surfMap, chainMap, rest>>

InstanceGone(t) ==
  /\ At(t, "destroy instance")
  /\ instance' = FALSE
  /\ Goes(t, "forget devices")
  /\ UNCHANGED <<device, surface, chains, retired, tables, rest>>

ForgetDevices(t) ==
  /\ At(t, "forget devices")
  /\ physMap' = FALSE
  /\ Returns(t)
  /\ UNCHANGED <<driver, instTable, devTable, queueMap, surfMap, chainMap, rest>>
-----------------------------------------------------------------------------
(* vkCreateDevice: the driver, the queues, the table.                      *)
CreateDevice(t) ==
  /\ At(t, "") /\ InstanceReady /\ ~device
  /\ device' = TRUE
  /\ Goes(t, "get queues")
  /\ UNCHANGED <<instance, surface, chains, retired, tables, rest>>

GetQueues(t) ==
  /\ At(t, "get queues")
  /\ queueMap' = TRUE
  /\ Goes(t, "device table")
  /\ UNCHANGED <<driver, instTable, physMap, devTable, surfMap, chainMap, rest>>

FillDevice(t) ==
  /\ At(t, "device table")
  /\ devTable' = TRUE
  /\ Returns(t)
  /\ UNCHANGED <<driver, instTable, physMap, queueMap, surfMap, chainMap, rest>>

(* vkDestroyDevice: the table, its queues, the driver.                     *)
DestroyDevice(t) ==
  /\ At(t, "") /\ DeviceReady /\ ~InCall(ChainCalls)
  /\ \A c \in Chains : chains[c] = None
  /\ devTable' = FALSE
  /\ Goes(t, "forget queues")
  /\ UNCHANGED <<driver, instTable, physMap, queueMap, surfMap, chainMap, rest>>

(* Mutant of ForgetQueues: the queues are removed after the driver's call. *)
ForgetQueues_Late(t) ==
  /\ At(t, "forget queues")
  /\ device' = FALSE
  /\ Goes(t, "destroy device")
  /\ UNCHANGED <<instance, surface, chains, retired, tables, rest>>

ForgetQueues(t) ==
  /\ At(t, "forget queues")
  /\ queueMap' = FALSE
  /\ Goes(t, "destroy device")
  /\ UNCHANGED <<driver, instTable, physMap, devTable, surfMap, chainMap, rest>>

DeviceGone(t) ==
  /\ At(t, "destroy device")
  /\ device' = FALSE
  /\ Returns(t)
  /\ UNCHANGED <<instance, surface, chains, retired, tables, rest>>
-----------------------------------------------------------------------------
(* vkCreateWin32SurfaceKHR: the driver, the window of the surface.         *)
CreateSurface(t) ==
  /\ At(t, "") /\ InstanceReady /\ surface = None
  /\ \E w \in Hwnds : surface' = w
  /\ raced' = IF InCall({"unmap surface", "clean surface"})
              THEN raced \cup {"surface"} ELSE raced \ {"surface"}
  /\ Goes(t, "map surface")
  /\ UNCHANGED <<instance, device, chains, retired, tables, state, objects, lapses>>

MapSurface(t) ==
  /\ At(t, "map surface")
  /\ surfMap' = surface
  /\ Returns(t)
  /\ UNCHANGED <<driver, instTable, physMap, devTable, queueMap, chainMap, rest>>

(* vkDestroySurfaceKHR: the driver, the window, the surface of the overlay.*)
DestroySurface(t) ==
  /\ At(t, "") /\ InstanceReady /\ SurfaceReady /\ ~InCall(ChainCalls)
  /\ \A c \in Chains : chains[c] = None
  /\ surface' = None
  /\ Goes(t, "unmap surface")
  /\ UNCHANGED <<instance, device, chains, retired, tables, rest>>

UnmapSurface(t) ==
  /\ At(t, "unmap surface")
  /\ surfMap' = None
  /\ Goes(t, "clean surface")
  /\ UNCHANGED <<driver, instTable, physMap, devTable, queueMap, chainMap, rest>>

CleanSurface(t) ==
  /\ At(t, "clean surface")
  /\ state' = None
  /\ Returns(t)
  /\ UNCHANGED <<driver, tables, objects, lapses, raced>>
-----------------------------------------------------------------------------
TextureOf(r) == IF r = None \/ r.tex = None THEN <<>> ELSE TextureKinds
Dropped(r) == IF r = None THEN objects ELSE Without(Without(objects, DropKinds), TextureOf(r))

(* Mutant of Cleanup: the flag is left as it is. *)
Cleanup_NoInvalidate(c) ==
  IF c = None \/ chainMap[c] = None THEN UNCHANGED <<chainMap, state, objects>>
  ELSE /\ chainMap' = [chainMap EXCEPT ![c] = None]
       /\ objects' = Dropped(chainMap[c].rend)
       /\ UNCHANGED state

(* cleanup_swapchain: the entry goes, its renderer with it, and the        *)
(* renderer of the next swapchain is to take the texture.                  *)
Cleanup(c) ==
  IF c = None \/ chainMap[c] = None THEN UNCHANGED <<chainMap, state, objects>>
  ELSE /\ chainMap' = [chainMap EXCEPT ![c] = None]
       /\ objects' = Dropped(chainMap[c].rend)
       /\ state' = IF state = None THEN None ELSE [state EXCEPT !.flag = TRUE]

(* vkCreateSwapchainKHR, from a swapchain of the same surface or from      *)
(* none; the driver retires the old one even if it makes no other.         *)
CreateChain(t) ==
  /\ At(t, "") /\ InstanceReady /\ DeviceReady /\ SurfaceReady /\ ~InCall(ChainCalls)
  /\ \E c \in Chains, old \in Chains \cup {None}, z \in Sizes :
       /\ chains[c] = None /\ (old # None => chains[old] # None /\ old \notin retired)
       /\ \A o \in Chains \ {old} : chains[o] = None \/ o \in retired
       /\ Cleanup(old)
       /\ busy' = [busy EXCEPT ![t] = [at |-> "make chain", c |-> c, size |-> z]]
       /\ retired' = retired \cup ({old} \ {None})
  /\ UNCHANGED <<instance, device, surface, chains, instTable, physMap, devTable, queueMap,
                 surfMap, lapses, raced>>

MakeChain(t) ==
  /\ At(t, "make chain")
  /\ \/ chains' = [chains EXCEPT ![busy[t].c] = busy[t].size] /\ Goes(t, "map chain")
     \/ UNCHANGED chains /\ Returns(t)
  /\ UNCHANGED <<instance, device, surface, retired, tables, rest>>

MapChain(t) ==
  /\ At(t, "map chain")
  /\ chainMap' = [chainMap EXCEPT ![busy[t].c] = [size |-> busy[t].size, rend |-> None]]
  /\ Goes(t, "resize")
  /\ UNCHANGED <<driver, instTable, physMap, devTable, queueMap, surfMap, rest>>

Resize(t) ==
  /\ At(t, "resize")
  /\ state' = IF state = None THEN None ELSE [state EXCEPT !.size = busy[t].size]
  /\ Returns(t)
  /\ UNCHANGED <<driver, tables, objects, lapses, raced>>

(* vkDestroySwapchainKHR: the entry, the driver.                           *)
DestroyChain(t) ==
  /\ At(t, "") /\ InstanceReady /\ DeviceReady
  /\ \E c \in Chains :
       /\ ChainReady(c)
       /\ Cleanup(c)
       /\ busy' = [busy EXCEPT ![t] = [at |-> "destroy chain", c |-> c, size |-> None]]
  /\ UNCHANGED <<driver, instTable, physMap, devTable, queueMap, surfMap, lapses, raced>>

ChainGone(t) ==
  /\ At(t, "destroy chain")
  /\ chains' = [chains EXCEPT ![busy[t].c] = None]
  /\ retired' = retired \ {busy[t].c}
  /\ Returns(t)
  /\ UNCHANGED <<instance, device, surface, tables, rest>>
-----------------------------------------------------------------------------
(* OverlayTextureSlot::update for a request of the client.                 *)
Commit ==
  /\ state # None
  /\ \E x \in Textures \cup {None} : state' = [state EXCEPT !.tex = x, !.flag = TRUE]
  /\ UNCHANGED <<driver, busy, tables, objects, lapses, raced>>

(* setup_fn of queue.rs, for a surface without an entry: the window must   *)
(* be known.                                                               *)
Setup(c) ==
  IF state # None THEN state
  ELSE IF surfMap = None THEN None
  ELSE [size |-> chainMap[c].size, hwnd |-> surfMap, tex |-> None, flag |-> TRUE]

(* update_texture of renderer.rs for a renderer r: [r, the objects then].  *)
Update(r, tex, objs) ==
  LET free == Without(objs, TextureOf(r))
      gone == [r EXCEPT !.tex = None, !.failed = FALSE] IN
  IF tex = None THEN {<<gone, free>>}
  ELSE {<<[gone EXCEPT !.tex = tex], With(free, TextureKinds)>>}
       \cup (IF lapses = MaxLapses THEN {}
             ELSE {<<[gone EXCEPT !.failed = TRUE], With(free, SubSeq(TextureKinds, 1, n))>> :
                     n \in 0 .. 2})

(* What a present of the swapchain c leaves: the state of the surface, the *)
(* renderer, the objects, what failed, and what it drew.                   *)
After(c, s, r, objs, fails, what) ==
  /\ state' = s
  /\ chainMap' = [chainMap EXCEPT ![c].rend = r]
  /\ objects' = objs
  /\ lapses' = lapses + fails
  /\ drawn' = what

Draw(c, s, r, objs, fails) ==
  After(c, [s EXCEPT !.flag = FALSE], r, objs, fails,
        [tex |-> r.tex, want |-> s.tex, failed |-> r.failed])

Frame(c, s, r, objs) ==
  \/ s.tex = None /\ After(c, s, r, objs, 0, None)
  \/ s.tex # None /\ ~s.flag /\ Draw(c, s, r, objs, 0)
  \/ /\ s.tex # None /\ s.flag /\ physMap
     /\ \E u \in Update(r, s.tex, objs) : Draw(c, s, u[1], u[2], IF u[1].failed THEN 1 ELSE 0)

(* vkQueuePresentKHR: tables, surface, renderer and texture, in that       *)
(* order.  The queue, the device and, for a new texture, the physical      *)
(* device must be in their tables: an unwrap ends the process otherwise.   *)
Present(c) ==
  /\ InstanceReady /\ DeviceReady /\ SurfaceReady /\ ChainReady(c)
  /\ queueMap /\ devTable /\ chainMap[c] # None
  /\ LET s == Setup(c)
         r == chainMap[c].rend
     IN \/ s = None /\ After(c, s, r, objects, 0, None)
        \/ s # None /\ r # None /\ Frame(c, s, r, objects)
        \/ /\ s # None /\ r = None
           /\ Frame(c, s, [tex |-> None, failed |-> FALSE], With(objects, RendererKinds))
        \/ /\ s # None /\ r = None /\ lapses < MaxLapses
           /\ \E ks \in PartlyMade : After(c, s, None, With(objects, ks), 1, None)
  /\ UNCHANGED <<driver, busy, instTable, physMap, devTable, queueMap, surfMap, raced>>

Step(t) ==
  \/ CreateInstance(t) \/ Enumerate(t) \/ FillInstance(t)
  \/ DestroyInstance(t) \/ InstanceGone(t) \/ ForgetDevices(t)
  \/ CreateDevice(t) \/ GetQueues(t) \/ FillDevice(t)
  \/ DestroyDevice(t) \/ ForgetQueues(t) \/ DeviceGone(t)
  \/ CreateSurface(t) \/ MapSurface(t)
  \/ DestroySurface(t) \/ UnmapSurface(t) \/ CleanSurface(t)
  \/ CreateChain(t) \/ MakeChain(t) \/ MapChain(t) \/ Resize(t)
  \/ DestroyChain(t) \/ ChainGone(t)

Next ==
  \/ (Commit \/ \E t \in Threads : Step(t)) /\ drawn' = None
  \/ \E c \in Chains : Present(c)

Spec == Init /\ [][Next]_vars
-----------------------------------------------------------------------------
(* What a table holds exists, or is being removed by the call that         *)
(* destroyed it: no present meets an entry, or a renderer, of an object    *)
(* that is gone (destroy_device, cleanup_swapchain, destroy_surface).      *)
NoStaleEntry ==
  /\ instTable => instance
  /\ devTable \/ queueMap => device
  /\ \A c \in Chains : chainMap[c] # None => chains[c] # None
  /\ physMap => instance \/ InCall({"forget devices"})
  /\ surfMap # None => surface # None \/ InCall({"unmap surface"})
  /\ state # None => surface # None \/ InCall({"unmap surface", "clean surface"})

(* What the application may use is in the tables, as it is now, so that no *)
(* unwrap of a present fails; except what was made while another thread    *)
(* had yet to remove its handle (destroy_instance and destroy_surface do   *)
(* so after the driver has given the handle up).                           *)
Known ==
  /\ InstanceReady => instTable /\ (physMap \/ "physical" \in raced)
  /\ DeviceReady => devTable /\ queueMap
  /\ SurfaceReady => surfMap = surface \/ "surface" \in raced
  /\ \A c \in Chains : ChainReady(c) /\ c \notin retired =>
       chainMap[c] # None /\ chainMap[c].size = chains[c]

(* The overlay knows a surface with the size of its swapchain and with its *)
(* window, through every recreation of either, but for such a surface.     *)
SurfaceAgrees ==
  \A c \in Chains :
    state # None /\ ChainReady(c) /\ c \notin retired /\ "surface" \notin raced =>
      state.size = chains[c] /\ state.hwnd = surface

(* The tables of the layer hold what exists, all of it, and as it is, but  *)
(* for the two races Known and SurfaceAgrees name.                         *)
TablesAgree == TypeOK /\ NoStaleEntry /\ Known /\ SurfaceAgrees

(* A frame shows the texture that was committed, whichever swapchain of    *)
(* the surface it is for (cleanup_swapchain invalidates the slot), or      *)
(* nothing after that could not be imported.                               *)
ShowsCommitted == drawn # None => drawn.tex = IF drawn.failed THEN None ELSE drawn.want

(* Without a renderer nothing is left of those there were, unless making   *)
(* one failed half way, or a texture.                                      *)
NothingLeft ==
  lapses = 0 /\ (\A c \in Chains : chainMap[c] = None \/ chainMap[c].rend = None)
    => objects = NoObjects
=============================================================================

------------------------------ MODULE Producer ------------------------------
(***************************************************************************)
(* OverlaySurface and D3DCapturePool of src/crates/surface-util: the       *)
(* client keeps a ring of shared textures, copies each new picture into    *)
(* the current one, and turns to the next slot, with a new texture, when   *)
(* the size or format changes.  Only then does an update return something  *)
(* to be sent to the overlay: the handle of the new texture.  A handle     *)
(* keeps nothing alive, so a texture that left the ring before the overlay *)
(* opened it is gone.  Textures are numbered as they are made; a shape is  *)
(* a size and a format.                                                    *)
(*                                                                         *)
(* The requests are sent and not waited for, as by ElectronOverlaySurface  *)
(* (src/packages/electron/src/surface.ts): each runs as a task of its own, *)
(* and they may reach the connection in another order.                     *)
(***************************************************************************)
EXTENDS Integers, Sequences, SequencesExt

CONSTANTS
  Shapes,       \* shapes of the pictures
  Buffers,      \* BUFFERS, the length of the ring
  MaxWord,      \* the largest u32
  MaxTextures,  \* bound on the textures made
  MaxPending    \* bound on the requests under way

ASSUME ProducerAssumption ==
  /\ Buffers \in Nat \ {0} /\ MaxWord \in Nat
  /\ MaxTextures \in Nat /\ MaxPending \in Nat \ {0}

None == 0
Textures == 1 .. MaxTextures
Slots == 0 .. Buffers - 1

VARIABLES
  session,    \* of a capture pool: "none" or "open"; "direct" without a pool
  ring,       \* BufferedTexture::texture
  index,      \* BufferedTexture::index
  shapes,     \* of the textures made
  step,       \* where the running update is: "lock", "write", "share"
  kind,       \* it is update_bitmap or update_from_texture
  target,     \* the texture it writes
  fresh,      \* it has made that texture
  pending,    \* updates on their way to the overlay
  opened,     \* the texture the overlay has opened
  drawn,      \* the texture a frame of the overlay draws
  told,       \* the last update announced
  latest,     \* the texture last written by an update that succeeded
  rotated,    \* history: turns of the ring since the last announcement
  hidden,     \* history: None was announced, and no texture after it
  lost,       \* history: a new texture stays in the ring unannounced
  overtaken   \* history: requests under way were executed out of order

producer == <<ring, index, shapes, step, kind, target, fresh>>
overlay == <<opened, drawn>>
history == <<rotated, hidden, lost>>
vars == <<session, producer, pending, overlay, told, latest, history, overtaken>>

TypeOK ==
  /\ session \in {"direct", "none", "open"}
  /\ ring \in [Slots -> Textures \cup {None}]
  /\ index \in Slots
  /\ shapes \in Seq(Shapes) /\ Len(shapes) <= MaxTextures
  /\ step \in {"idle", "lock", "write", "share", "aborted"}
  /\ kind \in {"bitmap", "texture"}
  /\ {target, opened, drawn, told, latest} \subseteq 0 .. Len(shapes)
  /\ ToSet(ring) \subseteq 0 .. Len(shapes)
  /\ fresh \in BOOLEAN /\ hidden \in BOOLEAN /\ lost \in BOOLEAN /\ overtaken \in BOOLEAN
  /\ pending \in Seq(0 .. Len(shapes)) /\ Len(pending) <= MaxPending
  /\ rotated \in 0 .. Buffers

NoTextures == [i \in Slots |-> None]

Init ==
  /\ session \in {"direct", "none"}
  /\ ring = NoTextures /\ index = 0
  /\ shapes = <<>>
  /\ step = "idle" /\ kind = "texture" /\ target = None /\ fresh = FALSE
  /\ pending = <<>>
  /\ opened = None /\ drawn = None
  /\ told = None /\ latest = None
  /\ rotated = 0
  /\ hidden = FALSE /\ lost = FALSE /\ overtaken = FALSE
-----------------------------------------------------------------------------
(* Which part of a texture is copied: copy_to_surface checks the two axes  *)
(* alike, each as r: len pixels, from src of a source of from pixels, to   *)
(* dst of a surface of size pixels.                                        *)

Word == 0 .. MaxWord
Axes == [dst : Word, src : Word, len : Word, size : Word, from : Word]

(* Addition of u32 in a release build. *)
Sum32(a, b) == (a + b) % (MaxWord + 1)

IsOut(x, size) == x > size

(* Mutant of Accepted: only the start of the copy is checked in the source. *)
Accepted_StartOnly(r) ==
  /\ ~IsOut(r.dst, r.size) /\ ~IsOut(Sum32(r.dst, r.len), r.size)
  /\ ~IsOut(r.src, r.from)

Accepted(r) ==
  /\ ~IsOut(r.dst, r.size) /\ ~IsOut(Sum32(r.dst, r.len), r.size)
  /\ ~IsOut(r.src, r.from) /\ ~IsOut(Sum32(r.src, r.len), r.from)

Copies == {r \in Axes : Accepted(r)}
-----------------------------------------------------------------------------
(* An update.                                                              *)

(* A picture may come: from the caller, or as a frame of the session. *)
Ready(k) ==
  /\ step = "idle"
  /\ session = "direct" \/ (session = "open" /\ k = "texture")
  /\ Len(pending) < MaxPending

(* The current texture has the shape s. *)
Fits(s) == ring[index] # None /\ shapes[ring[index]] = s

(* texture_for: the slot for a picture of the shape s... *)
SlotFor(s) == IF Fits(s) THEN index ELSE (index + 1) % Buffers

(* Mutant of TextureFor: the next slot is not emptied. *)
TextureFor_Keeps(s) == ring

(* ...and the ring then: the next slot is emptied before it is used. *)
TextureFor(s) == IF Fits(s) THEN ring ELSE [ring EXCEPT ![SlotFor(s)] = None]

Turn(s) ==
  /\ index' = SlotFor(s)
  /\ rotated' = IF Fits(s) \/ rotated = Buffers THEN rotated ELSE rotated + 1

(* The slot has a texture. *)
Reuse(k, s) ==
  /\ Ready(k)
  /\ Turn(s)
  /\ ring' = TextureFor(s)
  /\ ring'[index'] # None
  /\ step' = "lock" /\ kind' = k /\ target' = ring'[index'] /\ fresh' = FALSE
  /\ UNCHANGED <<session, shapes, pending, overlay, told, latest, hidden, lost, overtaken>>

(* It has none: one is made, which for a bitmap goes into the slot at once. *)
Make(k, s) ==
  /\ Ready(k)
  /\ Turn(s)
  /\ TextureFor(s)[index'] = None
  /\ Len(shapes) < MaxTextures
  /\ shapes' = Append(shapes, s)
  /\ step' = "lock" /\ kind' = k /\ target' = Len(shapes') /\ fresh' = TRUE
  /\ ring' = IF k = "bitmap" THEN [TextureFor(s) EXCEPT ![index'] = target']
                             ELSE TextureFor(s)
  /\ UNCHANGED <<session, pending, overlay, told, latest, hidden, lost, overtaken>>

(* CreateTexture2D fails: the slot is empty, and the next update turns the *)
(* ring again.                                                             *)
MakeFails(k, s) ==
  /\ Ready(k)
  /\ Turn(s)
  /\ ring' = TextureFor(s)
  /\ ring'[index'] = None
  /\ step' = IF session = "direct" THEN "idle" ELSE "aborted"
  /\ UNCHANGED <<session, shapes, kind, target, fresh, pending, overlay, told, latest,
                 hidden, lost, overtaken>>

(* AcquireSync waits for the overlay to release the texture. *)
Lock ==
  /\ step = "lock"
  /\ drawn # target
  /\ step' = "write"
  /\ UNCHANGED <<session, ring, index, shapes, kind, target, fresh, pending, overlay,
                 told, latest, history, overtaken>>

(* The picture is copied into the texture, unless a bitmap has just made   *)
(* the texture from it; nothing is returned if the texture is an old one.  *)
Write ==
  /\ step = "write"
  /\ kind = "bitmap" \/ Copies # {}
  /\ IF fresh
       THEN /\ step' = "share"
            /\ UNCHANGED <<kind, target, latest>>
       ELSE /\ step' = "idle" /\ kind' = "texture" /\ target' = None
            /\ latest' = target
  /\ UNCHANGED <<session, ring, index, shapes, fresh, pending, overlay, told, history,
                 overtaken>>

Announce(u) ==
  /\ pending' = Append(pending, u)
  /\ told' = u
  /\ overtaken' = (overtaken /\ pending # <<>>)

(* The handle of a new texture, which is now in the ring for certain, is   *)
(* sent to the overlay.                                                    *)
Share ==
  /\ step = "share"
  /\ ring' = [ring EXCEPT ![index] = target]
  /\ Announce(target)
  /\ latest' = target
  /\ step' = "idle" /\ kind' = "texture" /\ target' = None /\ fresh' = FALSE
  /\ rotated' = 0 /\ hidden' = FALSE /\ lost' = FALSE
  /\ UNCHANGED <<session, index, shapes, overlay>>

(* The update returns an error.  Its new texture stays in the ring if a    *)
(* bitmap put it there.  The handler of a capture pool unwraps the error   *)
(* in a callback of the system.                                            *)
Fail ==
  /\ lost' = (lost \/ (fresh /\ kind = "bitmap"))
  /\ step' = IF session = "direct" THEN "idle" ELSE "aborted"
  /\ kind' = "texture" /\ target' = None /\ fresh' = FALSE
  /\ UNCHANGED <<session, ring, index, shapes, pending, overlay, told, latest,
                 rotated, hidden, overtaken>>

(* AcquireSync fails. *)
LockFails == step = "lock" /\ Fail

(* The rectangle of the copy is out of range. *)
WriteFails == step = "write" /\ kind = "texture" /\ Copies # Axes /\ Fail

(* The new texture gives no handle. *)
ShareFails == step = "share" /\ Fail

(* update_bitmap with an empty picture: the overlay is to show nothing; the *)
(* ring stays.                                                              *)
Empty ==
  /\ Ready("bitmap")
  /\ Announce(None)
  /\ hidden' = TRUE
  /\ UNCHANGED <<session, producer, overlay, latest, rotated, lost>>

(* The textures are released; nothing is announced. *)
Clear ==
  /\ session = "direct" /\ step = "idle"
  /\ ring # NoTextures
  /\ ring' = NoTextures /\ index' = 0
  /\ latest' = None
  /\ UNCHANGED <<session, shapes, step, kind, target, fresh, pending, overlay, told,
                 history, overtaken>>

(* D3DCapturePool::start and stop (also its drop). *)
StartCapture ==
  /\ session = "none" /\ step = "idle"
  /\ session' = "open"
  /\ UNCHANGED <<producer, pending, overlay, told, latest, history, overtaken>>

StopCapture ==
  /\ session = "open"
  /\ session' = "none"
  /\ UNCHANGED <<producer, pending, overlay, told, latest, history, overtaken>>
-----------------------------------------------------------------------------
(* The overlay.                                                            *)

(* A texture lives as long as somebody has it. *)
Alive(t) ==
  \/ \E i \in Slots : ring[i] = t
  \/ t \in {target, opened, drawn}

(* A request is executed, in some order: it opens the handle if there is a *)
(* texture behind it, else it fails and the overlay keeps what it has.     *)
Execute(i) ==
  /\ i \in DOMAIN pending
  /\ pending' = RemoveAt(pending, i)
  /\ overtaken' = (overtaken \/ i > 1)
  /\ opened' = IF pending[i] = None \/ Alive(pending[i]) THEN pending[i] ELSE opened
  /\ UNCHANGED <<session, producer, drawn, told, latest, history>>

(* The update holds the keyed mutex of its texture. *)
Locked == step = "write" \/ (step = "share" /\ kind = "bitmap")

(* A frame draws the texture and holds its keyed mutex meanwhile. *)
FrameStart ==
  /\ drawn = None /\ opened # None
  /\ ~(Locked /\ target = opened)
  /\ drawn' = opened
  /\ UNCHANGED <<session, producer, pending, opened, told, latest, history, overtaken>>

(* Mutant of FrameEnd: the keyed mutex is not released. *)
FrameEnd_Keeps ==
  /\ drawn # None
  /\ UNCHANGED vars

FrameEnd ==
  /\ drawn # None
  /\ drawn' = None
  /\ UNCHANGED <<session, producer, pending, opened, told, latest, history, overtaken>>
-----------------------------------------------------------------------------
Begin ==
  \E k \in {"bitmap", "texture"}, s \in Shapes :
    Reuse(k, s) \/ Make(k, s) \/ MakeFails(k, s)

Proceed == Write \/ WriteFails \/ Share \/ ShareFails

Next ==
  \/ Begin \/ Lock \/ LockFails \/ Proceed \/ Empty \/ Clear
  \/ StartCapture \/ StopCapture
  \/ \E i \in 1 .. MaxPending : Execute(i)
  \/ FrameStart \/ FrameEnd

Spec == Init /\ [][Next]_vars

(***************************************************************************)
(* An update that runs goes on, a frame ends and releases its texture, and *)
(* the system gives a keyed mutex to one who waits for it; no picture has  *)
(* to come, nor a frame.                                                   *)
(***************************************************************************)
FairSpec == Spec /\ SF_vars(Lock) /\ WF_vars(Proceed) /\ WF_vars(FrameEnd)
-----------------------------------------------------------------------------
(***************************************************************************)
(* The overlay has been told of the texture that updates write to: one     *)
(* that returns nothing has written to the texture announced last          *)
(* ("Returns None if the update is done to an existing internal texture",  *)
(* surface.rs), unless an empty bitmap took that announcement back or the  *)
(* handle of a bitmap's texture was lost.                                  *)
(***************************************************************************)
WritesAnnounced == latest # None => (told = latest \/ hidden \/ lost)

(***************************************************************************)
(* When nothing is under way the overlay has the texture written last,     *)
(* however fast shapes change and however many handles die before they are *)
(* opened: the last one does not, unless updates that failed turned the    *)
(* whole ring, or requests overtook each other.                            *)
(***************************************************************************)
Settled ==
  (pending = <<>> /\ latest # None) =>
    (opened = latest \/ hidden \/ lost \/ overtaken \/ rotated = Buffers)

(***************************************************************************)
(* The overlay follows the ring: it was told of the texture that updates   *)
(* write to, and comes to open it.                                         *)
(***************************************************************************)
OverlayFollows == TypeOK /\ WritesAnnounced /\ Settled

(***************************************************************************)
(* A copy that copy_to_surface accepts reads pixels of the source and      *)
(* writes pixels of the surface only, unless the end of the rectangle      *)
(* exceeds a u32.                                                          *)
(***************************************************************************)
CopyInside ==
  (step = "write" /\ kind = "texture") =>
    \A r \in Copies :
      \/ \A i \in 0 .. r.len - 1 : r.dst + i < r.size /\ r.src + i < r.from
      \/ r.dst + r.len > MaxWord \/ r.src + r.len > MaxWord

(***************************************************************************)
(* An update returns, although it waits without a timeout for the keyed    *)
(* mutex of a texture that the overlay draws frame after frame.            *)
(***************************************************************************)
UpdateReturns == (step \in {"lock", "write", "share"}) ~> (step \in {"idle", "aborted"})
=============================================================================

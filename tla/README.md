# Verification of asdf-overlay

TLA+ models of asdf-overlay, checked with TLC and, where a property matters for
every size of the system, proved with TLAPS. `PROJECT.json` lists the runs, the
lines of the source each definition models, the hazards and the theorems. Paths below are relative to `src/`.

## 1. The system

A client program injects a DLL into the process of a game. The DLL hooks the
graphics APIs and the window messages of that process, draws a texture of the
client over every frame, captures and blocks input, and talks to the client
over a named pipe.

```
 client process                         | hooked process
 packages/core, crates/client  --pipe-->  crates/dll  --calls-->  crates/window   (input)
      ^  producer of textures           |     ^  |                    ^ message threads
      |  crates/surface-util            |     |  +------ calls -->  crates/overlay (drawing)
      +---------- events ---------------+-----+                       ^ present threads
                                        |                          crates/vulkan-layer
```

### Inventory

| Component | State | Operations | What makes it correct |
|---|---|---|---|
| window: input blocking (`window/src/global.rs`, `message_loop.rs`, `window.rs`) | `blocking_state`, the maps `message_loops` and `windows`, a queue of closures per loop, the blocked state of each loop and window | `block_input`, `unblock_input`, WM_CLOSE, reading a message, WM_QUIT, WM_NCDESTROY | what was blocked is restored; each episode ends with one InputBlockingEnded; a block covers everything |
| window: cursor clipping (`global.rs`, `global/hook.rs`) | the rectangle saved in `blocking_state`, the system's rectangle | the two calls above, hooked ClipCursor and GetClipCursor | the application finds its rectangle as it left it |
| window: input capture (`message_loop/hook.rs`, `window/proc.rs`, `window/click_state.rs`) | input flags, hover flag, click state, IME state | hooked GetMessage, PeekMessage and key queries, messages sent to the window | every input message goes to the application or the client as blocking and listening say; what is kept of mouse, keys and IME is true |
| dll: server session (`dll/src/ipc.rs`, the two event sinks) | the event sinks, the session, what a client has set | snapshot, requests, clean-up | the client's view is the truth; nothing outlives its session |
| client: IPC connection (`client/src/client.rs`, `dll/src/ipc/io.rs`) | id counter, map of senders, frames in the pipe | request, response, drop | own response, at most once, every request returns |
| overlay: texture slot (`overlay/src/surface/texture.rs`, `hook/dx/dx11.rs`) | the `updated` flag, the slot, the renderer's copy, NT handles | `commit_overlay_texture`, a presented frame, clean-up | the committed texture is shown; a handle is closed once and never in use |
| overlay: surface map and hooks (`overlay/src/surface.rs`, `hook/dx`, `hook/opengl`) | `SURFACES`, `RENDERERS`, queue map of Direct3D 12, contexts of OpenGL | present, resize, release, deletion of a context or window | a surface is that of the object at its id, and goes with it; the application's state is left alone |
| overlay: renderer of Direct3D 12 (`overlay/src/renderer/dx12.rs`) | command allocators, one fence, the texture | draw, replace the texture | nothing is changed that the GPU still uses |
| vulkan-layer: renderer and present (`renderer.rs`, `renderer/frame.rs`, `device/queue.rs`) | a fence, a semaphore and a command buffer per image, the texture | `vkQueuePresentKHR` | nothing is changed in flight, no signal is lost, presents are in order |
| vulkan-layer: tables (`instance.rs`, `instance/surface.rs`, `device.rs`, `device/swapchain.rs`) | dispatch tables, maps of devices, queues, surfaces, swapchains | the create and destroy entry points | the entry of a handle is that of the object that has it |
| surface-util (`surface-util/src/surface.rs`, `capture.rs`) | ring of shared textures, capture pool | `update_bitmap`, `update_from_texture`, capture | the overlay comes to have the texture updates write to |
| egui runner (`egui/src`) | task, channel, main surface, modifiers | run, events of surfaces, windows, keys | it draws on a surface there is, at its size; input is seen |
| packages/electron (`surface.ts`, `input.ts`) | requests under way; modifiers, click counts | paint handler; translation of input | the last paint is shown; clicks are counted as the browser does |
| packages/core, injector, dll entry, hook, common, build tools | - | glue, system calls, data types | not concurrent, or pure I/O |

### Interactions and hard behaviours

* The IPC task, the message threads and the present threads share maps
  (sharded locks), flags and `ArcSwap` event sinks; no operation spans two of
  them atomically.
* `block_input` and `unblock_input` do not act on loops and windows: they queue
  closures that another thread runs later, when the window may be gone.
* WM_CLOSE (Alt+F4) calls `unblock_input` on a message thread while the IPC
  task may be in `block_input`.
* The client dies at any moment; the session's clean-up must then undo what it
  had set while hooks keep running. It reconnects to the same process.
* The futures of the client may be dropped at any await.
* A graphics API reuses the addresses of destroyed objects, which are the ids
  of surfaces; the overlay learns of an end late, by a guess, or not at all.
* The GPU runs behind the thread that presents, and queues finish in any order.
* A message is looked at several times: it is peeked, reported and filtered,
  and TranslateMessage posts another one.
* The client's textures are shared by handles that keep nothing alive, sent in
  requests that may overtake each other.

## 2. The modules

| Module | Models | Abstract from / composes |
|---|---|---|
| `InputBlocking` | blocking state, message loops, their queues, WM_CLOSE/WM_QUIT/WM_NCDESTROY, the IPC task's requests, disconnect | |
| `ClipCursor` | the saved clipping rectangle and the hooked system calls | the part of the same two calls that `InputBlocking` leaves out |
| `InputCapture` | the messages of one window: who gets them, and what is kept of mouse, keys and IME | blocking is one flag here, `InputBlocking` has its steps |
| `TextureSlot` | commit of a shared texture against the steps of a frame; ownership of NT handles | |
| `ServerSession` | `ipc::run`, the event sinks, threads adding, resizing and removing entries | requests that `InputBlocking` and `TextureSlot` detail are one step here |
| `Rpc` | what a connection promises | abstract specification |
| `IpcConn` | client connection, pipe, server connection | implements `Rpc` (`INSTANCE Rpc`, property `KeepsPromise`) |
| `Surfaces` | the map of surfaces, the objects presented, the client's commits | |
| `DxgiHooks`, `Dx9Hooks`, `GlHooks` | the hooks of Direct3D 11 and 12, of Direct3D 9, of OpenGL | each extends `Surfaces` |
| `SurfaceHooks` | an application that presents through one of them | composes the three over one map |
| `GpuTextures` | the textures renderers hand to the GPU | |
| `VulkanFrames`, `Dx12Frames` | frames of the Vulkan layer and of Direct3D 12 against the GPU | each extends `GpuTextures` |
| `GpuFrames` | an application that presents through one of them | composes the two |
| `VulkanObjects` | what a Vulkan renderer makes and destroys, with failures half way | |
| `VulkanLayer` | the tables of the layer, filled and emptied by several threads, and what a present finds | composes `VulkanObjects`; the GPU is `VulkanFrames`' |
| `Producer` | the ring of textures of a client, its updates and requests, and the overlay that opens and draws them | |
| `EguiRunner` | the task of the egui runner, its channel, surfaces, windows, keys | |

`MC<module>` instantiates a module for TLC, `<module>Proofs` holds its theorems.
Three proof modules serve two components each: `InputBlockingProofs` also
ClipCursor, `IpcProofs` IpcConn and ServerSession, `ApplicationProofs` Producer
and EguiRunner. Where two such modules would define the same name, one of them
carries a prefix (`SessionSpec`, `RunnerSpec`).

### How state and actions correspond to the code

**InputBlocking.** `blocking` is `GlobalState::blocking_state.is_some()`;
`registered` the keys of both maps; `queue[t]` the `proc_queue` of the loop of
thread t; `blocked[x]` the `blocking_state` of a loop or window; `pc` and
`ahead` the point a call has reached: an iteration of a sharded map is the set
of keys it has not passed yet, taken in any order, and `Visit` handles one.
`spawn_fn` needs the mutex that `Pump` holds while it drains the queue.
History variables: `heard` (what the client was told last), `owed` (episodes
begun minus InputBlockingEnded emitted), `missed` (entries created behind a
running block call), `aborted` (a panic left an `extern "system"` hook).

**ClipCursor.** `clip` is the system's rectangle, `state` the `clip_cursor` in
`blocking_state`. `get_clip_cursor` is two steps, `ReadClip` and `FreeCursor`;
hooked_clip_cursor drops its lock before it calls the system, hence `ClipPass`
and `ClipSystem`. `Full` is what the system reports for a free cursor; the
rectangle the code compares it with starts at (0, 0), so it is the same only if
the virtual screen does (`atOrigin`, either value, fixed in a behaviour). History:
`want`, `forgot`, and `raced`: a ClipCursor that reaches the system before a call
has looked (`TooLate`) is not a race.

**TextureSlot.** `Commit` raises the flag, `Store` (or `OpenFails`) replaces
the slot; `FrameStart`, `FrameTake`, `FrameLoad`, `FrameOpen`, `FrameDraw` are
the awaits of a frame for those two variables. An NT handle is a resource with
an owner: the client's commit, the slot, or nobody (leaked or closed).

**ServerSession.** `phase` is where `ipc::run` is; `ahead` as above; `sinkW`
and `sinkS` the two `ArcSwapOption`s. `hook[a]` is what an agent is doing. Each
window and surface has one of its own, the threads that add, resize and remove
it: they are kept apart by the lock of the shard ("adding": the write lock is
held while Added is emitted), by the application (a swapchain is not presented
while it is destroyed) or by OpenGL's `MAP`. Only Direct3D 9 removes a surface
on a thread spawned for it (`cleanup_renderer`): these are the `Cleaners`,
which remove whatever surface is at the address by then. A surface event first loads `OverlayEventSink`
(`loaded`), whose closure is the same in every session, and then `EventSink`:
a session may end and another begin between the two. `view` is the fold of the
events sent so far, since the pipe is FIFO. `missed` records entries whose
event found no sink while a session was being set up, `crossed` live surfaces
whose end a clean-up thread announced after their Added.

**IpcConn.** `stage` is the await at which a request stands; `map` the map of
senders, dropped when `reader` ends, except while `send` holds its upgraded
`Weak`; `toServer` the frames in parts, since `Frame::write` and `write_all`
await separately; `log` the requests executed. `Cancel` drops the future of a
request at the stages in `CancelAt`; `ServerDies` loses any suffix of the
responses.

**InputCapture.** `queue` holds the posted messages of a window, `cur` the one
the message thread handles: `pc` is "read" before `read_message` (`ReadMove`,
`ReadLeave`, `ReadDown`, `ReadUp`, `ReadOther`) and "filter" before
`should_filter` (`FilterBlocked`, `FilterPass`); each looks at `blocked` and
`listen` on its own. `Get` removes a message, `Peek` may leave it. `hovering`,
`clicks`, `capture` are `cursor_hovering`, `click_state` and SetCapture, `ime`
is `ImeState`; messages of the IME are sent between others. `Poll` is the hooked
key query. `told` and `fate` say who got the message, `was` who was to get it when
`read_message` looked; `cIn`, `cIme`, `cClicks` are the client's view. The
remaining history variables record that a message was not listened to
(`unheard`, `lost`, `carried`), that the client ended blocking and listening with
the cursor inside (`parted`), that state is from an earlier
session (`stale`), that a release was filtered (`stuck`), that a press was
hidden (`hidden`) and that the IME gave no string (`failed`).

**Surfaces and the hooks.** `objs[id]` is what the application has at an
address or window handle, numbered by `gen` so that a successor at the same id
is another object; `surfaces[id]` is the entry of `SURFACES`. `env.api` says
which hooks act. A frame runs under the entries of its maps and is one step with
every point it may fail at. DxgiHooks: `rend` with the flags of
`RtvDescriptors`, `queueMap` for `QUEUE_MAP`. Dx9Hooks: `apps` counts the
application's references, `Held` those of the renderer, `Guess` is the test of
`hooked_release`; `workers` are the clean-up threads that have not run. GlHooks:
`gl` is the `MAP` of `opengl.rs` with the contexts the names of a renderer and of
its texture are of, `Drawn` and `Restored` what a frame sets in a context and
puts back; a name used in a context that is not its own may name anything
there, so what that does is chosen (`us`, `used`). History: `mixed` says that
it came to that, `bare` marks a surface whose object went away without a renderer, `drawn`,
`swapped`, `dropped` describe the step just taken.

**GpuFrames.** VulkanFrames: `queue` is what was submitted, `running` what the
GPU has started, in order, and finishes in any order; `signalled` and `fenced`
are semaphores and fences; `call` is a present over several swapchains, one
`draw_overlay` after another. Dx12Frames: `lists` what each queue has to do,
`fence`/`fenceVal` the one fence of the renderer, `allocs` the command
allocators. `broken`, `failed` and `lapses` record what the code relies on and
did not get: a wait for semaphores used twice, a refused present, a failed
submit, work of two queues, Signal failing.

**VulkanLayer.** `driver` is what exists, `tables` what the layer has in its
maps. An entry point is an action up to the driver and one for each table after
it (or before, as in the code), with `busy` between. `raced` records an object
made while its handle was still in a table, `lapses` a creation that failed.
`Present` reads the tables as `vkQueuePresentKHR` does; a missing entry would be
the failing `unwrap`, hence `Known`.

**Producer.** `ring`, `index` are `BufferedTexture`; an update goes "lock"
(AcquireSync), "write", "share" and may fail in each. `pending` holds requests
under way, which `Execute(i)` takes in any order as the paint handler does not
wait. `told`, `latest`, `opened` are the texture announced, written, and opened
by the overlay; `hidden`, `lost`, `overtaken`, `rotated` record an empty bitmap,
a handle that was not passed on, reordering, and failing updates. `Copies` is
the arithmetic of `copy_to_surface`, with `% (MaxWord + 1)` as in a release build.

**EguiRunner.** `pc` "first" and "wait" are `next_main_surface`, "windows" the
loop over the windows there are, "loop" the main loop; `queue` the channel;
`main`, `screen`, `shift`, `unseen` the runner's and egui's data. `asked`,
`again`, `pass` are egui's repaint callback, an assumption on the library. `shown`
says on which surfaces the runner's texture is. `cleanup_state` is two steps,
`RemoveSurface` and `TellDestroyed`, and `going` counts those between the two:
for an id of Direct3D 9 (`Direct9`) they run on threads of their own, several at
a time, with no surface there or while a present adds one anew. A key is
`PressKey` when its message is read from a window listened to or blocked, else
`PressUnheard`. History: `dropped` (kinds of events thrown away without a
surface), `overlooked`, `replaced`, `refused`, `crossed`, `late` (surfaces
announced before the Destroyed of another at their id was sent), `unreported`
(the shift key changed since its last message).

## 3. The runs

Several properties are named conjunctions; the table gives their parts. Type
correctness is a theorem of its own in InputBlocking, ClipCursor, TextureSlot,
ServerSession and IpcConn; in the other modules it is the first part of an
invariant (`MessagesDivided`, `TablesAgree`, `OverlayFollows`, `SurfacesAgree`,
`GpuInOrder`, `DrawsOnMain`).

| Run | Question | Properties |
|---|---|---|
| BlockingRaces | do racing calls, late threads, dying windows and reconnects leave anything blocked, or report an episode twice or never? | `NothingStaysBlocked` (`PendingAccounted`, `Restored`), `OneEndedPerEpisode` |
| BlockingSerial | without WM_CLOSE, does a block cover everything but the blind spot, is the client told the truth, do calls return and closures run? | `BlockCovers`, `ClientViewAgrees`, `EventuallyRestored`, `UnblockReturns` |
| Clip | is the application's rectangle kept, the cursor free while blocked, and the blocking invisible? | `ClipRestored`, `FreeWhileBlocked`, `SeesOwnClip` |
| Slot | are updates lost, textures drawn at a wrong size, handles closed twice or in use? is a committed texture shown in the end? | `LostOnlyByRace`, `FrameConsistent`, `HandlesSafe` (`HandleLive`, `HandlesAccounted`), `EventuallyShown` |
| Session | is the client's view right, is nothing announced twice, does nothing outlive its session, is a client served and a session cleaned up? | `ViewUnlessMissed`, `AddedOnce`, `SettingsReset`, `SessionProgress` |
| Conn | does the connection implement `Rpc`, wherever requests are dropped and whoever dies, and does a request return? | `OwnResponse`, `MapDrained`, `KeepsPromise`, `ReturnsInStep` |
| Capture | who gets each message, is what is kept of mouse, keys and IME true, does a client that saw Enter see Leave? | `MessagesDivided` (`Divided`, `CharFollowsKey`), `PointerAgrees` (`HoverAgrees`, `LeaveComes`, `CaptureEnds`, `ClicksKnown`), `KeysAgree` (`StuckOnlyByBlock`, `SecretPress`, `ImeClosed`), `LeaveReported` |
| Hooks | is a surface that of its object, through reuse of ids and failing calls; is a frame right; is the application left alone? | `SurfacesAgree` (`LeftBehind`, `SizeAgrees`), `FramesRight` (`ShowsCommitted`, `OwnNames`, `FreshTarget`, `LastDirectQueue`), `AppLeftAlone` (`NoLeak`, `RendererInContext`, `DroppedInContext`, `AppStateKept`), `StepsKeep` (`ShownStays`, `CurrentKept`) |
| Frames | is anything changed that the GPU uses, a semaphore signalled twice, a present ahead of what it shows; does a present return? | `GpuInOrder` (`InFlight`, `SemaphoreOnce`, `PresentOrdered`), `PresentReturns` |
| Vulkan | do the tables hold what exists, does a frame show what was committed, do renderers leave objects? | `TablesAgree` (`NoStaleEntry`, `Known`, `SurfaceAgrees`), `ShowsCommitted`, `NothingLeft` |
| Producer | does the overlay follow the ring, are accepted copies inside both textures, does an update return? | `OverlayFollows` (`WritesAnnounced`, `Settled`), `CopyInside`, `UpdateReturns` |
| Egui | does the runner draw a live surface at its size, know modifiers, windows and blocking, and is input seen? | `DrawsOnMain` (`MainFollows`, `RendersWhatIsShown`, `SizesAgree`), `InputAgrees` (`AllListened`, `ModifiersAgree`, `BlockingKnown`), `InputIsSeen` |

All of them hold. Where the code departs from the plain statement, the property
names the exemption, by a history variable or a condition; the list follows.

### Known limits of the code

Input blocking and clipping (`InputBlocking`, `ClipCursor`, `InputCapture`):

* A loop or window created while `block_input` iterates, after its key was
  passed and before `blocking_state` is published, is not blocked (`missed` in
  `BlockCovers`). A WM_CLOSE that races `block_input` undoes part of the block;
  `BlockCovers` is checked without WM_CLOSE.
* After a WM_CLOSE, InputBlockingEnded is emitted at the end of the iteration
  and may follow the answer to the client's next block request; `ClientViewAgrees`
  is checked without WM_CLOSE.
* A queued closure sets up the state of its window if there is none and
  `expect`s that to work: run after WM_NCDESTROY it panics in an `extern "system"` hook (`window/src/global.rs:149`;
  `aborted`). WM_QUIT drops a loop with the closures queued on it.
* A ClipCursor of the application that reaches the system after `block_input`
  or `unblock_input` has read the rectangle is overwritten or overwrites (`raced`
  in `ClipRestored`). If the virtual screen does not start at (0, 0), the free
  cursor is taken for a rectangle of the application (`window/src/global.rs:186`)
  and every `unblock_input` restores that one, not the one saved
  (`global.rs:80`): the cursor is left free (`forgot`).
* A message is looked at twice, to report it and to filter it: when blocking
  begins in between nobody gets it, when it ends both do (`Divided` says that
  this is all that can happen). Blocked side buttons are taken from the
  application and reported to nobody: `is_filter_target` has WM_XBUTTON*
  (`window/src/message_loop/hook.rs:539-542`), `emit_cursor_event_from_message`
  (297-335) has not, although there are `CursorAction::Back` and `Forward` and
  `doc/src/user-guide/node/input-control.md:59` says "All input events will be
  captured". They are the `Silent` kinds of the property, with raw input, which
  is to be blocked (line 60), and touch, which comes back as mouse messages.
* The documentation of Leave says that it "is also sent when input blocking is
  ended" (`window-event/src/input.rs:36`); `unblock_input` sends none. A client
  that ended blocking, and does not listen, with the cursor inside is never told
  Leave (`unheard` and `parted` in `LeaveReported`).
* A press whose release is filtered stays pressed for the application
  (`stuck`); a hover flag, a mouse capture or a click count outlives the session
  or a message nobody listened to (`stale`, `lost`, `carried`). A leave message
  that is not listened to is not made up for later (`unheard`): the next client
  sees Move without Enter.
* TranslateMessage runs on each peek, so the client gets several characters of a
  filtered key that is peeked (`again`); the application gets none of them.
* WM_SETFOCUS and the like are swallowed while input is blocked.

Sessions and the connection (`ServerSession`, `IpcConn`):

* An entry that changes after it was announced and before the event sinks are
  set stays wrong in the client's view (`missed` in `ViewUnlessMissed`).
* A clean-up thread of Direct3D 9 removes the surface of an address and emits
  Destroyed afterwards, without a lock (`overlay/src/surface.rs:82-89`,
  `hook/dx/dx9.rs:222-229`). A present of the same device, which may well be
  alive (see below), adds a surface in between: its Added reaches a client that
  knows the entry (exempted in `AddedOnce`), and then Destroyed makes the client
  take the live surface for gone, until it is removed (`crossed` in
  `ViewUnlessMissed`). Both are confined to `Direct9`, which the property says.
* Presents of a swapchain of Direct3D 9 detect surfaces without a client,
  although a comment says that the overlay does not render before the sink is
  set (`overlay/src/event_sink.rs:33`, `hook/dx/dx9.rs:94`).
* A request whose future is dropped inside its frame leaves the pipe out of
  step: the requests after it wait for ever (`ReturnsInStep` exempts them).
* `next_id` is a u32 that is incremented without a check (not reached in a
  model with a few requests); the pipe is created anew every five seconds while
  the previous handle is held.

Textures and surfaces (`TextureSlot`, `SurfaceHooks`, `GpuFrames`, `Producer`):

* The flag of a slot is raised before the texture is replaced: a frame in
  between takes it for the old texture and the update is lost.
* An NT handle whose texture cannot be opened, or that is committed for a
  surface that does not exist, stays open (`leaked` in `HandlesAccounted`).
  After None is committed the renderer keeps the texture it had opened.
* A surface whose object went away before it had a renderer stays in the map and
  is taken for that of the next object at the address (`bare`). The clean-up
  thread of Direct3D 9 may remove the surface of a successor.
* Direct3D 9 recognises its own last references by a count of 2 or 3; while the
  renderer has no texture, a device the application holds once looks the same.
  It copies a texture of another format but the same size to the old one, and
  leaves a frame without EndScene when drawing fails.
* OpenGL: with another unit than 0 active, a deleted program or an empty
  viewport a frame restores something else (`AppStateKept` names the three). If
  setting up a surface fails, `GlData` may name another context than the one
  its renderer is made in (`broken`). A window presented in two contexts has one
  renderer for both: the second deletes a name of the first, which may be a
  texture of the application, makes its own and draws with a program of the
  first (`overlay/src/renderer/opengl.rs:87`; `mixed` in `OwnNames`,
  `RendererInContext`, `DroppedInContext` and `AppStateKept`).
* Direct3D 12: one fence for the frames of all queues takes the value of the
  last to finish; allocators rely on the application's own waits.
* Vulkan: a present over several swapchains that are both drawn waits for the
  semaphores of the application twice (`broken = "twice"`); a frame that waits
  for several reads stages past the one it gives (`blocks`). A present refused
  after the overlay was submitted leaves its semaphore signalled. A frame that
  fails after its fence was reset makes the next one of that image wait for
  ever, with the table of the device locked (`failed`).
* Vulkan tables: surfaces and instances are removed after the driver destroyed
  them, so that a successor with the same handle is removed with them (`raced`);
  a failed renderer leaves what it had made (`NothingLeft` is about runs without
  one). The queues of a device are asked for by
  `vkGetDeviceQueue`, so one created with flags has no entry. A present with an
  overlay is passed on without its `p_next` and `p_results`.
* surface-util: an update with an empty bitmap announces None and the next
  update to the old texture announces nothing (`hidden`); an update of a bitmap
  that fails after the texture was made loses its handle (`lost`); requests sent
  without waiting overtake each other (`overtaken`). The sum of a copy wraps in a
  release build (`CopyInside` exempts it). A captured frame whose update fails
  ends in an `unwrap` (`surface-util/src/capture.rs:128`; `step = "aborted"`).
* egui: an empty surface or a closed channel ends the runner; while it waits for
  a surface it discards every other event, also a request for a repaint, after
  which egui sends none; surfaces whose Added came while it was on another are
  not looked at; the delay of a request is ignored; `screen_rect` stays when the
  surface is replaced; both shift keys are one bit. The Destroyed of a device
  of Direct3D 9, sent by a thread of its own (`overlay/src/hook/dx/dx9.rs:226`),
  may come after the Added of its next surface: the runner leaves that one and
  waits for another (`late`). A modifier pressed before the windows are listened
  to, or released without the focus, is not reported (`read_message`) and stays
  wrong until its next message (`unreported`).

### Bounds, and why they are enough

* InputBlocking: two threads and one window, for the races that need different
  owners; `MaxQueue` bounds how long a queue may be when a block call starts (2:
  it can still hold closures of an earlier episode). A third caller or window
  adds no new pair of conflicting steps: every property is about one object and
  at most two calls.
* ClipCursor: two rectangles, so that an old one can be told from a new one.
* TextureSlot: two NT handles and one KMT handle: a texture can be replaced,
  removed and committed again while one frame is drawn.
* ServerSession: a window, a surface of Direct3D 9 (it does all that a gated one
  does, but is removed by other threads) with two clean-up threads at once, so
  that two late Destroyed are on their way, and two sizes; entries interact only through the sinks and
  the order of the iteration. Sessions are not bounded.
* IpcConn: four requests: one inside whose frame a caller gives up, one whose
  answer is late, one that waits, and the next.
* InputCapture: a behaviour uses the devices of one of four scenarios, chosen
  by which state they share; at most two messages are queued when the user acts,
  so that a press and its release, or a key and its character, are in flight at
  a time; click counts saturate at 2.
* SurfaceHooks: two ids or two sizes, two objects made (one and its successor),
  two references, one late thread; contexts and queues are symmetric. States of
  the application's context: the plain one, and each that is restored under a
  condition.
* GpuFrames: Vulkan with one swapchain of two images or two of one image,
  Direct3D 12 with one queue or two; two texture objects (old and new); what a
  queue holds when a frame begins is bounded by the `depth` of the case, the
  frames drawn by one renderer of Direct3D 12 by `MaxVal` (the next renderer has
  a new fence): two, of which the second meets the list of the first.
* VulkanLayer: two threads, one handle of each kind and two of swapchains (an
  old one and its successor), two sizes, windows and textures, one failure;
  threads, handles, windows and textures are symmetric (no liveness is checked).
* Producer: a ring of two as in the code, two shapes, four textures (the ring
  turns twice), two requests under way, words up to 3 so that sums wrap.
* EguiRunner: two ids in the case about surfaces, one of them of Direct3D 9, and
  one else; one window; the hooks leave at most two events in the channel
  (`MaxEvents`), and two clean-ups of an id may be under way (`MaxGoing`), so
  that one can meet the surface that follows the other's. A case has those
  things that meet in one property.

### Fairness

* InputBlocking: strong fairness of a call, because it may wait again and again
  for the mutex of a queue that is being drained, and parking_lot's mutex is
  eventually fair; weak fairness of a thread's message pump, because `spawn_fn`
  posts WM_NULL to it so that GetMessage returns. Nobody has to send a request,
  WM_CLOSE or WM_QUIT.
* TextureSlot: the IPC task finishes a commit; the application keeps presenting
  (only `EventuallyShown` needs it).
* ServerSession: the server task runs on; a thread holding the lock of a shard
  finishes its event; strong fairness of one key of an iteration, since the
  shard may be locked anew. The client need not disconnect.
* IpcConn: the tasks of both sides are polled and so is the future of a request
  that was not dropped.
* InputCapture: the message thread finishes a message it has (weak) and goes on
  removing messages, however often it peeks (strong). The user need not do
  anything.
* GpuFrames: the thread inside a present runs on and the GPU does what it was
  given, as long as it can; no frame has to begin.
* Producer: an update that runs goes on, a frame of the overlay ends and
  releases its texture, and the keyed mutex is given to one who waits for it
  although the overlay takes it again and again (strong; the system queues the
  waiters). No picture has to come, and no frame.
* EguiRunner: the task is polled while there are events.

## 4. What is proved

The proofs cover every value of the constants: any number of threads, windows,
surfaces, handles, rectangles, requests, textures, images, queues and contexts,
any length of a ring or queue. They cover every safety property and every
action property that a run checks; two of InputBlocking, like their run, for
threads that get no WM_CLOSE.

| Theorem | Says |
|---|---|
| TypeCorrect, PendingAlwaysAccounted, RestoredAfterUnblock, NothingBlockedForGood, EndedExactlyOnce (`InputBlockingProofs`) | types; nothing stays blocked; one InputBlockingEnded per episode |
| BlockCoversAll, ClientViewTrue (`InputBlockingProofs`, `Closers = {}`) | a block covers all but its blind spot; the client is told the truth |
| ClipTypeCorrect, ClipComesBack, CursorFreed, BlockingUnseen (`InputBlockingProofs`) | types; the rectangle is kept, or the cursor is left free on a screen that does not start at (0, 0) |
| SlotTypeCorrect, UpdateLostOnlyByRace, FramesConsistent, OpenedHandleLive, HandlesHaveOwners, HandlesAreSafe (`TextureSlotProofs`) | types; the safety properties of Slot |
| SessionTypeCorrect, ClientViewCorrect, NoDoubleAdded, NothingOutlivesSession (`IpcProofs`) | types; the safety properties of Session |
| ConnTypeCorrect, CallersGetOwnResponse, SendersReleased (`IpcProofs`) | types; no response reaches another request; the map of senders drains |
| ConnectionKeepsPromise (`IpcProofs`) | refinement: `Spec => Promise!Spec`, the abstract `Rpc` |
| MessagesStayDivided, PointerStaysTrue, KeysStayTrue (`InputCaptureProofs`) | types; the safety properties of Capture, all devices used together |
| TablesStayTrue, FramesShowCommitted, NothingStaysBehind (`VulkanLayerProofs`) | types; the properties of Vulkan |
| SurfacesStayTrue, FramesStayRight, AppIsLeftAlone (`SurfaceHooksProofs`) | types; a surface is that of its object; a frame is right; the application's devices, contexts and state are left alone but for the states and windows named in section 3 |
| StepsAlwaysKeep (`SurfaceHooksProofs`) | the action property of Hooks |
| GpuStaysInOrder (`GpuFramesProofs`) | types; nothing in flight is touched, no semaphore signalled twice, no present early |
| FollowsRing, CopiesInside (`ApplicationProofs`) | types; the safety properties of Producer |
| RunnerDrawsOnMain, RunnerInputAgrees (`ApplicationProofs`) | types; the safety properties of Egui |

Assumptions are the named `ASSUME`s of the modules: disjoint sets of keys, each
window has a thread, finitely many threads; bounds are numbers, those of lengths
positive; `None` is not a handle, a size or an entry (`LayerAssumption`,
`HooksAssumption`, `TexturesAssumption`; `Nothing` in `RunnerAssumption`, which
also says that a surface may be empty, size 0). `VulkanAssumption` says that
swapchains, images and semaphores are finite in number, so that what the
application submits can be put in some order, and that the semaphores of
frames are not the application's; `Dx12Assumption` that the queue of the
swapchain is one of the queues. A case names only ids, sizes, images and queues
there are. How the inductive invariants go:

* InputBlocking: a loop or window whose queue would leave it blocked is
  *accounted for*: input is blocked, or the block call is still running, or an
  unblock call still has it ahead. The property alone is not inductive: the
  invariant adds where each caller can be, and that only a call that took the
  state iterates. What a queue leaves behind is decided by its last closure for
  the object (`EndsBlocked`), so appending and running a closure are lemmas.
  `owed` counts the set of unblocking callers, hence the finiteness assumption.
  Without WM_CLOSE the IPC task is the only caller (`Serial`): what is blocked
  and what was told is a function of its step (`Phases`), and a block call has
  passed what it does not have ahead (`Covering`). WM_CLOSE makes another caller,
  which may undo part of a block that is still running; the two statements are
  false with it (section 3).
* ClipCursor: at each step of a call the rectangle that is owed is in one of four
  places (system, `got`, `took`, `blocking_state`), as long as no other call ran
  into it; what is saved for a free cursor depends on the screen (`Saves`,
  `Found`, `Restores`).
* TextureSlot: an update not yet shown has its flag up, is in a frame past its
  take, or has been recorded as lost; every NT handle has one owner.
* ServerSession: each entry is yet to be announced, or known to be missed, or
  the client agrees with it up to the event being emitted (`Synced`), or it was
  crossed, and then the client knows nothing of it (`CrossedShape`). The sinks
  are a function of the phase, and the settings left are ahead of the reset.
* IpcConn: a request is refused only after the read task ended, for ever, so
  the n-th request has the id n - 1 and whatever carries an id belongs to it.
  For the refinement, what is on its way is in order: frames carry increasing
  requests (`FramesOrdered`), the server is behind all of them (`ServerBehind`)
  and the caller ahead of the server (`CallerAhead`); so a request is executed
  once, and a result that says success is that of an executed one
  (`ResultsTrue`). A sender in the map has its request on the way
  (`SendersTracked`), which empties the map with the pipe.
* InputCapture: `read_message` has told the client if it was due, and
  `should_filter` adds the application if it is (`Split`); a character in the
  queue is due to whom its press went, until blocking or listening changes
  (`Dividing`); behind each press in the queue is its release, or the button or
  key is still down (`Ended`), so what a press sets will be reset (`Buttons`,
  `KeysKnown`). `Composing` says the same of the messages of the IME.
* VulkanLayer: a call is alone in its phases, but for handles removed after the
  driver gave them up, so each table is a function of what exists and of the
  phase of the call under way (`InstanceTabled`, `DeviceTabled`,
  `SurfaceTabled`). One swapchain is in use at a time and only it has an entry
  (`OneChain`), so there is one renderer, which has the surface's texture while
  the flag is down (`TextureTaken`); the objects are that renderer's (`Counted`).
  `NothingLeft` rests on a lemma without state, `DropsAll`: what a drop destroys
  is a permutation of what was made, for any number of images.
* Producer: the texture announced last lies as many slots behind the index as
  the ring has turned since (`Kept`), so it is alive until the ring has turned
  all around; the last request on its way is its (`InOrder`), and when none is,
  the overlay has opened it (`Delivered`). The only fact of arithmetic is the
  step of the index modulo the length of the ring. `CopyInside` is about a sum
  modulo the word: it is right or below both terms.

* SurfaceHooks (`HooksInv`): objects are numbered as they are made, so an entry
  of the map is that of the object at its id, or of an earlier one, and then
  it is marked `bare`, or a clean-up thread is to come, or the context it was
  made in is still there (`Traced`): a new object has no entry of its own yet.
  A renderer has taken the texture of its surface while the flag is down and
  has made or missed each view whose flag is set (`DxgiShows`, `GlShows`). An
  entry of OpenGL names a context that exists, its renderer is in it unless
  the entry is `broken`, and what the renderer has of the texture is in the same
  one unless it is `mixed` (`InContext`), so a renderer is dropped where it was
  made. Each library's hooks have a lemma (`DxgiStep`, `Dx9Step`, `GlStep`);
  what they share of the map is stated once (`KeptAgrees`, `PresentedAgrees`,
  `EndedAgrees`).
* EguiRunner (`RunnerInv`): of an event that waits in the channel, what it says
  is true already, or a later one says better (`ChannelInv`): the end of a
  surface comes after what came before it, or a clean-up has yet to send it
  (`EndsAfter`), its last size last, and a new surface at an id that has ended
  after its end, or it is `late`. So the main surface is live or its end is on
  its way, of its size or a new one is on its way (`MainInv`); a live surface is
  main, has its Added in the channel, was overlooked, or is late (`WaitInv`); a
  window, the shift key and the end of blocking are known, on their way, were
  thrown away or, for the key, not reported (`InputInv`). Only ids of Direct3D 9
  have a surface and a clean-up under way at once (`OneThread`). Taking the first event and appending one are lemmas.
* GpuFrames, Vulkan: an image is rendered to, in the present under way, or given
  to a present, one of them at a time (`ImagesInv`). The semaphore of a frame,
  signalled or to be signalled, is on its way to the present of its image
  (`Carried`), so a second draw of that image finds it free (`SignalsInv`).
  Whoever draws over an image or presents it waits for a signal of every
  submission that still renders to it, or for a draw that does (`AwaitedInv`);
  with that, a present the GPU may start has nothing before it. A draw that is
  not done has its fence unsignalled and its texture alive (`DrawsInv`).
  `SignalsInv` and `AwaitedInv` hold as long as no present was refused or waited
  twice (`broken`), the others always.
* GpuFrames, Direct3D 12: with one queue at a time, the fence is behind the
  value counted while a list is unfinished, and a signal in front of a list is
  of a smaller value (`FenceInv`), so the wait before a texture is replaced
  covers every list. The allocator of a buffer is free for an application that
  waits for its own work: each buffer has one list, and none is that of the
  buffer a frame draws to (`AllocsInv`). The signal of a fence that is gone
  stays on its queue and says nothing (`Void`).

## 5. What is only model-checked

* Liveness (`EventuallyRestored`, `UnblockReturns`, `EventuallyShown`,
  `SessionProgress`, `ReturnsInStep`, `LeaveReported`, `PresentReturns`,
  `UpdateReturns`, `InputIsSeen`): temporal reasoning with fairness and ENABLED
  is out of the prover's reach.
* That each property would fail if the code had a plausible bug (the mutants in
  `PROJECT.json`): TLC finds the counterexamples at the bounds of the runs.

No module declares a RECURSIVE operator, and nothing is claimed about data of
unbounded recursion.

## 6. What is not modelled

* The shard locks of the maps appear only where one is held across an event. A
  closure that reaches `spawn_fn` of its own loop (a window handle reused
  inside it) would lock `proc_queue` twice; whether readers of a shard wait behind a
  writer is up to the map library. Neither is in a module: handles of windows
  are not reused in InputBlocking.
* Focus messages, notices of the IME and the cursor shown while input is
  blocked: answers that depend on the flag alone.
* What a renderer records, shaders, pixel formats, interop devices and their
  sharing: data, or commands in a fixed order. Direct3D 9 and 11 and OpenGL run
  behind the driver's own synchronisation and are not in GpuFrames.
* Of the keyed mutex, the lifetime of shared resources, egui's callback and the
  rules an application of Vulkan keeps, the models have what the code relies on;
  they are external.
* `packages/electron/src/input.ts` translates one event at a time; its state is
  the modifiers and a stack of click counts. `packages/core` converts types.
* Detours, injection, access control, pipe creation, tracing, the function
  pointers of the hooked APIs, build tools and examples: system calls and data
  without concurrent state of their own.

## 7. State of the plan

Every module of section 2 is written and checked, and every safety and action
property a run checks is a theorem. What could come next: window handles that are reused
inside a queued closure and the fairness of the map library's shard locks
(section 6), and the translation of input in `packages/electron`.

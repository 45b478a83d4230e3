----------------------------- MODULE EguiRunner -----------------------------
(***************************************************************************)
(* The runner of src/crates/egui: one task that draws an egui application  *)
(* on the main surface.  The hooks of surfaces and windows, and egui when  *)
(* it wants to be painted, send it events over one unbounded channel.      *)
(* While there is no main surface it throws away every event but the       *)
(* Added of the next one.                                                  *)
(*                                                                         *)
(* Of egui the model has what decides about its callback: it asks to be    *)
(* painted by one event until a pass begins, and once more at the          *)
(* beginning of the first pass after a request.  Requests with a delay,    *)
(* which the runner does not look at, are left out.                        *)
(***************************************************************************)
EXTENDS Integers, Sequences

CONSTANTS
  Ids,       \* ids of surfaces, which are given out again
  Direct9,   \* those of Direct3D 9 devices, cleaned up on threads of their own
  Windows,
  Sizes,     \* 0 is an empty surface
  Nothing,
  Cases,     \* what may happen together: surfaces and their sizes, windows, keys,
             \* whether the application blocks input and egui discards passes
  MaxEvents, \* bound on the events the hooks leave in the channel
  MaxGoing   \* bound on the clean-ups of an id under way

Keys == {"shift", "letter", "unknown"}

ASSUME RunnerAssumption ==
  /\ Sizes \subseteq Nat /\ 0 \in Sizes
  /\ MaxEvents \in Nat \ {0} /\ MaxGoing \in Nat \ {0}
  /\ Direct9 \subseteq Ids
  /\ Nothing \notin Sizes /\ Nothing \notin Ids /\ Nothing \notin Keys
  /\ Cases \subseteq [ids : SUBSET Ids, sizes : SUBSET Sizes, windows : SUBSET Windows,
                      keys : SUBSET Keys, blocks : BOOLEAN, discards : BOOLEAN]

VARIABLES
  use,       \* what happens in this behaviour
  surfaces,  \* SURFACES: sizes
  going,     \* how many removals at an id have not sent their Destroyed yet
  windows,   \* Backends::windows
  listening, \* windows with all their input flags set
  held,      \* the shift key is down
  blocked,   \* input is blocked
  queue,     \* the channel
  pc,        \* the runner: "first", "windows", "loop", "wait", "ended"
  main,      \* the id and size of SurfaceState
  screen,    \* the screen_rect that egui has
  shown,     \* surfaces whose slot has the texture the runner renders to
  shift,     \* RawInput::modifiers
  unseen,    \* RawInput::events is not empty
  belief,    \* the application takes input for blocked
  asked,     \* egui has sent an event since the last pass began
  again,     \* egui will send another when the next pass begins
  pass,      \* cumulative_pass_nr modulo 4
  dropped,   \* history: kinds of events thrown away for want of a surface
  overlooked, \* history: surfaces whose Added came while there was another
  replaced,  \* history: the main surface is new and was not resized
  refused,   \* history: the last texture was not taken
  crossed,   \* history: the application blocked input before it was told
             \* the end of its last blocking
  late,      \* history: surfaces that are there since before the Destroyed of
             \* another at their id was sent
  unreported \* history: the shift key changed since its last message

env == <<use, surfaces, going, windows, held, late, unreported>>
egui == <<asked, again, pass>>
runnerHistory == <<dropped, overlooked, replaced, refused, crossed>>
runnerVars == <<env, listening, blocked, queue, pc, main, screen, shown, shift, unseen,
                belief, egui, runnerHistory>>

Event ==
  [kind : {"added", "resized"}, id : Ids, size : Sizes] \cup
  [kind : {"destroyed"}, id : Ids] \cup
  [kind : {"window"}, window : Windows] \cup
  [kind : {"key"}, key : Keys, pressed : BOOLEAN] \cup
  [kind : {"unblocked"}] \cup
  [kind : {"repaint"}, pass : 0..3]

RunnerTypeOK ==
  /\ use \in Cases
  /\ surfaces \in [Ids -> Sizes \cup {Nothing}]
  /\ going \in [Ids -> 0..MaxGoing]
  /\ shown \subseteq Ids /\ overlooked \subseteq Ids /\ late \subseteq Direct9
  /\ windows \subseteq Windows /\ listening \subseteq windows
  /\ queue \in Seq(Event)
  /\ pc \in {"first", "windows", "loop", "wait", "ended"}
  /\ main \in [id : Ids \cup {Nothing}, size : Sizes]
  /\ screen \in Sizes
  /\ {held, blocked, shift, unseen, belief, asked, again, replaced, refused, crossed,
      unreported} \subseteq BOOLEAN
  /\ pass \in 0..3
  /\ dropped \subseteq {"repaint", "window", "key", "unblocked"}
  /\ pc \in {"windows", "loop"} => main.id # Nothing

(* The setup function of the application may have asked egui for a repaint, *)
(* when the callback was not set yet.                                       *)
RunnerInit ==
  /\ use \in Cases
  /\ surfaces = [i \in Ids |-> Nothing] /\ going = [i \in Ids |-> 0]
  /\ windows = {} /\ listening = {}
  /\ held = FALSE /\ blocked = FALSE
  /\ queue = <<>>
  /\ pc = "first"
  /\ main = [id |-> Nothing, size |-> 0] /\ screen = 0 /\ shown = {}
  /\ shift = FALSE /\ unseen = FALSE /\ belief = FALSE
  /\ asked \in BOOLEAN /\ again = TRUE /\ pass = 0
  /\ dropped = IF asked THEN {"repaint"} ELSE {}
  /\ overlooked = {} /\ late = {} /\ unreported = FALSE
  /\ replaced = FALSE /\ refused = FALSE /\ crossed = FALSE
-----------------------------------------------------------------------------
(* The application: its surfaces, windows and keys.                        *)

Send(e) ==
  /\ Len(queue) < MaxEvents
  /\ queue' = Append(queue, e)

(* A thread that presents a Direct3D 9 device does not wait for the        *)
(* clean-ups of the device; with the other hooks one thread does both.     *)
AddSurface(i, s) ==
  /\ surfaces[i] = Nothing
  /\ going[i] = 0 \/ i \in Direct9
  /\ Send([kind |-> "added", id |-> i, size |-> s])
  /\ surfaces' = [surfaces EXCEPT ![i] = s]
  /\ UNCHANGED <<use, going, windows, held, listening, blocked, pc, main, screen, shown,
                 shift, unseen, belief, egui, runnerHistory, late, unreported>>

ResizeSurface(i, s) ==
  /\ surfaces[i] \notin {Nothing, s}
  /\ Send([kind |-> "resized", id |-> i, size |-> s])
  /\ surfaces' = [surfaces EXCEPT ![i] = s]
  /\ UNCHANGED <<use, going, windows, held, listening, blocked, pc, main, screen, shown,
                 shift, unseen, belief, egui, runnerHistory, late, unreported>>

(* cleanup_state removes a surface, with its texture, and then tells.  A   *)
(* release of a Direct3D 9 device may start it with no surface there.      *)
RemoveSurface(i) ==
  /\ surfaces[i] # Nothing \/ i \in Direct9
  /\ going[i] < MaxGoing
  /\ surfaces' = [surfaces EXCEPT ![i] = Nothing]
  /\ going' = [going EXCEPT ![i] = @ + 1]
  /\ shown' = shown \ {i}
  /\ overlooked' = overlooked \ {i} /\ late' = late \ {i}
  /\ UNCHANGED <<use, windows, held, listening, blocked, queue, pc, main, screen, shift,
                 unseen, belief, egui, dropped, replaced, refused, crossed, unreported>>

TellDestroyed(i) ==
  /\ going[i] > 0
  /\ Send([kind |-> "destroyed", id |-> i])
  /\ going' = [going EXCEPT ![i] = @ - 1]
  /\ late' = IF surfaces[i] # Nothing THEN late \cup {i} ELSE late
  /\ UNCHANGED <<use, surfaces, windows, held, listening, blocked, pc, main, screen, shown,
                 shift, unseen, belief, egui, runnerHistory, unreported>>

AddWindow(w) ==
  /\ w \notin windows
  /\ Send([kind |-> "window", window |-> w])
  /\ windows' = windows \cup {w}
  /\ UNCHANGED <<use, surfaces, going, held, listening, blocked, pc, main, screen, shown,
                 shift, unseen, belief, egui, runnerHistory, late, unreported>>

RemoveWindow(w) ==
  /\ w \in windows
  /\ windows' = windows \ {w} /\ listening' = listening \ {w}
  /\ UNCHANGED <<use, surfaces, going, held, blocked, queue, pc, main, screen, shown, shift,
                 unseen, belief, egui, runnerHistory, late, unreported>>

(* The message of a key is read from a window that is listened to, or of   *)
(* which input is blocked.  A key that is down repeats its message.        *)
PressKey(k, down) ==
  /\ listening # {} \/ (blocked /\ windows # {})
  /\ k = "shift" => down \/ held
  /\ Send([kind |-> "key", key |-> k, pressed |-> down])
  /\ held' = IF k = "shift" THEN down ELSE held
  /\ unreported' = (unreported /\ k # "shift")
  /\ UNCHANGED <<use, surfaces, going, windows, listening, blocked, pc, main, screen, shown,
                 shift, unseen, belief, egui, runnerHistory, late>>

(* The shift key changes while another window has the focus, of this       *)
(* program and not listened to or of another: no event.                    *)
PressUnheard ==
  /\ held' = ~held
  /\ unreported' = TRUE
  /\ UNCHANGED <<use, surfaces, going, windows, listening, blocked, queue, pc, main, screen,
                 shown, shift, unseen, belief, egui, runnerHistory, late>>

(* WM_CLOSE ends input blocking. *)
CloseWindow ==
  /\ blocked
  /\ Send([kind |-> "unblocked"])
  /\ blocked' = FALSE
  /\ UNCHANGED <<env, listening, pc, main, screen, shown, shift, unseen, belief, egui,
                 runnerHistory>>
-----------------------------------------------------------------------------
(* egui: g is what decides about its callback, out the events it sends.    *)

Egui == [asked |-> asked, again |-> again, pass |-> pass, out |-> <<>>]

SendsRepaint(g) ==
  [g EXCEPT !.asked = TRUE, !.out = Append(@, [kind |-> "repaint", pass |-> g.pass])]

Asks(g) == [(IF g.asked THEN g ELSE SendsRepaint(g)) EXCEPT !.again = TRUE]

BeginPass(g) ==
  IF g.again THEN [SendsRepaint(g) EXCEPT !.again = FALSE]
             ELSE [g EXCEPT !.asked = FALSE]

(* A pass in which the application may ask for another. *)
Passes(g) ==
  {[h EXCEPT !.pass = (@ + 1) % 4] : h \in {BeginPass(g), Asks(BeginPass(g))}}

(* One run of egui: a pass, and a second if the first is discarded. *)
Runs(g) ==
  Passes(g) \cup (IF use.discards THEN UNION {Passes(h) : h \in Passes(g)} ELSE {})

Becomes(g) ==
  /\ asked' = g.asked /\ again' = g.again /\ pass' = g.pass
-----------------------------------------------------------------------------
(* The runner.                                                             *)

Next1 == Head(queue)
Rest == Tail(queue)

(* request_repaint as the last thing the handler of an event does. *)
HandledThenAsk ==
  /\ Becomes(Asks(Egui))
  /\ queue' = Rest \o Asks(Egui).out

(* update_surface: the new texture is committed to the surface, if there   *)
(* still is one; its failure to open the texture is logged only.           *)
Commit(i) ==
  /\ refused' \in BOOLEAN
  /\ refused' => surfaces[i] # Nothing
  /\ shown' = IF surfaces[i] # Nothing /\ ~refused' THEN {i} ELSE {}

(* next_main_surface throws an event away. *)
Discard ==
  /\ pc \in {"first", "wait"} /\ queue # <<>>
  /\ Next1.kind # "added"
  /\ queue' = Rest
  /\ dropped' = IF pc = "wait" /\ Next1.kind \in {"repaint", "window", "key", "unblocked"}
                  THEN dropped \cup {Next1.kind} ELSE dropped
  /\ UNCHANGED <<env, listening, blocked, pc, main, screen, shown, shift, unseen, belief,
                 egui, overlooked, replaced, refused, crossed>>

(* It finds a main surface.  The size egui has of the screen is set for    *)
(* the first one only.                                                     *)
FindSurface ==
  /\ pc \in {"first", "wait"} /\ queue # <<>>
  /\ Next1.kind = "added" /\ Next1.size # 0
  /\ main' = [id |-> Next1.id, size |-> Next1.size]
  /\ Commit(Next1.id)
  /\ replaced' = (pc = "wait")
  /\ IF pc = "first"
       THEN /\ pc' = "windows" /\ queue' = Rest
            /\ UNCHANGED egui
       ELSE pc' = "loop" /\ HandledThenAsk
  /\ overlooked' = overlooked \ {Next1.id}
  /\ UNCHANGED <<env, listening, blocked, screen, shift, unseen, belief, dropped, crossed>>

(* No device or texture, as for an empty surface: the runner ends. *)
FindFails ==
  /\ pc \in {"first", "wait"} /\ queue # <<>>
  /\ Next1.kind = "added"
  /\ pc' = "ended"
  /\ queue' = Rest
  /\ UNCHANGED <<env, listening, blocked, main, screen, shown, shift, unseen, belief,
                 egui, runnerHistory>>

(* init_windows, and the first request. *)
InitWindows ==
  /\ pc = "windows"
  /\ listening' = windows
  /\ screen' = main.size
  /\ Becomes(Asks(Egui))
  /\ queue' = queue \o Asks(Egui).out
  /\ pc' = "loop"
  /\ UNCHANGED <<env, blocked, main, shown, shift, unseen, belief, runnerHistory>>

Reads(kind) == pc = "loop" /\ queue # <<>> /\ Next1.kind = kind

(* Events of another surface, and the Added of this one. *)
Ignored ==
  \/ Reads("added")
  \/ (Reads("resized") \/ Reads("destroyed")) /\ Next1.id # main.id

ReadIgnored ==
  /\ Ignored
  /\ queue' = Rest
  /\ overlooked' = IF Next1.kind = "added" /\ surfaces[Next1.id] # Nothing
                     THEN overlooked \cup {Next1.id} ELSE overlooked
  /\ UNCHANGED <<env, listening, blocked, pc, main, screen, shown, shift, unseen, belief,
                 egui, dropped, replaced, refused, crossed>>

(* An empty surface keeps its texture, any other gets a new one. *)
ReadResized ==
  /\ Reads("resized") /\ Next1.id = main.id
  /\ main' = [main EXCEPT !.size = Next1.size]
  /\ IF Next1.size = 0 THEN UNCHANGED <<shown, refused>> ELSE Commit(main.id)
  /\ screen' = Next1.size
  /\ replaced' = FALSE
  /\ HandledThenAsk
  /\ UNCHANGED <<env, listening, blocked, pc, shift, unseen, belief, dropped, overlooked,
                 crossed>>

(* No new texture can be made: a panic. *)
ResizeFails ==
  /\ Reads("resized") /\ Next1.id = main.id /\ Next1.size # 0
  /\ pc' = "ended"
  /\ queue' = Rest
  /\ UNCHANGED <<env, listening, blocked, main, screen, shown, shift, unseen, belief,
                 egui, runnerHistory>>

(* Mutant of ReadDestroyed: the end of any surface is taken for that of main. *)
ReadDestroyed_Any ==
  /\ Reads("destroyed")
  /\ pc' = "wait"
  /\ queue' = Rest
  /\ UNCHANGED <<env, listening, blocked, main, screen, shown, shift, unseen, belief,
                 egui, runnerHistory>>

ReadDestroyed ==
  /\ Reads("destroyed") /\ Next1.id = main.id
  /\ pc' = "wait"
  /\ queue' = Rest
  /\ UNCHANGED <<env, listening, blocked, main, screen, shown, shift, unseen, belief,
                 egui, runnerHistory>>

ReadWindow ==
  /\ Reads("window")
  /\ listening' = listening \cup ({Next1.window} \cap windows)
  /\ queue' = Rest
  /\ UNCHANGED <<env, blocked, pc, main, screen, shown, shift, unseen, belief, egui,
                 runnerHistory>>

(* conv_key *)
ConvKey(k) == IF k = "unknown" THEN Nothing ELSE k

UpdateModifiers(k, pressed) == shift' = IF k = "shift" THEN pressed ELSE shift

(* Mutant of ReadKey: no pass is asked for. *)
ReadKey_Silent ==
  /\ Reads("key")
  /\ UpdateModifiers(ConvKey(Next1.key), Next1.pressed)
  /\ unseen' = (unseen \/ ConvKey(Next1.key) # Nothing)
  /\ queue' = Rest
  /\ UNCHANGED <<env, listening, blocked, pc, main, screen, shown, belief, egui,
                 runnerHistory>>

(* An input event is kept for the next pass, which is asked for. *)
ReadKey ==
  /\ Reads("key")
  /\ UpdateModifiers(ConvKey(Next1.key), Next1.pressed)
  /\ unseen' = (unseen \/ ConvKey(Next1.key) # Nothing)
  /\ HandledThenAsk
  /\ UNCHANGED <<env, listening, blocked, pc, main, screen, shown, belief, runnerHistory>>

(* Mutant of ReadUnblocked: the application is not told. *)
ReadUnblocked_Untold ==
  /\ Reads("unblocked")
  /\ crossed' = (crossed \/ (belief /\ blocked))
  /\ HandledThenAsk
  /\ UNCHANGED <<env, listening, blocked, pc, main, screen, shown, shift, unseen, belief,
                 dropped, overlooked, replaced, refused>>

(* on_input_blocking_ended *)
ReadUnblocked ==
  /\ Reads("unblocked")
  /\ belief' = FALSE
  /\ crossed' = (crossed \/ (belief /\ blocked))
  /\ HandledThenAsk
  /\ UNCHANGED <<env, listening, blocked, pc, main, screen, shown, shift, unseen,
                 dropped, overlooked, replaced, refused>>

(* A request from before the last pass but one. *)
Stale == Next1.pass # pass /\ (Next1.pass + 1) % 4 # pass

SkipRepaint ==
  /\ Reads("repaint") /\ Stale
  /\ queue' = Rest
  /\ UNCHANGED <<env, listening, blocked, pc, main, screen, shown, shift, unseen, belief,
                 egui, runnerHistory>>

(* What the application does about input blocking in a pass: nothing,      *)
(* block_input, or unblock_input, which sends the event to the application *)
(* itself.                                                                 *)
Blocking(sent) ==
  \/ sent = <<>> /\ UNCHANGED <<belief, blocked>>
  \/ sent = <<>> /\ use.blocks /\ ~belief /\ belief' = TRUE /\ blocked' = TRUE
  \/ /\ belief /\ belief' = FALSE /\ blocked' = FALSE
     /\ sent = IF blocked THEN <<[kind |-> "unblocked"]>> ELSE <<>>

(* egui is run with the input so far, and its output rendered. *)
Repaint ==
  /\ Reads("repaint") /\ ~Stale
  /\ unseen' = FALSE
  /\ \E g \in Runs(Egui), sent \in {<<>>, <<[kind |-> "unblocked"]>>} :
       /\ Becomes(g)
       /\ Blocking(sent)
       /\ queue' = Rest \o g.out \o sent
  /\ UNCHANGED <<env, listening, pc, main, screen, shown, shift, runnerHistory>>

(* AcquireSync or the renderer fails. *)
RenderFails ==
  /\ Reads("repaint") /\ ~Stale
  /\ pc' = "ended"
  /\ queue' = Rest
  /\ UNCHANGED <<env, listening, blocked, main, screen, shown, shift, unseen, belief,
                 egui, runnerHistory>>
-----------------------------------------------------------------------------
App ==
  \/ \E i \in use.ids : \/ \E s \in use.sizes : AddSurface(i, s) \/ ResizeSurface(i, s)
                        \/ RemoveSurface(i) \/ TellDestroyed(i)
  \/ \E w \in use.windows : AddWindow(w) \/ RemoveWindow(w)
  \/ \E k \in use.keys, down \in BOOLEAN : PressKey(k, down)
  \/ "shift" \in use.keys /\ PressUnheard
  \/ CloseWindow

Runner ==
  \/ Discard \/ FindSurface \/ InitWindows
  \/ ReadIgnored \/ ReadResized \/ ReadDestroyed
  \/ ReadWindow \/ ReadKey \/ ReadUnblocked
  \/ SkipRepaint \/ Repaint

Fails == FindFails \/ ResizeFails \/ RenderFails

RunnerNext == App \/ Runner \/ Fails

RunnerSpec == RunnerInit /\ [][RunnerNext]_runnerVars

(* The task of the runner is polled as long as there are events. *)
RunnerFairSpec == RunnerSpec /\ WF_runnerVars(Runner)
-----------------------------------------------------------------------------
Pending(kind) == \E i \in DOMAIN queue : queue[i].kind = kind

PendingOf(id) ==
  \E i \in DOMAIN queue :
    queue[i].kind \in {"added", "resized", "destroyed"} /\ queue[i].id = id

Live(id) == id \in Ids /\ surfaces[id] # Nothing

(***************************************************************************)
(* When every event was sent and handled and surfaces are left, the runner *)
(* is on one of them, unless all that are left came while it was on        *)
(* another (next_main_surface waits for new ones only), or were announced  *)
(* before the Destroyed of another at their id was sent, as a clean-up of  *)
(* Direct3D 9 may do: the runner takes that for their end.                 *)
(***************************************************************************)
MainFollows ==
  (/\ pc \in {"first", "loop", "wait"}
   /\ \A i \in Ids : going[i] = 0 /\ ~PendingOf(i)) =>
    \/ pc = "loop" /\ Live(main.id)
    \/ \A i \in Ids : Live(i) => i \in overlooked \cup late

(***************************************************************************)
(* What the runner renders to is what the overlay shows on its surface,    *)
(* unless the surface has gone and the runner will be told so, or could    *)
(* not open the texture.                                                   *)
(***************************************************************************)
RendersWhatIsShown ==
  pc = "loop" =>
    (main.id \in shown \/ PendingOf(main.id) \/ going[main.id] > 0 \/ refused)

(***************************************************************************)
(* With every event at the id of its surface sent and handled, the runner  *)
(* and egui have the size of the surface, but egui not that of a surface   *)
(* which replaced another until it is resized.                             *)
(***************************************************************************)
SizesAgree ==
  (pc = "loop" /\ Live(main.id) /\ ~PendingOf(main.id) /\ going[main.id] = 0) =>
    main.size = surfaces[main.id] /\ (screen = main.size \/ replaced)

(***************************************************************************)
(* The runner draws on a surface there is, to the texture it shows, at its *)
(* size, but for the lapses the three name (overlay_event,                 *)
(* next_main_surface).                                                     *)
(***************************************************************************)
DrawsOnMain == RunnerTypeOK /\ MainFollows /\ RendersWhatIsShown /\ SizesAgree

(***************************************************************************)
(* The runner listens to the input of every window, or will when it reads  *)
(* the Added of the window, unless it threw one away with no main surface. *)
(***************************************************************************)
AllListened ==
  pc = "loop" =>
    \A w \in windows :
      \/ w \in listening
      \/ \E i \in DOMAIN queue : queue[i].kind = "window" /\ queue[i].window = w
      \/ "window" \in dropped

(***************************************************************************)
(* A modifier that egui takes for pressed is pressed, and the reverse,     *)
(* when all keys have been handled, unless keys were thrown away or the    *)
(* modifier changed out of hearing and has sent no message since: pressed  *)
(* before the windows were listened to, or released without the focus      *)
(* (read_message; nothing resets modifiers).                               *)
(***************************************************************************)
ModifiersAgree ==
  (pc = "loop" /\ ~Pending("key")) => (shift = held \/ "key" \in dropped \/ unreported)

(***************************************************************************)
(* The application knows whether input is blocked when all events have     *)
(* been handled, unless the end of a blocking was thrown away, or was read *)
(* when the application had blocked input again.                           *)
(***************************************************************************)
BlockingKnown ==
  (pc = "loop" /\ ~Pending("unblocked")) =>
    (belief = blocked \/ "unblocked" \in dropped \/ crossed)

(***************************************************************************)
(* What the runner and the application know of windows, keys and blocking  *)
(* is true once the events about it were read, but for events that         *)
(* next_main_surface threw away and for the lapses the parts name.         *)
(***************************************************************************)
InputAgrees == AllListened /\ ModifiersAgree /\ BlockingKnown

(***************************************************************************)
(* Input that was read comes to a pass of egui and to the screen, unless a *)
(* repaint event was thrown away or came before the callback was set: egui *)
(* then never sends another.                                               *)
(***************************************************************************)
InputIsSeen ==
  (pc = "loop" /\ unseen) ~> (~unseen \/ pc # "loop" \/ "repaint" \in dropped)
=============================================================================

---------------------------- MODULE InputCapture ----------------------------
(***************************************************************************)
(* How the input messages of one window are divided between the            *)
(* application and the client (src/crates/window: message_loop/hook.rs,    *)
(* window/proc.rs, window/click_state.rs, global/hook.rs).  The hooked     *)
(* GetMessage and PeekMessage first report a message to the client         *)
(* (read_message) and then decide whether the application gets it          *)
(* (should_filter).  Both look at the same blocking state, but each on its *)
(* own, while the IPC task changes it.  The window procedure does the      *)
(* same for messages that are sent, not posted; the model has those of the *)
(* IME.  Windows and the user are the environment: the queue of the        *)
(* window, the mouse, one key, one button, a composition.                  *)
(***************************************************************************)
EXTENDS Integers, Sequences, SequencesExt

CONSTANTS
  Scenarios, \* sets of devices the user may use together
  MaxQueue,  \* bound: the user acts only below this length of the queue
  MaxClicks  \* bound: click counts are equal from here on

ASSUME CaptureAssumption == MaxQueue \in Nat \ {0} /\ MaxClicks \in Nat \ {0}

Cursor == "cursor"
Keyboard == "keyboard"

CursorKinds == {"move", "leave", "down", "up"}
KeyKinds == {"key", "keyup", "char"}
Kinds == CursorKinds \cup KeyKinds \cup {"side", "pointer"}

(* "side" are the side buttons, and raw input, which is handled alike.     *)
(* got: who got the key press a "char" was translated from.  clean: nobody *)
(* has changed what is blocked or listened to between that press and it;   *)
(* again: the press was seen by a peek that left it queued.                *)
Msg == [kind : Kinds, got : SUBSET {"app", "client"}, clean : BOOLEAN, again : BOOLEAN]
Post(k) == [kind |-> k, got |-> {}, clean |-> TRUE, again |-> FALSE]
NoMsg == [kind |-> "none", got |-> {}, clean |-> FALSE, again |-> FALSE]

VARIABLES
  devices,  \* what the user uses in this behaviour
  blocked,  \* Backends::input_blocked
  listen,   \* input_flags of the window
  queue,    \* posted messages
  pc,       \* the message thread: "idle", "read" (read_message), "filter"
  cur,      \* the message it handles
  removed,  \* the message was taken out of the queue
  told,     \* who has got cur so far
  was,      \* history: who was to get cur when read_message looked
  fate,     \* history: the last message handled and who got it
  inside,   \* the mouse is over the client area
  tracking, \* TrackMouseEvent is armed for WM_MOUSELEAVE
  hovering, \* cursor_hovering of the window
  held,     \* the button is down
  capture,  \* SetCapture is in effect
  clicks,   \* click_state: the count of the last press, 0 before the first
  key,      \* the key is down
  appKey,   \* the application takes the key for down
  comp,     \* the composition of the IME: "none", "open" or "text"
  ime,      \* ImeState of the window
  cIn,      \* the client's view: the cursor is in the window
  cIme,     \* the client's view: a composition is shown
  cClicks,  \* presses the client was told of
  stale,    \* history: hovering is from before the client's session
  unheard,  \* history: a leave message was not listened to
  parted,   \* history: blocking and listening ended with the client's cursor inside
  lost,     \* history: a button release was not listened to
  carried,  \* history: a press before the client's session, or not listened to
  stuck,    \* history: the application did not get a key release
  hidden,   \* history: the key went down while input was blocked, as since
  failed    \* history: the IME did not give its string

mouse == <<inside, tracking, hovering, held, capture, clicks, cIn, cClicks>>
keys == <<key, appKey, stuck>>
imes == <<comp, ime, cIme, failed>>
past == <<stale, unheard, parted, lost, carried>>
vars == <<blocked, listen, queue, pc, cur, removed, told, was, fate, mouse, keys,
          imes, past, hidden, devices>>

TypeOK ==
  /\ devices \in Scenarios
  /\ blocked \in BOOLEAN
  /\ listen \in SUBSET {Cursor, Keyboard}
  /\ queue \in Seq(Msg)
  /\ pc \in {"idle", "read", "filter"}
  /\ cur \in Msg \cup {NoMsg} /\ fate \in Msg \cup {NoMsg}
  /\ pc # "idle" => cur \in Msg
  /\ told \in SUBSET {"app", "client"} /\ was \in SUBSET {"app", "client"}
  /\ \A b \in {removed, inside, tracking, hovering, held, capture, key, appKey,
               cIn, cIme, stale, unheard, parted, lost, carried, stuck, hidden, failed} :
       b \in BOOLEAN
  /\ clicks \in 0..MaxClicks /\ cClicks \in 0..MaxClicks
  /\ comp \in {"none", "open", "text"}
  /\ ime \in {"Disabled", "Enabled", "Compose"}

Init ==
  /\ devices \in Scenarios
  /\ blocked = FALSE /\ listen = {}
  /\ queue = <<>> /\ pc = "idle" /\ cur = NoMsg /\ removed = FALSE
  /\ told = {} /\ was = {} /\ fate = NoMsg
  /\ inside = FALSE /\ tracking = FALSE /\ hovering = FALSE
  /\ held = FALSE /\ capture = FALSE /\ clicks = 0
  /\ key = FALSE /\ appKey = FALSE
  /\ comp = "none" /\ ime = "Disabled"
  /\ cIn = FALSE /\ cIme = FALSE /\ cClicks = 0
  /\ stale = FALSE /\ unheard = FALSE /\ parted = FALSE /\ lost = FALSE /\ carried = FALSE
  /\ stuck = FALSE /\ hidden = FALSE /\ failed = FALSE

Inc(n) == IF n < MaxClicks THEN n + 1 ELSE n
Pending(k) ==
  \/ \E m \in Range(queue) : m.kind = k
  \/ pc # "idle" /\ cur.kind = k
-----------------------------------------------------------------------------
(* The user and the system.                                                *)

Acts(d) == d \in devices /\ Len(queue) < MaxQueue

MouseMove ==
  /\ Acts("mouse")
  /\ inside' = TRUE
  /\ queue' = Append(queue, Post("move"))
  /\ UNCHANGED <<blocked, listen, pc, cur, removed, told, was, fate, tracking, hovering,
                 held, capture, clicks, cIn, cClicks, keys, imes, past, hidden, devices>>

(* The mouse leaves; a window that captures it gets all its messages.  The *)
(* application may track the mouse too.                                    *)
MouseOut ==
  /\ Acts("mouse")
  /\ inside /\ ~capture
  /\ inside' = FALSE
  /\ tracking' = FALSE
  /\ \/ queue' = Append(queue, Post("leave"))
     \/ ~tracking /\ UNCHANGED queue
  /\ UNCHANGED <<blocked, listen, pc, cur, removed, told, was, fate, hovering, held,
                 capture, clicks, cIn, cClicks, keys, imes, past, hidden, devices>>

Button ==
  /\ Acts("button")
  /\ inside \/ capture \/ "mouse" \notin devices
  /\ held' = ~held
  /\ queue' = Append(queue, Post(IF held THEN "up" ELSE "down"))
  /\ UNCHANGED <<blocked, listen, pc, cur, removed, told, was, fate, inside, tracking,
                 hovering, capture, clicks, cIn, cClicks, keys, imes, past, hidden, devices>>

KeyPress ==
  /\ Acts("keyboard")
  /\ key' = ~key
  /\ queue' = Append(queue, Post(IF key THEN "keyup" ELSE "key"))
  /\ hidden' = (blocked /\ ~key)
  /\ UNCHANGED <<blocked, listen, pc, cur, removed, told, was, fate, mouse, appKey,
                 stuck, imes, past, devices>>

(* Side buttons, raw input, and touch. *)
OtherInput(k) ==
  /\ Acts(k)
  /\ queue' = Append(queue, Post(k))
  /\ UNCHANGED <<blocked, listen, pc, cur, removed, told, was, fate, mouse, keys, imes,
                 past, hidden, devices>>

(* Mutant of Answer: a query is not hooked. *)
Answer_Unhooked == key

(* The application polls the key: GetKeyState and its relatives. *)
Answer == key /\ ~blocked

Poll ==
  /\ "keyboard" \in devices
  /\ appKey' = Answer
  /\ stuck' = FALSE
  /\ UNCHANGED <<blocked, listen, queue, pc, cur, removed, told, was, fate, mouse, key,
                 imes, past, hidden, devices>>
-----------------------------------------------------------------------------
(* The IPC task.                                                           *)

(* A character in the queue comes from a press of before the change.       *)
Dirty(m) == [m EXCEPT !.clean = @ /\ m.kind # "char"]
Unclean(s) == [i \in DOMAIN s |-> Dirty(s[i])]

(* ListenInput, BlockInput, and WM_CLOSE, which the application does not   *)
(* get while input is blocked.                                             *)
Configure(b, l) ==
  /\ <<b, l>> # <<blocked, listen>>
  /\ blocked' = b /\ listen' = l
  /\ queue' = Unclean(queue)
  /\ cur' = Dirty(cur)
  /\ fate' = NoMsg
  /\ hidden' = FALSE
  /\ parted' = (parted \/ (cIn /\ ~b /\ Cursor \notin l))
  /\ UNCHANGED <<pc, removed, told, was, mouse, keys, imes, stale, unheard, lost, carried,
                 devices>>

(* The session ends (WindowProcState::reset and unblock_input) and the     *)
(* next client has connected: it knows of no event yet.                    *)
NewSession ==
  /\ blocked' = FALSE /\ listen' = {}
  /\ queue' = Unclean(queue)
  /\ cur' = Dirty(cur)
  /\ cIn' = FALSE /\ cIme' = FALSE /\ cClicks' = 0
  /\ stale' = hovering /\ parted' = FALSE
  /\ carried' = (clicks > 0)
  /\ fate' = NoMsg
  /\ hidden' = FALSE
  /\ UNCHANGED <<pc, removed, told, was, inside, tracking, hovering, held, capture,
                 clicks, keys, comp, ime, failed, unheard, lost, devices>>
-----------------------------------------------------------------------------
(* The message thread.                                                     *)

(* GetMessage, and PeekMessage with PM_REMOVE. *)
Get ==
  /\ pc = "idle" /\ queue # <<>>
  /\ cur' = Head(queue) /\ queue' = Tail(queue)
  /\ removed' = TRUE
  /\ told' = {} /\ was' = {} /\ fate' = NoMsg
  /\ pc' = "read"
  /\ UNCHANGED <<blocked, listen, mouse, keys, imes, past, hidden, devices>>

(* PeekMessage with PM_NOREMOVE does not call read_message. *)
Peek ==
  /\ pc = "idle" /\ queue # <<>> /\ Len(queue) <= MaxQueue
  /\ cur' = [Head(queue) EXCEPT !.again = TRUE]
  /\ queue' = <<cur'>> \o Tail(queue)
  /\ removed' = FALSE
  /\ told' = {} /\ was' = {} /\ fate' = NoMsg
  /\ pc' = "filter"
  /\ UNCHANGED <<blocked, listen, mouse, keys, imes, past, hidden, devices>>

(* Mutant of Listening: blocking alone does not report. *)
Listening_FlagsOnly(f) == f \in listen

Listening(f) == blocked \/ f \in listen

Reported ==
  \/ cur.kind \in CursorKinds /\ Listening(Cursor)
  \/ cur.kind \in KeyKinds /\ Listening(Keyboard)

(* Who is to get a message of the kind k, as things stand.                 *)
Due(k) ==
  {r \in {"app", "client"} :
     IF r = "app" THEN ~blocked
     ELSE \/ k \in CursorKinds /\ (blocked \/ Cursor \in listen)
          \/ k \in KeyKinds /\ (blocked \/ Keyboard \in listen)}

Told == told' = (IF Reported THEN {"client"} ELSE {}) /\ was' = Due(cur.kind)

Step == pc = "read" /\ pc' = "filter" /\ UNCHANGED <<devices, blocked, listen, cur, removed,
                                                       fate>>

(* Mutant of ReadMove: the leave message is not asked for. *)
ReadMove_NoTrack ==
  /\ Step /\ cur.kind = "move" /\ Told
  /\ IF Reported /\ ~hovering
       THEN /\ hovering' = TRUE /\ cIn' = TRUE
            /\ stale' = FALSE /\ unheard' = FALSE /\ parted' = FALSE
       ELSE UNCHANGED <<hovering, cIn, stale, unheard, parted>>
  /\ UNCHANGED <<tracking, queue, inside, held, capture, clicks, cClicks, keys, imes,
                 lost, carried, hidden>>

(* cursor_move: the first move asks for the leave message, which the       *)
(* system posts at once if the mouse has left already.                     *)
ReadMove ==
  /\ Step /\ cur.kind = "move" /\ Told
  /\ IF Reported /\ ~hovering
       THEN /\ hovering' = TRUE /\ cIn' = TRUE
            /\ tracking' = inside
            /\ queue' = IF inside THEN queue ELSE Append(queue, Post("leave"))
            /\ stale' = FALSE /\ unheard' = FALSE /\ parted' = FALSE
       ELSE UNCHANGED <<hovering, cIn, tracking, queue, stale, unheard, parted>>
  /\ UNCHANGED <<inside, held, capture, clicks, cClicks, keys, imes, lost, carried,
                 hidden>>

(* cursor_leave *)
ReadLeave ==
  /\ Step /\ cur.kind = "leave" /\ Told
  /\ IF Reported
       THEN hovering' = FALSE /\ cIn' = FALSE /\ stale' = FALSE /\ parted' = FALSE
       ELSE UNCHANGED <<hovering, cIn, stale, parted>>
  /\ unheard' = (unheard \/ ~Reported)
  /\ UNCHANGED <<queue, inside, tracking, held, capture, clicks, cClicks, keys, imes,
                 lost, carried, hidden>>

(* get_click_count; near: the same button, close to the last press it saw, *)
(* and soon after it.                                                      *)
ClickCount(near) == IF near /\ clicks > 0 THEN Inc(clicks) ELSE 1

(* cursor_action *)
ReadDown ==
  /\ Step /\ cur.kind = "down" /\ Told
  /\ IF Reported
       THEN /\ capture' = TRUE
            /\ \E near \in BOOLEAN :
                 /\ clicks' = ClickCount(near)
                 /\ carried' = (carried /\ near)
                 /\ cClicks' = IF near THEN Inc(cClicks) ELSE 1
       ELSE /\ carried' = TRUE
            /\ UNCHANGED <<capture, clicks, cClicks>>
  /\ UNCHANGED <<queue, inside, tracking, hovering, held, cIn, keys, imes, stale,
                 unheard, parted, lost, hidden>>

(* Mutant of ReadUp: the capture is kept. *)
ReadUp_Keeps ==
  /\ Step /\ cur.kind = "up" /\ Told
  /\ lost' = (~Reported /\ (lost \/ capture))
  /\ UNCHANGED <<queue, inside, tracking, hovering, held, capture, clicks, cIn,
                 cClicks, keys, imes, stale, unheard, parted, carried, hidden>>

ReadUp ==
  /\ Step /\ cur.kind = "up" /\ Told
  /\ capture' = (capture /\ ~Reported)
  /\ lost' = (~Reported /\ (lost \/ capture))
  /\ UNCHANGED <<queue, inside, tracking, hovering, held, clicks, cIn, cClicks,
                 keys, imes, stale, unheard, parted, carried, hidden>>

(* Keys and characters, and what is filtered but not reported. *)
ReadOther ==
  /\ Step /\ cur.kind \notin CursorKinds /\ Told
  /\ UNCHANGED <<queue, mouse, keys, imes, past, hidden>>

(* is_filter_target *)
Target(k) == k \in Kinds

Char(who) ==
  [kind |-> "char", got |-> who, clean |-> ~removed \/ was = Due("key"), again |-> cur.again]

(* filtered_proc: TranslateMessage posts the character of a key press, and *)
(* the default procedure turns touch into mouse messages.                  *)
FilterBlocked ==
  /\ pc = "filter" /\ blocked /\ Target(cur.kind)
  /\ queue' = CASE cur.kind = "key"     -> Append(queue, Char(told))
                [] cur.kind = "pointer" -> queue \o <<Post("down"), Post("up")>>
                [] OTHER                -> queue
  /\ fate' = IF removed THEN cur ELSE fate
  /\ stuck' = (stuck \/ (blocked /\ removed /\ cur.kind = "keyup" /\ appKey))
  /\ pc' = "idle"
  /\ UNCHANGED <<blocked, listen, cur, removed, told, was, mouse, key, appKey, imes,
                 past, hidden, devices>>

(* The application gets the message; what it removed it translates and     *)
(* dispatches.                                                             *)
FilterPass ==
  /\ pc = "filter" /\ ~(blocked /\ Target(cur.kind))
  /\ pc' = "idle"
  /\ IF removed
       THEN /\ told' = told \cup {"app"}
            /\ fate' = cur
            /\ queue' = IF cur.kind = "key" THEN Append(queue, Char(told \cup {"app"}))
                                            ELSE queue
            /\ appKey' = CASE cur.kind = "key"   -> TRUE
                           [] cur.kind = "keyup" -> FALSE
                           [] OTHER              -> appKey
            /\ stuck' = (stuck /\ cur.kind \notin {"key", "keyup"})
       ELSE UNCHANGED <<told, was, fate, queue, appKey, stuck>>
  /\ UNCHANGED <<blocked, listen, cur, removed, was, mouse, key, imes, past, hidden,
                 devices>>
-----------------------------------------------------------------------------
(* Messages of the IME, sent to the window procedure between others.       *)

Sent == pc = "idle" /\ UNCHANGED <<blocked, listen, queue, pc, cur, removed, told,
                                   was, fate, mouse, keys, past, hidden, devices>>

(* WM_IME_STARTCOMPOSITION *)
ImeStart ==
  /\ "ime" \in devices
  /\ Sent /\ comp = "none"
  /\ comp' = "open"
  /\ ime' = "Enabled"
  /\ failed' = (failed /\ cIme)
  /\ UNCHANGED cIme

(* WM_IME_COMPOSITION with a composition string; get_ime_string may fail. *)
ImeCompose(ok) ==
  /\ Sent /\ comp \in {"open", "text"}
  /\ comp' = "text"
  /\ IF Listening(Keyboard) /\ ime # "Disabled" /\ ok
       THEN ime' = "Compose" /\ cIme' = TRUE
       ELSE UNCHANGED <<ime, cIme>>
  /\ UNCHANGED failed

(* WM_IME_COMPOSITION with a result string: Commit. *)
ImeResult(ok) ==
  /\ Sent /\ comp = "text"
  /\ comp' = "open"
  /\ IF Listening(Keyboard) /\ ime # "Disabled" /\ ok
       THEN ime' = "Enabled" /\ cIme' = FALSE
       ELSE UNCHANGED <<ime, cIme>>
  /\ UNCHANGED failed

(* WM_IME_COMPOSITION with nothing: a Commit of nothing. *)
ImeCancel ==
  /\ Sent /\ comp = "text"
  /\ comp' = "open"
  /\ cIme' = (cIme /\ ~(Listening(Keyboard) /\ ime # "Disabled"))
  /\ UNCHANGED <<ime, failed>>

(* WM_IME_ENDCOMPOSITION *)
ImeEnd(ok) ==
  /\ Sent /\ comp # "none"
  /\ comp' = "none"
  /\ ime' = "Disabled"
  /\ cIme' = (cIme /\ ~(ime = "Compose" /\ ok))
  /\ failed' = (failed \/ ~ok)
-----------------------------------------------------------------------------
User ==
  \/ MouseMove \/ MouseOut \/ Button \/ KeyPress \/ Poll
  \/ \E k \in {"side", "pointer"} : OtherInput(k)

IpcTask ==
  \/ \E b \in BOOLEAN, l \in SUBSET {Cursor, Keyboard} : Configure(b, l)
  \/ NewSession

Handle == ReadMove \/ ReadLeave \/ ReadDown \/ ReadUp \/ ReadOther \/ FilterBlocked \/ FilterPass

Ime ==
  \/ ImeStart \/ ImeCancel
  \/ \E ok \in BOOLEAN : ImeCompose(ok) \/ ImeResult(ok) \/ ImeEnd(ok)

Next == User \/ IpcTask \/ Get \/ Peek \/ Handle \/ Ime

Spec == Init /\ [][Next]_vars

(* The application goes on removing messages, however often it peeks. *)
FairSpec == Spec /\ SF_vars(Get) /\ WF_vars(Handle)
-----------------------------------------------------------------------------
(* Input there is no event for in read_message: touch, which comes back as *)
(* mouse messages, raw input, which is to be blocked, and the side buttons.*)
Silent == {"side", "pointer"}

(***************************************************************************)
(* A message the application removes goes to whom it is due - to the       *)
(* client alone while input is blocked, else to the application, and to    *)
(* the client if it listens - although read_message and should_filter look *)
(* at the settings one after the other.  When they change in between: both *)
(* get it only if the client listened or blocking ended just then, and     *)
(* nobody only if blocking began just then.  Input of a Silent kind goes   *)
(* to nobody while it is blocked, the side buttons too, although the       *)
(* documentation says that all input events are captured.                  *)
(***************************************************************************)
Divided ==
  (pc = "idle" /\ fate # NoMsg) =>
    /\ was = Due(fate.kind) => told = Due(fate.kind)
    /\ told = {"app", "client"} => (was = told \/ (was = {"client"} /\ ~blocked))
    /\ told = {} => (blocked /\ ("app" \in was \/ fate.kind \in Silent))

(***************************************************************************)
(* A character goes to whom its key press went, unless blocking or         *)
(* listening changed between the two.  A press that was looked at without  *)
(* removing it makes a character each time (TranslateMessage): the client  *)
(* then gets more of them than presses, the application never does.        *)
(***************************************************************************)
CharFollowsKey ==
  (pc = "idle" /\ fate.kind = "char" /\ fate.clean) =>
    /\ fate.got \subseteq told
    /\ told \subseteq fate.got \/ (fate.again /\ "app" \notin told)

(***************************************************************************)
(* cursor_hovering is the client's view: it has seen Enter and no Leave    *)
(* since, unless the flag is left over from an earlier session.            *)
(***************************************************************************)
HoverAgrees == hovering = (cIn \/ stale)

(***************************************************************************)
(* A window that takes the cursor for hovering gets a leave message, or    *)
(* got one it did not listen to: tracking is never forgotten.              *)
(***************************************************************************)
LeaveComes == hovering => ((inside /\ tracking) \/ Pending("leave") \/ unheard)

(***************************************************************************)
(* The overlay captures the mouse no longer than a button is pressed,      *)
(* unless it stopped listening before the release.                         *)
(***************************************************************************)
CaptureEnds == capture => (held \/ Pending("up") \/ lost)

(***************************************************************************)
(* A click count never exceeds the presses the client was told of in a     *)
(* row, unless the click state is from before its session, or a press in   *)
(* between was not listened to.                                            *)
(***************************************************************************)
ClicksKnown == clicks <= cClicks \/ carried

(***************************************************************************)
(* The application takes a released key for pressed only if its release    *)
(* is still to be read or was filtered.                                    *)
(***************************************************************************)
StuckOnlyByBlock == appKey => (key \/ Pending("keyup") \/ stuck)

(***************************************************************************)
(* A key pressed while input is blocked stays unknown to the application   *)
(* as long as nothing changes, whether it reads, peeks or polls.           *)
(***************************************************************************)
SecretPress == hidden => (~appKey \/ stuck \/ Pending("keyup"))

(***************************************************************************)
(* When the composition of the IME is over the client has no composition   *)
(* left, also if it stopped listening in between: Commit comes at the end  *)
(* at the latest, unless the IME gave no string.                           *)
(***************************************************************************)
ImeClosed == comp = "none" => (~cIme \/ failed)

(***************************************************************************)
(* The messages of a window are divided between the application and the    *)
(* client as blocking and listening say, the characters made from key      *)
(* presses included (get_message, peek_message).                           *)
(***************************************************************************)
MessagesDivided == TypeOK /\ Divided /\ CharFollowsKey

(***************************************************************************)
(* What WindowProcState keeps of the mouse - hovering, capture, clicks -   *)
(* is true of the mouse and of what the client was told.                   *)
(***************************************************************************)
PointerAgrees == HoverAgrees /\ LeaveComes /\ CaptureEnds /\ ClicksKnown

(***************************************************************************)
(* What the application believes of the keys, and the client of the        *)
(* composition, is what their messages said, through every change of who   *)
(* gets them.                                                              *)
(***************************************************************************)
KeysAgree == StuckOnlyByBlock /\ SecretPress /\ ImeClosed

(***************************************************************************)
(* A client that was told Enter is told Leave after the cursor has left,   *)
(* unless the cursor comes back.  The documentation of Leave says that it  *)
(* is also sent when input blocking is ended; unblock_input sends none, so *)
(* a client that stopped blocking and listening with the cursor inside     *)
(* (parted) and does not hear the leave message is left with Enter.        *)
(***************************************************************************)
LeaveReported == (cIn /\ ~inside) ~> (~cIn \/ inside \/ (unheard /\ parted))
=============================================================================

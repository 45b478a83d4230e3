----------------------------- MODULE ClipCursor -----------------------------
(***************************************************************************)
(* The clipping rectangle of the cursor while input is blocked             *)
(* (src/crates/window/src/global.rs and global/hook.rs).  block_input      *)
(* reads the rectangle the application has set, frees the cursor, and      *)
(* keeps the rectangle in blocking_state; until unblock_input puts it back *)
(* the hooked ClipCursor and GetClipCursor of the application go to        *)
(* blocking_state instead of the system.  None of these steps is atomic    *)
(* with the others: an application thread may call ClipCursor, or unblock  *)
(* by WM_CLOSE, between any two.                                           *)
(***************************************************************************)
CONSTANTS
  Rects,      \* rectangles the application clips the cursor to
  Full,       \* what the system reports when the cursor is free
  None,       \* Option::None of a rectangle
  Free,       \* blocking_state is None
  IpcCaller,  \* the callers: the IPC task,
  AppCaller   \* and the thread that gets WM_CLOSE

ASSUME ClipAssumption ==
  /\ Full \notin Rects
  /\ None \notin Rects \cup {Full}
  /\ Free \notin Rects \cup {Full, None}
  /\ IpcCaller # AppCaller

ClipCallers == {IpcCaller, AppCaller}
Shown == Rects \cup {Full}
Saved == Shown \cup {None}

VARIABLES
  atOrigin, \* the virtual screen starts at (0, 0); it does not change
  clip,     \* the clipping rectangle of the system
  state,    \* blocking_state: Free, or the clip_cursor saved in it
  step,     \* what each caller of block_input or unblock_input is doing
  got,      \* the result of its get_clip_cursor
  took,     \* the clip_cursor unblock_input took out of blocking_state
  passing,  \* the rectangle of a ClipCursor call on its way to the system
  want,     \* history: the rectangle the application asked for last
  forgot,   \* history: unblock_input took the free cursor for it since then
  raced     \* history: a call ran into another one since clip and want agreed

clipVars == <<atOrigin, clip, state, step, got, took, passing, want, forgot, raced>>

ClipTypeOK ==
  /\ atOrigin \in BOOLEAN
  /\ clip \in Shown
  /\ state \in Saved \cup {Free}
  /\ step \in [ClipCallers -> {"idle", "block", "blockFree", "publish",
                                "unblock", "unblockFree", "restore"}]
  /\ step[AppCaller] \notin {"block", "blockFree", "publish"}
  /\ got \in [ClipCallers -> Saved]
  /\ took \in [ClipCallers -> Saved]
  /\ passing \in Saved
  /\ want \in Shown
  /\ forgot \in BOOLEAN
  /\ raced \in BOOLEAN

(* The application may have clipped the cursor before the client connects. *)
ClipInit ==
  /\ atOrigin \in BOOLEAN
  /\ clip \in Shown /\ want = clip
  /\ state = Free
  /\ step = [c \in ClipCallers |-> "idle"]
  /\ got = [c \in ClipCallers |-> None]
  /\ took = [c \in ClipCallers |-> None]
  /\ passing = None
  /\ forgot = FALSE /\ raced = FALSE

NoClipCall == \A c \in ClipCallers : step[c] = "idle"
-----------------------------------------------------------------------------
(* block_input and unblock_input.                                          *)

StartBlock ==
  /\ step[IpcCaller] = "idle" /\ state = Free
  /\ step' = [step EXCEPT ![IpcCaller] = "block"]
  /\ raced' = (raced \/ ~NoClipCall)
  /\ UNCHANGED <<atOrigin, clip, state, got, took, passing, want, forgot>>

(* A request, the end of the connection, or WM_CLOSE. *)
TakeState(c) ==
  /\ step[c] = "idle" /\ state # Free
  /\ took' = [took EXCEPT ![c] = state]
  /\ state' = Free
  /\ step' = [step EXCEPT ![c] = "unblock"]
  /\ raced' = (raced \/ ~NoClipCall)
  /\ UNCHANGED <<atOrigin, clip, got, passing, want, forgot>>

(* get_clip_cursor: the rectangle, unless it is the one from (0, 0) of the  *)
(* size of the virtual screen.  On a screen that starts elsewhere that one *)
(* reaches outside of it, and the system reports no such rectangle.        *)
ReadClip(c) ==
  /\ step[c] \in {"block", "unblock"}
  /\ got' = [got EXCEPT ![c] = IF clip = Full /\ atOrigin THEN None ELSE clip]
  /\ step' = [step EXCEPT ![c] = IF @ = "block" THEN "blockFree" ELSE "unblockFree"]
  /\ UNCHANGED <<atOrigin, clip, state, took, passing, want, forgot, raced>>

(* Mutant of FreeCursor: the cursor stays clipped. *)
FreeCursor_Kept(c) ==
  /\ step[c] \in {"blockFree", "unblockFree"}
  /\ step' = [step EXCEPT ![c] = IF @ = "blockFree" THEN "publish" ELSE "restore"]
  /\ UNCHANGED <<atOrigin, clip, state, got, took, passing, want, forgot, raced>>

(* get_clip_cursor: ClipCursor(NULL). *)
FreeCursor(c) ==
  /\ step[c] \in {"blockFree", "unblockFree"}
  /\ clip' = Full
  /\ step' = [step EXCEPT ![c] = IF @ = "blockFree" THEN "publish" ELSE "restore"]
  /\ UNCHANGED <<atOrigin, state, got, took, passing, want, forgot, raced>>

Publish ==
  /\ step[IpcCaller] = "publish"
  /\ state' = got[IpcCaller]
  /\ step' = [step EXCEPT ![IpcCaller] = "idle"]
  /\ UNCHANGED <<atOrigin, clip, got, took, passing, want, forgot, raced>>

(* Mutant of Restore: only the rectangle of the system is looked at. *)
Restore_Current(c) ==
  /\ step[c] = "restore"
  /\ clip' = IF got[c] # None THEN got[c] ELSE clip
  /\ forgot' = (forgot \/ (got[c] = Full /\ took[c] \in Rects))
  /\ step' = [step EXCEPT ![c] = "idle"]
  /\ UNCHANGED <<atOrigin, state, got, took, passing, want, raced>>

(* get_clip_cursor().or(state.clip_cursor) *)
Restore(c) ==
  /\ step[c] = "restore"
  /\ clip' = IF got[c] # None THEN got[c]
             ELSE IF took[c] # None THEN took[c] ELSE clip
  /\ forgot' = (forgot \/ (got[c] = Full /\ took[c] \in Rects))
  /\ step' = [step EXCEPT ![c] = "idle"]
  /\ UNCHANGED <<atOrigin, state, got, took, passing, want, raced>>
-----------------------------------------------------------------------------
(* The application calls ClipCursor(r); r = Full stands for NULL.          *)

AsSaved(r) == IF r = Full THEN None ELSE r

(* Mutant of ClipBlocked: a call while input is blocked is swallowed. *)
ClipBlocked_Swallows(r) ==
  /\ passing = None /\ state # Free
  /\ want' = r /\ forgot' = FALSE
  /\ raced' = (raced \/ ~NoClipCall)
  /\ UNCHANGED <<atOrigin, clip, state, step, got, took, passing>>

(* Input is blocked: the rectangle goes to blocking_state. *)
ClipBlocked(r) ==
  /\ passing = None /\ state # Free
  /\ state' = AsSaved(r)
  /\ want' = r /\ forgot' = FALSE
  /\ raced' = (raced \/ ~NoClipCall)
  /\ UNCHANGED <<atOrigin, clip, step, got, took, passing>>

(* Input is not blocked: the lock is dropped, then the system is called. *)
ClipPass(r) ==
  /\ passing = None /\ state = Free
  /\ passing' = r
  /\ UNCHANGED <<atOrigin, clip, state, step, got, took, want, forgot, raced>>

(* The call reaches the system when block_input or unblock_input has read  *)
(* the rectangle there, or while input is blocked; or it frees the cursor  *)
(* while unblock_input has a rectangle to put back.                        *)
TooLate ==
  \/ state # Free
  \/ \E c \in ClipCallers :
       \/ step[c] \notin {"idle", "block", "unblock"}
       \/ step[c] = "unblock" /\ passing = Full /\ took[c] # None

ClipSystem ==
  /\ passing # None
  /\ clip' = passing /\ want' = passing /\ forgot' = FALSE
  /\ passing' = None
  /\ raced' = (TooLate \/ (raced /\ ~NoClipCall))
  /\ UNCHANGED <<atOrigin, state, step, got, took>>
-----------------------------------------------------------------------------
ClipNext ==
  \/ StartBlock \/ Publish \/ ClipSystem
  \/ \E c \in ClipCallers : TakeState(c) \/ ReadClip(c) \/ FreeCursor(c) \/ Restore(c)
  \/ \E r \in Shown : ClipBlocked(r) \/ ClipPass(r)

ClipSpec == ClipInit /\ [][ClipNext]_clipVars
-----------------------------------------------------------------------------
(* GetClipCursor as the application sees it. *)
Seen == IF state \in Shown THEN state ELSE clip

(* What unblock_input has to leave; on a screen that does not start at     *)
(* (0, 0) it takes the free cursor of the time blocked for what was wanted.*)
Owed == IF forgot THEN Full ELSE want

(***************************************************************************)
(* After unblock_input the cursor is clipped as the application asked      *)
(* last: before, while input was blocked, or during a call that had not    *)
(* yet looked (get_clip_cursor().or(state.clip_cursor)).  A virtual screen *)
(* that starts elsewhere than at (0, 0) leaves it free instead; calls that *)
(* ran into one another are exempt (raced).                                *)
(***************************************************************************)
ClipRestored ==
  /\ forgot => ~atOrigin
  /\ NoClipCall /\ state = Free /\ ~raced => clip = Owed

(***************************************************************************)
(* While input is blocked the cursor is free, whatever the application     *)
(* asks for, unless one of the calls ran into another.                     *)
(***************************************************************************)
FreeWhileBlocked == (NoClipCall /\ state # Free /\ ~raced) => clip = Full

(***************************************************************************)
(* While input is blocked GetClipCursor does not show it: the application  *)
(* reads what it asked for last, which is in blocking_state or, if that is *)
(* nothing, what the system has (hooked_get_clip_cursor); same exemptions. *)
(***************************************************************************)
SeesOwnClip == (NoClipCall /\ state # Free /\ ~raced) => Seen = Owed
=============================================================================

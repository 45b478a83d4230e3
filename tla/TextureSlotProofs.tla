-------------------------- MODULE TextureSlotProofs --------------------------
(***************************************************************************)
(* Theorems about TextureSlot, for any set of handles.  The invariant IInv *)
(* adds to the properties what the code relies on silently: the lock of    *)
(* the slot pins the texture a frame is opening, a flag taken during a     *)
(* commit is a lost update, and a handle belongs to one owner.             *)
(***************************************************************************)
EXTENDS TextureSlot, TLAPS

(* The entry of the surface outlives a commit and a frame that hold it. *)
Guards ==
  /\ commit = "store" => exists
  /\ frame # "idle" => exists /\ renderer

(* A commit not stored yet has its flag up, unless a frame took it. *)
FlagRaised == (commit = "store" /\ ~updated) => raced

(* The read lock of the slot. *)
SlotPinned == frame = "open" => held = inner

(* The size a frame uses is that of the slot until a commit disturbs it. *)
SizeCurrent == frame \in {"take", "load", "open"} => (sized = inner \/ disturbed)

(* The handle of a running commit has no other owner. *)
SoleOwner ==
  commit = "store" => Owned(arg) \cap (Owned(inner) \cup leaked) = {}

IInv ==
  /\ TypeOK
  /\ Guards /\ FlagRaised /\ SlotPinned /\ SizeCurrent /\ SoleOwner
  /\ LostOnlyByRace /\ FrameConsistent /\ HandlesAccounted

USE HandlesAssumption

LEMMA InitIInv == Init => IInv
  BY DEF Init, IInv, TypeOK, Textures, Guards, FlagRaised, SlotPinned, SizeCurrent,
         SoleOwner, LostOnlyByRace, FrameConsistent, HandlesAccounted, Owned

LEMMA TypeStep == TypeOK /\ [Next]_vars => TypeOK'
<1> SUFFICES ASSUME TypeOK, [Next]_vars PROVE TypeOK'
  OBVIOUS
<1> USE DEF TypeOK, Textures, Owned
<1>1. ASSUME NEW h \in Textures, Commit(h) PROVE TypeOK'
  BY <1>1 DEF Commit
<1>2. ASSUME NEW h \in Handles, CommitMissing(h) PROVE TypeOK'
  BY <1>2 DEF CommitMissing
<1>3. CASE OpenFails
  BY <1>3 DEF OpenFails
<1>4. CASE Store
  BY <1>4 DEF Store
<1>5. CASE AddSurface
  BY <1>5 DEF AddSurface
<1>6. CASE FrameStart
  BY <1>6 DEF FrameStart
<1>7. CASE FrameTake
  BY <1>7 DEF FrameTake
<1>8. CASE FrameLoad \/ FrameOpen \/ FrameOpenFails \/ FrameDraw
  BY <1>8 DEF FrameLoad, FrameOpen, FrameOpenFails, FrameDraw
<1>9. CASE DestroySurface
  BY <1>9 DEF DestroySurface
<1>10. CASE UNCHANGED vars
  BY <1>10 DEF vars
<1> QED
  BY <1>1, <1>2, <1>3, <1>4, <1>5, <1>6, <1>7, <1>8, <1>9, <1>10
     DEF Next, IpcTask, Present

(***************************************************************************)
(* The part of the invariant about the flag and the frame: the handles do  *)
(* not matter for it.                                                      *)
(***************************************************************************)
FlagInv ==
  /\ Guards /\ FlagRaised /\ SlotPinned /\ SizeCurrent
  /\ LostOnlyByRace /\ FrameConsistent

LEMMA FlagStep == TypeOK /\ FlagInv /\ [Next]_vars => FlagInv'
<1> SUFFICES ASSUME TypeOK, FlagInv, [Next]_vars PROVE FlagInv'
  OBVIOUS
<1> USE DEF TypeOK, FlagInv, Guards, FlagRaised, SlotPinned, SizeCurrent,
            LostOnlyByRace, FrameConsistent
<1>1. ASSUME NEW h \in Textures, Commit(h) PROVE FlagInv'
  BY <1>1 DEF Commit
<1>2. ASSUME NEW h \in Handles, CommitMissing(h) PROVE FlagInv'
  BY <1>2 DEF CommitMissing
<1>3. CASE OpenFails
  BY <1>3 DEF OpenFails
<1>4. CASE Store
  BY <1>4 DEF Store
<1>5. CASE AddSurface
  BY <1>5 DEF AddSurface
<1>6. CASE FrameStart
  BY <1>6 DEF FrameStart
<1>7. CASE FrameTake
  BY <1>7 DEF FrameTake
<1>8. CASE FrameLoad
  BY <1>8 DEF FrameLoad
<1>9. CASE FrameOpen
  BY <1>9 DEF FrameOpen
<1>10. CASE FrameOpenFails
  BY <1>10 DEF FrameOpenFails
<1>11. CASE FrameDraw
  BY <1>11 DEF FrameDraw
<1>12. CASE DestroySurface
  BY <1>12 DEF DestroySurface
<1>13. CASE UNCHANGED vars
  BY <1>13 DEF vars
<1> QED
  BY <1>1, <1>2, <1>3, <1>4, <1>5, <1>6, <1>7, <1>8, <1>9, <1>10, <1>11, <1>12,
     <1>13 DEF Next, IpcTask, Present

(***************************************************************************)
(* The part about the ownership of handles.                                *)
(***************************************************************************)
HandleInv == SoleOwner /\ HandlesAccounted

LEMMA HandleStep == TypeOK /\ HandleInv /\ [Next]_vars => HandleInv'
<1> SUFFICES ASSUME TypeOK, HandleInv, [Next]_vars PROVE HandleInv'
  OBVIOUS
<1> USE DEF TypeOK, HandleInv, SoleOwner, HandlesAccounted, Owned, Textures
<1>1. ASSUME NEW h \in Textures, Commit(h) PROVE HandleInv'
  BY <1>1 DEF Commit
<1>2. ASSUME NEW h \in Handles, CommitMissing(h) PROVE HandleInv'
  BY <1>2 DEF CommitMissing
<1>3. CASE OpenFails
  BY <1>3 DEF OpenFails
<1>4. CASE Store
  BY <1>4 DEF Store
<1>5. CASE DestroySurface
  BY <1>5 DEF DestroySurface
<1>6. CASE UNCHANGED <<inner, open, commit, arg, leaked>>
  BY <1>6
<1> QED
  BY <1>1, <1>2, <1>3, <1>4, <1>5, <1>6
     DEF Next, IpcTask, Present, AddSurface, FrameStart, FrameTake, FrameLoad,
         FrameOpen, FrameOpenFails, FrameDraw, vars

LEMMA Inductive == IInv /\ [Next]_vars => IInv'
  BY TypeStep, FlagStep, HandleStep DEF IInv, FlagInv, HandleInv

LEMMA Invariant == Spec => []IInv
  BY InitIInv, Inductive, PTL DEF Spec

(***************************************************************************)
(* The type invariant holds for any set of handles.                        *)
(***************************************************************************)
THEOREM SlotTypeCorrect == Spec => []TypeOK
<1>1. IInv => TypeOK
  BY DEF IInv
<1> QED
  BY <1>1, Invariant, PTL

(***************************************************************************)
(* An update of the slot is lost only to a frame that takes the flag       *)
(* between its raise and the store, or to a failing renderer.              *)
(***************************************************************************)
THEOREM UpdateLostOnlyByRace == Spec => []LostOnlyByRace
<1>1. IInv => LostOnlyByRace
  BY DEF IInv
<1> QED
  BY <1>1, Invariant, PTL

(***************************************************************************)
(* A frame undisturbed by a commit draws a texture at its own size.        *)
(***************************************************************************)
THEOREM FramesConsistent == Spec => []FrameConsistent
<1>1. IInv => FrameConsistent
  BY DEF IInv
<1> QED
  BY <1>1, Invariant, PTL

(***************************************************************************)
(* No handle is closed while a renderer opens it.                          *)
(***************************************************************************)
THEOREM OpenedHandleLive == Spec => []HandleLive
<1>1. IInv => HandleLive
  BY DEF IInv, HandleLive, SlotPinned, HandlesAccounted, Owned
<1> QED
  BY <1>1, Invariant, PTL

(***************************************************************************)
(* Every NT handle has one owner until it is closed or leaked.             *)
(***************************************************************************)
THEOREM HandlesHaveOwners == Spec => []HandlesAccounted
<1>1. IInv => HandlesAccounted
  BY DEF IInv
<1> QED
  BY <1>1, Invariant, PTL

(***************************************************************************)
(* For any handles, an NT handle is closed once and never in use.          *)
(***************************************************************************)
THEOREM HandlesAreSafe == Spec => []HandlesSafe
<1>1. HandleLive /\ HandlesAccounted => HandlesSafe
  BY DEF HandlesSafe
<1> QED
  BY <1>1, OpenedHandleLive, HandlesHaveOwners, PTL
=============================================================================

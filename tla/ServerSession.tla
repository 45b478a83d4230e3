--------------------------- MODULE ServerSession ---------------------------
(***************************************************************************)
(* A session of the IPC server in the hooked process (src/crates/dll) and  *)
(* what its client learns of the windows and surfaces of the process.      *)
(* ipc::run sends the entries the two maps hold, then sets the two event   *)
(* sinks, then serves requests; when the client goes away it clears the    *)
(* sinks and resets every entry.  Meanwhile the threads of the application *)
(* add, resize and remove entries and emit events, which go nowhere while  *)
(* no sink is set.                                                         *)
(*                                                                         *)
(* An entry has a thread of its own: every call that adds, resizes or      *)
(* removes it, one at a time.  Only a surface of Direct3D 9 is removed by  *)
(* threads spawned for that (cleanup_renderer), beside the one that        *)
(* presents and may add it anew.  The channel to the client is FIFO, so    *)
(* the client's view is the fold of what was sent so far.                  *)
(***************************************************************************)
CONSTANTS
  Windows,   \* window handles: added by the message hook, client or not
  Surfaces,  \* surface ids: added by a present hook
  Direct9,   \* surfaces of Direct3D 9: presents of a swapchain do not ask for
             \* a client, and clean-up threads remove them
  Workers,   \* bound: the clean-up threads a surface has at once
  Sizes,
  Absent

ASSUME SessionAssumption ==
  /\ Windows \cap Surfaces = {}
  /\ Direct9 \subseteq Surfaces
  /\ (Windows \cup Surfaces) \cap (Direct9 \X Workers) = {}
  /\ Absent \notin Sizes

Entries == Windows \cup Surfaces
Known == Sizes \cup {Absent}

(* Who emits events of an entry: its thread, and its clean-up threads.     *)
Cleaners == Direct9 \X Workers
Agents == Entries \cup Cleaners
Of(a) == IF a \in Entries THEN a ELSE a[1]

VARIABLES
  table,     \* the entries of windows and SURFACES: their size, or Absent
  hook,      \* what an agent is doing
  loaded,    \* that agent has loaded an OverlayEventSink
  sinkW,     \* EventSink (dll) is set
  sinkS,     \* OverlayEventSink is set
  phase,     \* what ipc::run is doing
  ahead,     \* entries an iteration of ipc::run has yet to pass
  view,      \* what the client of the session believes
  settings,  \* entries whose input flags, position or texture a client set
  missed,    \* history: entries with an event that was dropped during setup
  crossed    \* history: live surfaces the client was told the end of, late

sessionVars ==
  <<table, hook, loaded, sinkW, sinkS, phase, ahead, view, settings, missed, crossed>>

(* "adding": the entry's shard is locked, Added not emitted yet. *)
Emitting == {"adding", "resized", "gone"}

SessionTypeOK ==
  /\ table \in [Entries -> Known]
  /\ hook \in [Agents -> {"idle", "present"} \cup Emitting]
  /\ loaded \in [Agents -> BOOLEAN]
  /\ sinkW \in BOOLEAN /\ sinkS \in BOOLEAN
  /\ phase \in {"listen", "snapshot", "setup", "serve", "clear", "reset"}
  /\ ahead \in SUBSET Entries
  /\ view \in [Entries -> Known]
  /\ settings \in SUBSET {id \in Entries : table[id] # Absent}
  /\ missed \in SUBSET Entries
  /\ crossed \in SUBSET Entries

SessionInit ==
  /\ table = [i \in Entries |-> Absent]
  /\ hook = [a \in Agents |-> "idle"]
  /\ loaded = [a \in Agents |-> FALSE]
  /\ sinkW = FALSE /\ sinkS = FALSE
  /\ phase = "listen"
  /\ ahead = {}
  /\ view = [i \in Entries |-> Absent]
  /\ settings = {}
  /\ missed = {}
  /\ crossed = {}
-----------------------------------------------------------------------------
(* ipc::run                                                                *)

Connect ==
  /\ phase = "listen"
  /\ phase' = "snapshot"
  /\ ahead' = Entries
  /\ view' = [i \in Entries |-> Absent]
  /\ missed' = {}
  /\ crossed' = {}
  /\ UNCHANGED <<table, hook, loaded, sinkW, sinkS, settings>>

(* An iteration passes id; windows come before surfaces, and the lock of a *)
(* shard that gets a new entry is waited for.                              *)
Pass(id) ==
  /\ id \in ahead
  /\ id \in Surfaces => ahead \cap Windows = {}
  /\ hook[id] # "adding"
  /\ ahead' = ahead \ {id}

(* An entry the iteration meets is announced to the client. *)
Announce(id) ==
  /\ phase = "snapshot"
  /\ Pass(id)
  /\ view' = [view EXCEPT ![id] = table[id]]
  /\ UNCHANGED <<table, hook, loaded, sinkW, sinkS, phase, settings, missed, crossed>>

(* Mutant of BindEvents: the sink is set before the existing entries were  *)
(* all sent.                                                               *)
BindEvents_Early ==
  /\ phase = "snapshot"
  /\ sinkW' = TRUE
  /\ phase' = "setup"
  /\ ahead' = {}
  /\ UNCHANGED <<table, hook, loaded, sinkS, view, settings, missed, crossed>>

BindEvents ==
  /\ phase = "snapshot" /\ ahead = {}
  /\ sinkW' = TRUE
  /\ phase' = "setup"
  /\ UNCHANGED <<table, hook, loaded, sinkS, ahead, view, settings, missed, crossed>>

BindOverlay ==
  /\ phase = "setup"
  /\ sinkS' = TRUE
  /\ phase' = "serve"
  /\ UNCHANGED <<table, hook, loaded, sinkW, ahead, view, settings, missed, crossed>>

(* ListenInput, SetPosition, UpdateSharedHandle for an entry that exists; a *)
(* request for another one changes nothing.                                 *)
Configure(id) ==
  /\ phase = "serve"
  /\ table[id] # Absent /\ hook[id] # "adding"
  /\ settings' = settings \cup {id}
  /\ UNCHANGED <<table, hook, loaded, sinkW, sinkS, phase, ahead, view, missed, crossed>>

(* Reading a request fails, the client is gone: EventSink::clear.  *)
ClearEvents ==
  /\ phase = "serve"
  /\ sinkW' = FALSE
  /\ phase' = "clear"
  /\ UNCHANGED <<table, hook, loaded, sinkS, ahead, view, settings, missed, crossed>>

ClearOverlay ==
  /\ phase = "clear"
  /\ sinkS' = FALSE
  /\ phase' = "reset"
  /\ ahead' = Entries
  /\ UNCHANGED <<table, hook, loaded, sinkW, view, settings, missed, crossed>>

(* Mutant of ResetEntry: Surfaces::reset is forgotten. *)
ResetEntry_WindowsOnly(id) ==
  /\ phase = "reset"
  /\ Pass(id)
  /\ settings' = settings \ ({id} \cap Windows)
  /\ UNCHANGED <<table, hook, loaded, sinkW, sinkS, phase, view, missed, crossed>>

(* Backends::reset, then Surfaces::reset. *)
ResetEntry(id) ==
  /\ phase = "reset"
  /\ Pass(id)
  /\ settings' = settings \ {id}
  /\ UNCHANGED <<table, hook, loaded, sinkW, sinkS, phase, view, missed, crossed>>

(* The next server is opened and waits for a client. *)
Relisten ==
  /\ phase = "reset" /\ ahead = {}
  /\ phase' = "listen"
  /\ UNCHANGED <<table, hook, loaded, sinkW, sinkS, ahead, view, settings, missed, crossed>>
-----------------------------------------------------------------------------
(* The threads of the application.                                         *)

(* A present hook goes on if OverlayEventSink::connected(), or if it is    *)
(* the one of a swapchain of Direct3D 9.                                   *)
StartPresent(s) ==
  /\ hook[s] = "idle" /\ table[s] = Absent
  /\ sinkS \/ s \in Direct9
  /\ hook' = [hook EXCEPT ![s] = "present"]
  /\ UNCHANGED <<table, loaded, sinkW, sinkS, phase, ahead, view, settings, missed, crossed>>

(* or_try_insert_with: Added is emitted while the shard is locked. *)
AddEntry(id, size) ==
  /\ table[id] = Absent
  /\ hook[id] = IF id \in Surfaces THEN "present" ELSE "idle"
  /\ table' = [table EXCEPT ![id] = size]
  /\ hook' = [hook EXCEPT ![id] = "adding"]
  /\ UNCHANGED <<loaded, sinkW, sinkS, phase, ahead, view, settings, missed, crossed>>

(* Resized of a surface is emitted under the read lock of its shard.       *)
ResizeEntry(id, size) ==
  /\ hook[id] = "idle"
  /\ table[id] \notin {Absent, size}
  /\ table' = [table EXCEPT ![id] = size]
  /\ hook' = [hook EXCEPT ![id] = "resized"]
  /\ UNCHANGED <<loaded, sinkW, sinkS, phase, ahead, view, settings, missed, crossed>>

(* Mutant of RemoveEntry: Destroyed is not emitted. *)
RemoveEntry_Silent(id) ==
  /\ id \notin Direct9 /\ hook[id] = "idle"
  /\ table[id] # Absent \/ id \in Surfaces
  /\ table' = [table EXCEPT ![id] = Absent]
  /\ settings' = settings \ {id}
  /\ UNCHANGED <<hook, loaded, sinkW, sinkS, phase, ahead, view, missed, crossed>>

(* WM_NCDESTROY, or the destruction of a swapchain, which is announced    *)
(* even if the surface was never added.                                    *)
RemoveEntry(id) ==
  /\ id \notin Direct9 /\ hook[id] = "idle"
  /\ table[id] # Absent \/ id \in Surfaces
  /\ table' = [table EXCEPT ![id] = Absent]
  /\ settings' = settings \ {id}
  /\ hook' = [hook EXCEPT ![id] = "gone"]
  /\ UNCHANGED <<loaded, sinkW, sinkS, phase, ahead, view, missed, crossed>>

(* A clean-up thread of Direct3D 9 removes the surface it was spawned for, *)
(* or the next one at that address, or none; it waits for a lock of the    *)
(* shard, and emits Destroyed without one.                                 *)
CleanUp(c) ==
  /\ hook[c] = "idle"
  /\ hook[Of(c)] \notin {"adding", "resized"}
  /\ table' = [table EXCEPT ![Of(c)] = Absent]
  /\ settings' = settings \ {Of(c)}
  /\ hook' = [hook EXCEPT ![c] = "gone"]
  /\ UNCHANGED <<loaded, sinkW, sinkS, phase, ahead, view, missed, crossed>>

(* What the client makes of a's event: a resize of something unknown is    *)
(* ignored.                                                                *)
Folded(a) ==
  IF hook[a] = "gone" \/ (hook[a] = "resized" /\ view[Of(a)] = Absent)
    THEN Absent ELSE table[Of(a)]

(* What the client should believe of the entry when only a's event is out. *)
Due(a) == IF a \in Cleaners /\ hook[Of(a)] = "adding" THEN Absent ELSE table[Of(a)]

(* An event of a finds no sink.  It is missed if the session has begun and *)
(* the snapshot will not make up for it.                                   *)
Drop(a) ==
  /\ hook' = [hook EXCEPT ![a] = "idle"]
  /\ loaded' = [loaded EXCEPT ![a] = FALSE]
  /\ missed' = IF phase \in {"snapshot", "setup"} /\ Of(a) \notin ahead /\ view[Of(a)] # Due(a)
                 THEN missed \cup {Of(a)} ELSE missed
  /\ UNCHANGED <<table, sinkW, sinkS, phase, ahead, view, settings, crossed>>

(* A Destroyed that arrives after the surface was added and announced anew *)
(* crosses that Added.                                                     *)
Deliver(a) ==
  /\ hook' = [hook EXCEPT ![a] = "idle"]
  /\ loaded' = [loaded EXCEPT ![a] = FALSE]
  /\ view' = [view EXCEPT ![Of(a)] = Folded(a)]
  /\ IF Folded(a) = Due(a)
       THEN missed' = missed \ {Of(a)} /\ crossed' = crossed \ {Of(a)}
       ELSE /\ crossed' = IF hook[a] = "gone" THEN crossed \cup {Of(a)} ELSE crossed
            /\ missed' = missed
  /\ UNCHANGED <<table, sinkW, sinkS, phase, ahead, settings>>

(* Mutant of LoadOverlay: an event waits until there is a client. *)
LoadOverlay_Waits(a) ==
  /\ hook[a] \in Emitting /\ ~loaded[a]
  /\ sinkS
  /\ loaded' = [loaded EXCEPT ![a] = TRUE]
  /\ UNCHANGED <<table, hook, sinkW, sinkS, phase, ahead, view, settings, missed, crossed>>

(* A surface event goes through OverlayEventSink first. *)
LoadOverlay(a) ==
  /\ hook[a] \in Emitting /\ ~loaded[a]
  /\ IF sinkS
       THEN /\ loaded' = [loaded EXCEPT ![a] = TRUE]
            /\ UNCHANGED <<table, hook, sinkW, sinkS, phase, ahead, view, settings, missed, crossed>>
       ELSE Drop(a)

(* EventSink::emit of the dll. *)
Emit(a) ==
  /\ hook[a] \in Emitting
  /\ a \notin Windows => loaded[a]
  /\ IF sinkW THEN Deliver(a) ELSE Drop(a)
-----------------------------------------------------------------------------
Server ==
  \/ Connect \/ BindEvents \/ BindOverlay \/ ClearEvents \/ ClearOverlay \/ Relisten
  \/ \E id \in Entries : Announce(id) \/ Configure(id) \/ ResetEntry(id)

Application ==
  \/ \E s \in Surfaces : StartPresent(s)
  \/ \E id \in Entries, size \in Sizes : AddEntry(id, size) \/ ResizeEntry(id, size)
  \/ \E id \in Entries : RemoveEntry(id)
  \/ \E c \in Cleaners : CleanUp(c)
  \/ \E a \in Agents \ Windows : LoadOverlay(a)
  \/ \E a \in Agents : Emit(a)

SessionNext == Server \/ Application

SessionSpec == SessionInit /\ [][SessionNext]_sessionVars

(***************************************************************************)
(* The server task runs on, and a thread that holds the lock of a shard    *)
(* finishes its event; the client need not go away, nor send anything.     *)
(***************************************************************************)
SessionFairSpec ==
  /\ SessionSpec
  /\ WF_sessionVars(BindEvents) /\ WF_sessionVars(BindOverlay)
  /\ WF_sessionVars(ClearOverlay) /\ WF_sessionVars(Relisten)
  /\ \A id \in Entries :
       SF_sessionVars(Announce(id)) /\ SF_sessionVars(ResetEntry(id)) /\ WF_sessionVars(Emit(id))
  /\ \A s \in Surfaces : WF_sessionVars(LoadOverlay(s))
-----------------------------------------------------------------------------
(***************************************************************************)
(* The client of a running session is right about every entry, or is about *)
(* to be told that it is gone, once the entry's thread has emitted what it *)
(* has to.  Two things make it wrong for longer: an event was dropped      *)
(* between the announcement of the entry and the setting of the sinks      *)
(* (missed), and a clean-up thread of Direct3D 9 announced the end of a    *)
(* surface after its successor (crossed).                                  *)
(***************************************************************************)
Leaving(id) == \E a \in Agents : Of(a) = id /\ hook[a] = "gone"

ViewUnlessMissed ==
  phase = "serve" =>
    /\ crossed \subseteq Direct9
    /\ \A id \in Entries \ (missed \cup crossed) :
         hook[id] \in {"idle", "present"} =>
           (view[id] = table[id] \/ (table[id] = Absent /\ Leaving(id)))

(***************************************************************************)
(* An entry is not announced twice: when Added is about to be sent, the    *)
(* client does not know the entry, unless it missed its removal or a       *)
(* clean-up thread of Direct3D 9 has yet to announce it.                   *)
(***************************************************************************)
AddedOnce ==
  \A id \in Entries :
    (phase = "serve" /\ hook[id] = "adding") =>
      \/ view[id] = Absent
      \/ id \in missed
      \/ id \in Direct9 /\ Leaving(id)

(***************************************************************************)
(* What a client set (input flags, position, texture) does not outlive its *)
(* session, however it ended and whatever came and went meanwhile.         *)
(***************************************************************************)
SettingsReset == phase \in {"listen", "snapshot", "setup"} => settings = {}

(***************************************************************************)
(* A connected client is served, and the session of a client that went     *)
(* away is cleaned up and makes room for the next one.                     *)
(***************************************************************************)
SessionProgress ==
  /\ (phase = "snapshot") ~> (phase = "serve")
  /\ (phase = "clear") ~> (phase = "listen")
=============================================================================

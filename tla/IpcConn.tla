------------------------------ MODULE IpcConn ------------------------------
(***************************************************************************)
(* One IPC connection: IpcClientConn (src/crates/client/src/client.rs), the *)
(* pipe, and IpcServerConn (src/crates/dll/src/ipc/io.rs).  A request is   *)
(* written as a frame header and a body; its caller waits on a oneshot     *)
(* channel whose sender is kept, under the request's id, in a map that     *)
(* belongs to the task reading the pipe: when that task ends the map is    *)
(* dropped and with it the senders.  IpcClientConn has only a Weak to it,  *)
(* which it upgrades while it sends.                                       *)
(*                                                                         *)
(* The future of a request may be dropped where it awaits (CancelAt).      *)
(* Events share the way back with the responses and are left out.          *)
(***************************************************************************)
EXTENDS Integers, Sequences, FiniteSets

CONSTANTS
  MaxCalls,  \* bound on the requests of the connection
  CancelAt   \* stages at which a caller may drop a request

ASSUME ConnAssumption ==
  /\ MaxCalls \in Nat \ {0}
  /\ CancelAt \subseteq {"header", "body", "wait"}

Calls == 1 .. MaxCalls
Ids == 0 .. MaxCalls - 1
Nobody == 0

VARIABLES
  nextId,    \* IpcClientConn::next_id
  call,      \* the request in progress, or the last one
  stage,     \* where it is: writing its header or body, or waiting
  id,        \* its id
  result,    \* how each request returned
  answer,    \* the request whose response the oneshot of a request got
  map,       \* id -> the request whose sender the map holds
  reader,    \* the read task runs
  open,      \* IpcClientConn has not been dropped
  toServer,  \* what the client has written and the server not read
  server,    \* IpcServerConn expects a header or a body, or is gone
  expect,    \* the request whose header it read last
  log,       \* the requests it executed
  toClient   \* the responses on their way back

client == <<nextId, call, stage, id, result, open>>
vars == <<client, answer, map, reader, toServer, server, expect, log, toClient>>

Sending == stage \in {"header", "body"}

TypeOK ==
  /\ nextId \in 0 .. MaxCalls /\ call \in 0 .. MaxCalls /\ id \in 0 .. MaxCalls
  /\ stage \in {"idle", "header", "body", "wait"}
  /\ result \in [Calls -> {"none", "ok", "failed", "refused"}]
  /\ answer \in [Calls -> Calls \cup {Nobody}]
  /\ map \in [Ids -> Calls \cup {Nobody}]
  /\ reader \in BOOLEAN /\ open \in BOOLEAN
  /\ toServer \in Seq([part : {"header", "body"}, id : Ids, call : Calls])
  /\ server \in {"header", "body", "gone"}
  /\ expect \in Calls \cup {Nobody}
  /\ log \in Seq(Calls)
  /\ toClient \in Seq([id : Ids, call : Calls])
  /\ stage # "idle" => (call \in Calls /\ result[call] = "none")

NoSenders == [i \in Ids |-> Nobody]

Init ==
  /\ nextId = 0 /\ call = 0 /\ stage = "idle" /\ id = 0
  /\ result = [c \in Calls |-> "none"]
  /\ answer = [c \in Calls |-> Nobody]
  /\ map = NoSenders
  /\ reader = TRUE /\ open = TRUE
  /\ toServer = <<>>
  /\ server = "header"
  /\ expect = Nobody
  /\ log = <<>>
  /\ toClient = <<>>
-----------------------------------------------------------------------------
(* IpcClientConn                                                           *)

(* Mutant of Request: the id is that of the last request. *)
Request_SameId ==
  /\ stage = "idle" /\ open /\ call < MaxCalls
  /\ call' = call + 1
  /\ IF reader
       THEN /\ stage' = "header"
            /\ UNCHANGED <<id, nextId, result>>
       ELSE /\ result' = [result EXCEPT ![call + 1] = "refused"]
            /\ UNCHANGED <<stage, id, nextId>>
  /\ UNCHANGED <<open, answer, map, reader, toServer, server, expect, log, toClient>>

(* send: "connection closed" if the map is gone, else an id is taken. *)
Request ==
  /\ stage = "idle" /\ open /\ call < MaxCalls
  /\ call' = call + 1
  /\ IF reader
       THEN /\ stage' = "header" /\ id' = nextId /\ nextId' = nextId + 1
            /\ UNCHANGED result
       ELSE /\ result' = [result EXCEPT ![call + 1] = "refused"]
            /\ UNCHANGED <<stage, id, nextId>>
  /\ UNCHANGED <<open, answer, map, reader, toServer, server, expect, log, toClient>>

(* The request returns r. *)
Return(r) ==
  /\ stage' = "idle"
  /\ result' = [result EXCEPT ![call] = r]

(* The map once send has let go of it: it is dropped if the reader is gone. *)
LetGo(m) == IF reader THEN m ELSE NoSenders

Written(p) == Append(toServer, [part |-> p, id |-> id, call |-> call])

(* The sender is put into the map when the header has been written. *)
WriteHeader ==
  /\ stage = "header" /\ server # "gone"
  /\ toServer' = Written("header")
  /\ map' = [map EXCEPT ![id] = call]
  /\ stage' = "body"
  /\ UNCHANGED <<nextId, call, id, result, open, answer, reader, server, expect, log, toClient>>

WriteBody ==
  /\ stage = "body" /\ server # "gone"
  /\ toServer' = Written("body")
  /\ map' = LetGo(map)
  /\ stage' = "wait"
  /\ UNCHANGED <<nextId, call, id, result, open, answer, reader, server, expect, log, toClient>>

WriteFails ==
  /\ Sending /\ server = "gone"
  /\ Return("failed")
  /\ map' = LetGo(map)
  /\ UNCHANGED <<nextId, call, id, open, answer, reader, toServer, server, expect, log, toClient>>

Receive ==
  /\ stage = "wait" /\ answer[call] # Nobody
  /\ Return("ok")
  /\ UNCHANGED <<nextId, call, id, open, answer, map, reader, toServer, server, expect, log, toClient>>

(* The sender is gone and has sent nothing: "failed to receive response". *)
ReceiveFails ==
  /\ stage = "wait" /\ answer[call] = Nobody
  /\ call \notin {map[i] : i \in Ids}
  /\ Return("failed")
  /\ UNCHANGED <<nextId, call, id, open, answer, map, reader, toServer, server, expect, log, toClient>>

(* The caller drops the future of its request. *)
Cancel ==
  /\ stage \in CancelAt
  /\ Return("failed")
  /\ map' = LetGo(map)
  /\ UNCHANGED <<nextId, call, id, open, answer, reader, toServer, server, expect, log, toClient>>

(* IpcClientConn::drop aborts the read task. *)
DropConn ==
  /\ stage = "idle" /\ open
  /\ open' = FALSE
  /\ reader' = FALSE
  /\ map' = NoSenders
  /\ UNCHANGED <<nextId, call, stage, id, result, answer, toServer, server, expect, log, toClient>>
-----------------------------------------------------------------------------
(* The read task of the client.                                            *)

(* Mutant of ReadResponse: the sender is looked up, not removed. *)
ReadResponse_Keeps ==
  /\ reader /\ toClient # <<>>
  /\ LET waiting == map[Head(toClient).id] IN
       answer' = IF waiting = Nobody THEN answer
                 ELSE [answer EXCEPT ![waiting] = Head(toClient).call]
  /\ toClient' = Tail(toClient)
  /\ UNCHANGED <<client, map, reader, toServer, server, expect, log>>

ReadResponse ==
  /\ reader /\ toClient # <<>>
  /\ LET waiting == map[Head(toClient).id] IN
       answer' = IF waiting = Nobody THEN answer
                 ELSE [answer EXCEPT ![waiting] = Head(toClient).call]
  /\ map' = [map EXCEPT ![Head(toClient).id] = Nobody]
  /\ toClient' = Tail(toClient)
  /\ UNCHANGED <<client, reader, toServer, server, expect, log>>

(* Mutant of ReaderEnds: the connection holds the map, too. *)
ReaderEnds_MapStays ==
  /\ reader /\ server = "gone" /\ toClient = <<>>
  /\ reader' = FALSE
  /\ UNCHANGED <<client, answer, map, toServer, server, expect, log, toClient>>

(* The pipe is at its end: the task returns and drops its Arc of the map. *)
ReaderEnds ==
  /\ reader /\ server = "gone" /\ toClient = <<>>
  /\ reader' = FALSE
  /\ map' = IF Sending THEN map ELSE NoSenders
  /\ UNCHANGED <<client, answer, toServer, server, expect, log, toClient>>
-----------------------------------------------------------------------------
(* The server.                                                             *)

ReadHeader ==
  /\ server = "header" /\ toServer # <<>>
  /\ server' = "body"
  /\ expect' = Head(toServer).call
  /\ toServer' = Tail(toServer)
  /\ UNCHANGED <<client, answer, map, reader, log, toClient>>

(* Mutant of ReadBody: a request is executed again before it is answered. *)
ReadBody_Twice ==
  /\ server = "body" /\ toServer # <<>>
  /\ Head(toServer).part = "body" /\ Head(toServer).call = expect
  /\ log' = Append(Append(log, expect), expect)
  /\ toClient' = Append(toClient, [id |-> Head(toServer).id, call |-> expect])
  /\ toServer' = Tail(toServer)
  /\ server' = "header"
  /\ UNCHANGED <<client, answer, map, reader, expect>>

(* The body is complete: the request is executed and answered. *)
ReadBody ==
  /\ server = "body" /\ toServer # <<>>
  /\ Head(toServer).part = "body" /\ Head(toServer).call = expect
  /\ log' = Append(log, expect)
  /\ toClient' = Append(toClient, [id |-> Head(toServer).id, call |-> expect])
  /\ toServer' = Tail(toServer)
  /\ server' = "header"
  /\ UNCHANGED <<client, answer, map, reader, expect>>

(* The bytes of another request are read as the rest of this body: they    *)
(* fill it and cannot be decoded, or are too few and more are waited for.  *)
ReadForeign ==
  /\ server = "body" /\ toServer # <<>>
  /\ Head(toServer).call # expect
  /\ server' \in {"body", "gone"}
  /\ toServer' = Tail(toServer)
  /\ UNCHANGED <<client, answer, map, reader, expect, log, toClient>>

(* The client is gone and the server has read what it left. *)
SessionEnds ==
  /\ ~open /\ toServer = <<>> /\ server # "gone"
  /\ server' = "gone"
  /\ UNCHANGED <<client, answer, map, reader, toServer, expect, log, toClient>>

(* The process of the server dies with some of its responses not written. *)
ServerDies ==
  /\ server # "gone"
  /\ server' = "gone"
  /\ \E n \in 0 .. Len(toClient) : toClient' = SubSeq(toClient, 1, n)
  /\ UNCHANGED <<client, answer, map, reader, toServer, expect, log>>
-----------------------------------------------------------------------------
Caller ==
  \/ Request \/ WriteHeader \/ WriteBody \/ WriteFails \/ Receive \/ ReceiveFails
  \/ Cancel \/ DropConn

ReadTask == ReadResponse \/ ReaderEnds

ServerTask == ReadHeader \/ ReadBody \/ ReadForeign \/ SessionEnds

Next == Caller \/ ReadTask \/ ServerTask \/ ServerDies

Spec == Init /\ [][Next]_vars

(***************************************************************************)
(* The tasks of both sides run on, and a caller polls the future of its    *)
(* request; nobody has to make a request, drop one, or die.                *)
(***************************************************************************)
FairSpec ==
  /\ Spec
  /\ WF_vars(WriteHeader) /\ WF_vars(WriteBody) /\ WF_vars(WriteFails)
  /\ WF_vars(Receive) /\ WF_vars(ReceiveFails)
  /\ WF_vars(ReadTask) /\ WF_vars(ServerTask)
-----------------------------------------------------------------------------
outcome ==
  [c \in Calls |-> IF c > call THEN "new" ELSE
                   IF result[c] = "none" THEN "open" ELSE result[c]]

Promise == INSTANCE Rpc WITH MaxCalls <- MaxCalls, outcome <- outcome, log <- log

(***************************************************************************)
(* The connection keeps the promise of Rpc: requests are executed once at  *)
(* most and in order, and only what was executed is answered.              *)
(***************************************************************************)
KeepsPromise == Promise!Spec

(***************************************************************************)
(* A caller gets the response to its own request, also after requests were *)
(* dropped whose responses are still on their way (ids are never reused).  *)
(***************************************************************************)
OwnResponse == \A c \in Calls : answer[c] \in {c, Nobody}

(***************************************************************************)
(* The map holds no sender for ever: when nothing is on its way between    *)
(* client and server, no request, returned or dropped, has left an entry.  *)
(***************************************************************************)
MapDrained ==
  (stage = "idle" /\ toServer = <<>> /\ server = "header" /\ toClient = <<>>) =>
    map = NoSenders

(***************************************************************************)
(* A request returns, with a response or with an error, also when the      *)
(* server goes away at any moment or requests before it were given up,     *)
(* unless the server waits for ever for the rest of a body: that of a      *)
(* request dropped inside its frame.                                       *)
(***************************************************************************)
ReturnsInStep ==
  \A c \in Calls :
    (stage # "idle" /\ call = c) ~> (result[c] # "none" \/ [](server = "body"))
=============================================================================

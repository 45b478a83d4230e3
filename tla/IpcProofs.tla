----------------------------- MODULE IpcProofs -----------------------------
(***************************************************************************)
(* Theorems about the two modules of the IPC: IpcConn, a connection and    *)
(* its requests, and ServerSession, what the client of a session is told.  *)
(***************************************************************************)
EXTENDS IpcConn, ServerSession, SequenceTheorems, TLAPS
-----------------------------------------------------------------------------
(***************************************************************************)
(* Theorems about IpcConn for any number of requests and wherever callers  *)
(* give up.  The invariant rests on the read task: a request is refused    *)
(* only once that task has ended, and then for ever, so as long as ids are *)
(* taken the n-th request takes the id n - 1, and whatever carries an id - *)
(* a frame, an entry of the map, a response - belongs to that request.     *)
(* The second part adds the order of what is on its way; from it follow    *)
(* that the map of senders drains and that the connection implements Rpc.  *)
(***************************************************************************)

Frames == {m \in [part : {"header", "body"}, id : Ids, call : Calls] : m.id = m.call - 1}
Responses == {m \in [id : Ids, call : Calls] : m.id = m.call - 1}

(* A caller in progress has the id of its request. *)
IdOfCall ==
  /\ reader => nextId = call
  /\ nextId =< call
  /\ stage # "idle" => id = call - 1
  /\ \A c \in Calls : c > call => result[c] = "none"

(* Ids lead back to their requests. *)
IdsMatch ==
  /\ toServer \in Seq(Frames)
  /\ toClient \in Seq(Responses)
  /\ \A i \in Ids : map[i] \in {i + 1, Nobody}

Inv == TypeOK /\ IdOfCall /\ IdsMatch /\ OwnResponse

USE ConnAssumption

LEMMA NoSendersFits == NoSenders \in [Ids -> Calls \cup {Nobody}]
  BY DEF NoSenders, Calls, Nobody

LEMMA InitInv == Init => Inv
  BY NoSendersFits DEF Init, Inv, TypeOK, IdOfCall, IdsMatch, OwnResponse, NoSenders,
                       Frames, Responses, Calls, Ids, Nobody

(* What is left of the responses when the server dies. *)
LEMMA PrefixIsSeq ==
  ASSUME NEW S, NEW s \in Seq(S), NEW n \in 0 .. Len(s)
  PROVE  SubSeq(s, 1, n) \in Seq(S)
<1>1. \A i \in 1 .. n : s[i] \in S
  OBVIOUS
<1>2. 1 \in Int /\ n \in Int
  OBVIOUS
<1> QED
  BY <1>1, <1>2, SubSeqProperties, Zenon

LEMMA SubSeqPrefix ==
  ASSUME NEW S, NEW s \in Seq(S), NEW n \in Nat, n =< Len(s)
  PROVE  /\ DOMAIN SubSeq(s, 1, n) = 1 .. n
         /\ \A i \in 1 .. n : SubSeq(s, 1, n)[i] = s[i]
<1>1. \A i \in 1 .. n : s[i] \in S
  BY LenProperties, ElementOfSeq
<1>2. 1 \in Int /\ n \in Int /\ (IF 1 =< n THEN n - 1 + 1 ELSE 0) = n
  OBVIOUS
<1>3. /\ SubSeq(s, 1, n) \in Seq(S) /\ Len(SubSeq(s, 1, n)) = n
      /\ \A i \in 1 .. n : SubSeq(s, 1, n)[i] = s[1 + i - 1]
  BY <1>1, <1>2, SubSeqProperties
<1> QED
  BY <1>3, LenProperties

(* The rest of a queue, place by place. *)
LEMMA TailShifts ==
  ASSUME NEW S, NEW s \in Seq(S), s # <<>>
  PROVE  /\ Head(s) \in S /\ Head(s) = s[1] /\ 1 \in DOMAIN s
         /\ \A i \in DOMAIN Tail(s) : /\ i \in Int /\ 1 < i + 1
                                      /\ i + 1 \in DOMAIN s /\ Tail(s)[i] = s[i + 1]
         /\ \A i \in DOMAIN s : i = 1 \/ (i - 1 \in DOMAIN Tail(s) /\ s[i] = Tail(s)[i - 1])
<1> DEFINE t == Tail(s)
<1>1. /\ DOMAIN s = 1 .. Len(s) /\ Len(s) \in Nat /\ Len(s) # 0
      /\ Head(s) = s[1] /\ Head(s) \in S /\ s[1] \in S
  BY LenProperties, EmptySeq, HeadTailProperties
<1>2. /\ t \in Seq(S) /\ Len(t) = Len(s) - 1
      /\ \A i \in 1 .. Len(t) : t[i] = s[i + 1]
  BY HeadTailProperties
<1>3. DOMAIN t = 1 .. Len(t)
  BY <1>2, LenProperties
<1> HIDE DEF t
<1>4. \A i \in DOMAIN t : i \in Int /\ 1 < i + 1 /\ i + 1 \in DOMAIN s /\ t[i] = s[i + 1]
  BY <1>1, <1>2, <1>3
<1>5. \A i \in DOMAIN s : i = 1 \/ (i - 1 \in DOMAIN t /\ s[i] = t[i - 1])
  <2> SUFFICES ASSUME NEW i \in DOMAIN s, i # 1 PROVE i - 1 \in DOMAIN t /\ s[i] = t[i - 1]
    OBVIOUS
  <2>1. i - 1 \in 1 .. Len(t) /\ (i - 1) + 1 = i
    BY <1>1, <1>2
  <2> QED
    BY <1>2, <1>3, <2>1
<1> QED
  BY <1>1, <1>4, <1>5 DEF t

(* The steps of the caller. *)
LEMMA CallerStep == Inv /\ Caller => Inv'
<1> SUFFICES ASSUME Inv, Caller PROVE Inv'
  OBVIOUS
<1> USE DEF Inv, TypeOK, IdOfCall, IdsMatch, OwnResponse, Calls, Ids, Nobody
<1>1. CASE Request
  <2>1. call + 1 \in Calls /\ call + 1 \in 0 .. MaxCalls
    BY <1>1 DEF Request
  <2>2. CASE reader
    BY <1>1, <2>1, <2>2 DEF Request
  <2>3. CASE ~reader
    <3>1. /\ result' = [result EXCEPT ![call + 1] = "refused"]
          /\ UNCHANGED <<stage, id, nextId, reader>> /\ call' = call + 1 /\ stage = "idle"
      BY <1>1, <2>3 DEF Request
    <3>2. IdOfCall'
      BY <2>1, <2>3, <3>1
    <3>3. TypeOK'
      BY <1>1, <2>1, <3>1 DEF Request
    <3> QED
      BY <1>1, <3>2, <3>3 DEF Request
  <2> QED
    BY <2>2, <2>3
<1>2. CASE WriteHeader
  BY <1>2 DEF WriteHeader, Written, Frames
<1>3. CASE WriteBody
  <2>1. [part |-> "body", id |-> id, call |-> call] \in Frames
    <3>1. call \in Calls /\ id = call - 1
      BY <1>3 DEF WriteBody
    <3> QED
      BY <3>1 DEF Frames
  <2>2. toServer' \in Seq(Frames)
    BY <1>3, <2>1 DEF WriteBody, Written
  <2>3. toServer' \in Seq([part : {"header", "body"}, id : Ids, call : Calls])
    BY <1>3, <2>1 DEF WriteBody, Written, Frames
  <2>4. /\ map' \in [Ids -> Calls \cup {Nobody}]
        /\ \A i \in Ids : map'[i] \in {i + 1, Nobody}
    BY <1>3, NoSendersFits DEF WriteBody, LetGo, NoSenders
  <2> QED
    BY <1>3, <2>2, <2>3, <2>4 DEF WriteBody
<1>4. CASE WriteFails
  <2>1. call \in Calls
    BY <1>4 DEF WriteFails, Sending
  <2> QED
    BY <1>4, <2>1, NoSendersFits DEF WriteFails, Return, LetGo, NoSenders
<1>5. CASE Receive
  BY <1>5 DEF Receive, Return
<1>8. CASE ReceiveFails
  BY <1>8 DEF ReceiveFails, Return
<1>6. CASE Cancel
  BY <1>6, NoSendersFits DEF Cancel, Return, LetGo, NoSenders
<1>7. CASE DropConn
  BY <1>7, NoSendersFits DEF DropConn, NoSenders
<1> QED
  BY <1>1, <1>2, <1>3, <1>4, <1>5, <1>6, <1>7, <1>8 DEF Caller

(* The steps of the read task: the response it takes is its entry's own. *)
LEMMA ReadTaskStep == Inv /\ ReadTask => Inv'
<1> SUFFICES ASSUME Inv, ReadTask PROVE Inv'
  OBVIOUS
<1> USE DEF Inv, TypeOK, IdOfCall, IdsMatch, OwnResponse, client
<1>1. CASE ReadResponse
  <2> DEFINE h == Head(toClient)
  <2>1. h \in Responses /\ Tail(toClient) \in Seq(Responses)
    BY <1>1 DEF ReadResponse
  <2>2. h.id \in Ids /\ h.call \in Calls /\ h.id + 1 = h.call
    BY <2>1 DEF Responses, Ids, Calls
  <2>3. map[h.id] \in {h.call, Nobody}
    BY <2>2
  <2>4. /\ answer' \in [Calls -> Calls \cup {Nobody}]
        /\ OwnResponse'
    BY <1>1, <2>2, <2>3 DEF ReadResponse
  <2>5. /\ map' \in [Ids -> Calls \cup {Nobody}]
        /\ \A i \in Ids : map'[i] \in {i + 1, Nobody}
    BY <1>1, <2>2 DEF ReadResponse
  <2>6. toClient' \in Seq([id : Ids, call : Calls])
    BY <1>1 DEF ReadResponse
  <2> QED
    BY <1>1, <2>1, <2>4, <2>5, <2>6 DEF ReadResponse
<1>2. CASE ReaderEnds
  BY <1>2, NoSendersFits DEF ReaderEnds, NoSenders
<1> QED
  BY <1>1, <1>2 DEF ReadTask

(* The steps of the server, and its death. *)
LEMMA ServerStep == Inv /\ (ServerTask \/ ServerDies) => Inv'
<1> SUFFICES ASSUME Inv, ServerTask \/ ServerDies PROVE Inv'
  OBVIOUS
<1> USE DEF Inv, TypeOK, IdOfCall, IdsMatch, OwnResponse, client
<1>1. CASE ReadHeader
  BY <1>1 DEF ReadHeader, Frames
<1>2. CASE ReadBody
  <2> DEFINE h == Head(toServer)
  <2>1. h \in Frames
    BY <1>2 DEF ReadBody
  <2>2. expect \in Calls /\ [id |-> h.id, call |-> expect] \in Responses
    BY <1>2, <2>1 DEF ReadBody, Frames, Responses
  <2>3. log' \in Seq(Calls) /\ toClient' \in Seq(Responses)
    BY <1>2, <2>2 DEF ReadBody
  <2>4. toClient' \in Seq([id : Ids, call : Calls])
    BY <1>2, <2>2 DEF ReadBody, Responses
  <2> QED
    BY <1>2, <2>3, <2>4 DEF ReadBody
<1>3. CASE ReadForeign
  BY <1>3 DEF ReadForeign
<1>4. CASE SessionEnds
  BY <1>4 DEF SessionEnds
<1>5. CASE ServerDies
  <2> PICK n \in 0 .. Len(toClient) : toClient' = SubSeq(toClient, 1, n)
    BY <1>5 DEF ServerDies
  <2>1. toClient' \in Seq(Responses)
    BY PrefixIsSeq
  <2>2. toClient' \in Seq([id : Ids, call : Calls])
    BY PrefixIsSeq
  <2> QED
    BY <1>5, <2>1, <2>2 DEF ServerDies
<1> QED
  BY <1>1, <1>2, <1>3, <1>4, <1>5 DEF ServerTask

LEMMA Inductive == Inv /\ [Next]_vars => Inv'
<1>1. Inv /\ UNCHANGED vars => Inv'
  BY DEF Inv, TypeOK, IdOfCall, IdsMatch, OwnResponse, vars, client
<1> QED
  BY <1>1, CallerStep, ReadTaskStep, ServerStep DEF Next

LEMMA Invariant == Spec => []Inv
  BY InitInv, Inductive, PTL DEF Spec

(***************************************************************************)
(* Every variable keeps its type for any number of requests; in particular *)
(* an id always fits the map.                                              *)
(***************************************************************************)
THEOREM ConnTypeCorrect == Spec => []TypeOK
<1>1. Inv => TypeOK
  BY DEF Inv
<1> QED
  BY <1>1, Invariant, PTL

(***************************************************************************)
(* For any number of requests and wherever callers give up, no caller gets *)
(* the response to another request.                                        *)
(***************************************************************************)
THEOREM CallersGetOwnResponse == Spec => []OwnResponse
<1>1. Inv => OwnResponse
  BY DEF Inv
<1> QED
  BY <1>1, Invariant, PTL
-----------------------------------------------------------------------------
(***************************************************************************)
(* What the connection promises, and that its map drains, rests on the     *)
(* order of things on their way: frames are in the order of their          *)
(* requests, what the server executed is behind what it reads, and that is *)
(* behind the caller.  A server that lost the step between headers and     *)
(* bodies executes nothing any more.                                       *)
(***************************************************************************)
InFrames(c) == \E i \in DOMAIN toServer : toServer[i].call = c
Answered(c) == \E i \in DOMAIN toClient : toClient[i].call = c
Executed == {log[i] : i \in DOMAIN log}

(* Frames come in the order of their requests, and a body is the last of   *)
(* its request.                                                            *)
FramesOrdered ==
  \A i, j \in DOMAIN toServer : i < j =>
    /\ toServer[i].call =< toServer[j].call
    /\ toServer[i].part = "body" => toServer[i].call < toServer[j].call

(* What the server has executed is behind what it reads or has yet to      *)
(* read.                                                                   *)
ServerBehind ==
  /\ server = "header" =>
       \A d \in Executed : \A i \in DOMAIN toServer : d < toServer[i].call
  /\ server = "body" =>
       /\ expect \in Calls
       /\ \A d \in Executed : d < expect
       /\ \A i \in DOMAIN toServer : expect =< toServer[i].call

(* The caller is ahead of the server by what it has yet to write.          *)
CallerAhead ==
  /\ expect =< call
  /\ stage = "header" => expect < call
  /\ \A d \in Executed : d =< call /\ (Sending => d < call)
  /\ \A i \in DOMAIN toServer :
       /\ toServer[i].call =< call
       /\ stage = "header" => toServer[i].call < call
       /\ stage = "body" /\ toServer[i].call = call => toServer[i].part = "header"

(* Requests return one after the other, and with a response only if they   *)
(* were executed; one that was refused was not even written.               *)
ResultsTrue ==
  /\ \A c \in Calls : c < call \/ (c = call /\ stage = "idle") => result[c] # "none"
  /\ \A c \in Calls : result[c] = "ok" \/ answer[c] # Nobody => c \in Executed
  /\ \A i \in DOMAIN toClient : toClient[i].call \in Executed
  /\ \A i \in DOMAIN toServer : result[toServer[i].call] # "refused"
  /\ server = "body" => result[expect] # "refused"

(* A request that has a sender in the map, or is about to wait for one, is *)
(* on its way as long as the server is in step: as a frame or a response.  *)
Waits(c) == map[c - 1] = c \/ (stage = "body" /\ call = c)
InStep == InFrames(expect) \/ (stage = "body" /\ call = expect)
SendersTracked ==
  \A c \in Calls : Waits(c) =>
    /\ server = "header" => InFrames(c) \/ Answered(c)
    /\ server = "body" /\ InStep => c = expect \/ InFrames(c) \/ Answered(c)

Order == FramesOrdered /\ ServerBehind /\ CallerAhead
Promises == Order /\ ResultsTrue /\ SendersTracked

LEMMA InitPromises == Init => Promises
  BY DEF Init, Promises, Order, FramesOrdered, ServerBehind, CallerAhead, ResultsTrue,
         SendersTracked, Waits, NoSenders, Executed, Sending, InFrames, Answered, Calls, Ids,
         Nobody

LEMMA FrameCalls ==
  Inv => \A i \in DOMAIN toServer : toServer[i].call \in Calls
<1> SUFFICES ASSUME Inv, NEW i \in DOMAIN toServer PROVE toServer[i].call \in Calls
  OBVIOUS
<1>1. toServer \in Seq(Frames)
  BY DEF Inv, IdsMatch
<1>2. toServer[i] \in Frames
  BY <1>1, LenProperties, ElementOfSeq
<1> QED
  BY <1>2 DEF Frames

(* A frame of the request in progress goes behind all there are.           *)
LEMMA WriteOrder ==
  ASSUME Inv, Order, NEW p \in {"header", "body"},
         stage = p, toServer' = Written(p),
         stage' = IF p = "header" THEN "body" ELSE "wait",
         UNCHANGED <<call, server, expect, log>>
  PROVE  /\ Order'
         /\ \A c \in Calls : InFrames(c)' <=> InFrames(c) \/ c = call
         /\ \A i \in DOMAIN toServer' : \/ i \in DOMAIN toServer /\ toServer'[i] = toServer[i]
                                        \/ toServer'[i].call = call
<1> DEFINE f == [part |-> p, id |-> id, call |-> call]
<1> USE DEF Inv, TypeOK, Order
<1>1. f \in [part : {"header", "body"}, id : Ids, call : Calls] /\ call \in Calls
  BY DEF IdOfCall, Calls, Ids
<1>2. /\ Len(toServer') = Len(toServer) + 1
      /\ DOMAIN toServer' = 1 .. Len(toServer) + 1 /\ DOMAIN toServer = 1 .. Len(toServer)
      /\ \A i \in 1 .. Len(toServer) : toServer'[i] = toServer[i]
      /\ toServer'[Len(toServer) + 1] = f
      /\ Len(toServer) \in Nat
  <2>1. toServer' = Append(toServer, f)
    BY DEF Written
  <2> HIDE DEF f
  <2> QED
    BY <1>1, <2>1, AppendProperties, LenProperties
<1>3. \A i \in DOMAIN toServer : toServer[i].call \in Calls
  BY FrameCalls DEF Inv
<1>b. \A i \in DOMAIN toServer' : i \in DOMAIN toServer \/ i = Len(toServer) + 1
  BY <1>2
<1>c. \A i \in DOMAIN toServer : i \in Nat /\ i < Len(toServer) + 1 /\ i # Len(toServer) + 1
                                 /\ toServer'[i] = toServer[i]
  BY <1>2
<1>4. /\ f.call = call /\ f.part = p
      /\ \A i \in DOMAIN toServer : toServer[i].call =< call
      /\ p = "header" => \A i \in DOMAIN toServer : toServer[i].call < call
      /\ p = "body" => \A i \in DOMAIN toServer :
                         toServer[i].part = "body" => toServer[i].call < call
      /\ \A d \in Executed : d < call
  <2>1. \A i \in DOMAIN toServer : p = "body" /\ toServer[i].call = call => toServer[i].part = "header"
    BY DEF CallerAhead
  <2> QED
    BY <1>1, <1>3, <2>1 DEF CallerAhead, Sending, Calls
<1> HIDE DEF f
<1>5. FramesOrdered'
  <2> SUFFICES ASSUME NEW i \in DOMAIN toServer', NEW j \in DOMAIN toServer', i < j
               PROVE  /\ toServer'[i].call =< toServer'[j].call
                      /\ toServer'[i].part = "body" => toServer'[i].call < toServer'[j].call
    BY DEF FramesOrdered
  <2>1. i \in DOMAIN toServer
    BY <1>b, <1>c
  <2>2. CASE j \in DOMAIN toServer
    BY <1>c, <2>1, <2>2 DEF FramesOrdered
  <2>3. CASE j = Len(toServer) + 1
    BY <1>2, <1>3, <1>4, <1>c, <2>1, <2>3
  <2> QED
    BY <1>b, <2>2, <2>3
<1>6. Executed' = Executed /\ server' = server /\ expect' = expect /\ call' = call
  BY DEF Executed
<1>7. ServerBehind'
  <2>1. server = "header" =>
          \A d \in Executed : \A i \in DOMAIN toServer' : d < toServer'[i].call
    BY <1>2, <1>4, <1>b, <1>c DEF ServerBehind
  <2>2. server = "body" => \A i \in DOMAIN toServer' : expect =< toServer'[i].call
    BY <1>2, <1>4, <1>b, <1>c DEF ServerBehind, CallerAhead
  <2>3. server = "body" => expect \in Calls /\ \A d \in Executed : d < expect
    BY DEF ServerBehind
  <2> QED
    BY <1>6, <2>1, <2>2, <2>3 DEF ServerBehind
<1>8. CallerAhead'
  <2>1. \A i \in DOMAIN toServer' :
          /\ toServer'[i].call =< call
          /\ stage' # "header"
          /\ stage' = "body" /\ toServer'[i].call = call => toServer'[i].part = "header"
    <3>1. TAKE i \in DOMAIN toServer'
    <3>2. CASE i \in DOMAIN toServer
      BY <1>1, <1>3, <1>4, <1>c, <3>2 DEF Calls
    <3>3. CASE i = Len(toServer) + 1
      BY <1>1, <1>2, <1>4, <3>3 DEF Calls
    <3> QED
      BY <1>b, <3>2, <3>3
  <2>2. \A d \in Executed : d =< call
    BY DEF CallerAhead
  <2>3. expect =< call
    BY DEF CallerAhead
  <2> QED
    BY <1>4, <1>6, <2>1, <2>2, <2>3 DEF CallerAhead, Sending
<1>9. \A c \in Calls : InFrames(c)' <=> InFrames(c) \/ c = call
  <2>1. \A c : InFrames(c) => InFrames(c)'
    BY <1>2, <1>c DEF InFrames
  <2>2. InFrames(call)'
    <3>1. Len(toServer) + 1 \in DOMAIN toServer' /\ toServer'[Len(toServer) + 1].call = call'
      BY <1>2, <1>4
    <3> QED
      BY <3>1 DEF InFrames
  <2>3. \A c : InFrames(c)' => InFrames(c) \/ c = call
    BY <1>2, <1>4, <1>b, <1>c DEF InFrames
  <2> QED
    BY <2>1, <2>2, <2>3
<1> QED
  BY <1>2, <1>b, <1>c, <1>4, <1>5, <1>7, <1>8, <1>9

(* The steps of the caller.                                                *)
LEMMA CallerPromises == Inv /\ Promises /\ Caller => Promises'
<1> SUFFICES ASSUME Inv, Promises, Caller PROVE Promises'
  OBVIOUS
<1> USE DEF Inv, TypeOK, Promises
<1>0. \A i \in DOMAIN toServer : toServer[i].call \in Calls
  BY FrameCalls DEF Inv
<1>a. ASSUME UNCHANGED <<toServer, toClient, log, server, expect, answer>>
      PROVE  /\ Executed' = Executed /\ FramesOrdered' /\ ServerBehind'
             /\ \A c : (InFrames(c)' <=> InFrames(c)) /\ (Answered(c)' <=> Answered(c))
  <2>1. Executed' = Executed
    BY <1>a DEF Executed
  <2>2. \A c : (InFrames(c)' <=> InFrames(c)) /\ (Answered(c)' <=> Answered(c))
    BY <1>a DEF InFrames, Answered
  <2>3. FramesOrdered'
    BY <1>a DEF Order, FramesOrdered
  <2>4. ServerBehind'
    BY <1>a, <2>1 DEF Order, ServerBehind
  <2> QED
    BY <2>1, <2>2, <2>3, <2>4
<1>1. CASE Request
  <2>1. /\ UNCHANGED <<toServer, toClient, log, server, expect, answer, map>>
        /\ stage = "idle" /\ call' = call + 1 /\ call + 1 \in Calls
        /\ stage' \in {"idle", "header"}
        /\ stage' = "header" => result' = result
        /\ stage' = "idle" => result' = [result EXCEPT ![call + 1] = "refused"]
    BY <1>1 DEF Request, Calls
  <2>2. CallerAhead'
    <3>1. \A d \in Executed : d =< call /\ d \in Calls
      BY DEF Order, CallerAhead, Executed
    <3>2. expect =< call /\ expect \in Int
      BY DEF Order, CallerAhead, Calls, Nobody
    <3>3. \A i \in DOMAIN toServer : toServer[i].call =< call
      BY DEF Order, CallerAhead
    <3>4. /\ expect < call'
          /\ \A d \in Executed : d < call'
          /\ \A i \in DOMAIN toServer : toServer[i].call < call'
      BY <1>0, <2>1, <3>1, <3>2, <3>3 DEF Calls
    <3> QED
      BY <1>0, <1>a, <2>1, <3>1, <3>2, <3>4 DEF CallerAhead, Calls
  <2>3. ResultsTrue'
    <3>1. \A c \in Calls : c =< call => result'[c] = result[c]
      BY <2>1 DEF Calls
    <3>2. \A i \in DOMAIN toServer : toServer[i].call =< call
      BY DEF Order, CallerAhead
    <3>3. server = "body" => expect \in Calls /\ expect =< call
      BY DEF Order, CallerAhead, ServerBehind
    <3>4. \A c \in Calls : c < call \/ (c = call /\ stage = "idle") => result[c] # "none"
      BY DEF ResultsTrue
    <3>5. \A c \in Calls : c < call' \/ (c = call' /\ stage' = "idle") => result'[c] # "none"
      BY <2>1, <3>1, <3>4 DEF Calls
    <3>6. \A c \in Calls : result'[c] = "ok" \/ answer'[c] # Nobody => c \in Executed
      BY <2>1 DEF ResultsTrue
    <3> QED
      BY <2>1, <1>0, <1>a, <3>1, <3>2, <3>3, <3>5, <3>6 DEF ResultsTrue
  <2>4. SendersTracked'
    BY <2>1, <1>a DEF SendersTracked, Waits, InStep
  <2> QED
    BY <1>a, <2>1, <2>2, <2>3, <2>4 DEF Order
<1>2. CASE WriteHeader
  <2>1. /\ Order' /\ \A c \in Calls : InFrames(c)' <=> InFrames(c) \/ c = call
        /\ \A i \in DOMAIN toServer' : \/ i \in DOMAIN toServer /\ toServer'[i] = toServer[i]
                                       \/ toServer'[i].call = call
    BY <1>2, WriteOrder DEF WriteHeader
  <2>2. /\ UNCHANGED <<call, id, result, answer, toClient, log, server, expect>>
        /\ stage = "header" /\ stage' = "body" /\ id = call - 1 /\ call \in Calls
        /\ result[call] = "none" /\ map' = [map EXCEPT ![id] = call]
    BY <1>2 DEF WriteHeader, IdOfCall
  <2>3. Executed' = Executed /\ \A c : Answered(c)' <=> Answered(c)
    BY <2>2 DEF Executed, Answered
  <2>4. ResultsTrue'
    BY <2>1, <2>2, <2>3 DEF ResultsTrue, Calls
  <2>5. \A c \in Calls : Waits(c)' => Waits(c) \/ c = call
    BY <2>2 DEF Waits, Ids, Calls
  <2>6. server = "body" => expect \in Calls /\ expect < call
    BY <2>2 DEF Order, ServerBehind, CallerAhead
  <2>7. server = "body" /\ InStep' => InStep
    BY <2>1, <2>2, <2>6 DEF InStep, Calls
  <2> QED
    BY <2>1, <2>2, <2>3, <2>4, <2>5, <2>7 DEF SendersTracked
<1>3. CASE WriteBody
  <2>1. /\ Order' /\ \A c \in Calls : InFrames(c)' <=> InFrames(c) \/ c = call
        /\ \A i \in DOMAIN toServer' : \/ i \in DOMAIN toServer /\ toServer'[i] = toServer[i]
                                       \/ toServer'[i].call = call
    BY <1>3, WriteOrder DEF WriteBody
  <2>2. /\ UNCHANGED <<call, id, result, answer, toClient, log, server, expect>>
        /\ stage = "body" /\ stage' = "wait" /\ call \in Calls
        /\ result[call] = "none" /\ map' \in {map, NoSenders}
    BY <1>3 DEF WriteBody, LetGo
  <2>3. Executed' = Executed /\ \A c : Answered(c)' <=> Answered(c)
    BY <2>2 DEF Executed, Answered
  <2>4. ResultsTrue'
    BY <2>1, <2>2, <2>3 DEF ResultsTrue, Calls
  <2>5. \A c \in Calls : Waits(c)' => Waits(c)
    BY <2>2 DEF Waits, NoSenders, Calls, Ids, Nobody
  <2>6. server = "body" => expect \in Calls
    BY DEF Order, ServerBehind
  <2>7. server = "body" /\ InStep' => InStep
    BY <2>1, <2>2, <2>6 DEF InStep
  <2> QED
    BY <2>1, <2>2, <2>3, <2>4, <2>5, <2>7 DEF SendersTracked
<1>4. ASSUME NEW r \in {"ok", "failed"}, Return(r), stage # "idle",
             r = "ok" => answer[call] # Nobody,
             UNCHANGED <<call, answer, toServer, toClient, log, server, expect>>,
             map' \in {map, NoSenders}
      PROVE  Promises'
  <2>1. stage' = "idle" /\ result' = [result EXCEPT ![call] = r] /\ call \in Calls
    BY <1>4 DEF Return
  <2>2. CallerAhead'
    BY <1>4, <1>a, <2>1 DEF Order, CallerAhead, Sending
  <2>3. ResultsTrue'
    BY <1>4, <1>0, <1>a, <2>1 DEF ResultsTrue, Calls, Order, ServerBehind
  <2>4. \A c \in Calls : Waits(c)' => Waits(c)
    BY <1>4, <2>1 DEF Waits, NoSenders, Calls, Ids, Nobody
  <2>5. InStep' => InStep
    BY <1>4, <1>a, <2>1 DEF InStep
  <2> QED
    BY <1>4, <1>a, <2>2, <2>3, <2>4, <2>5 DEF Order, SendersTracked
<1>5. CASE WriteFails \/ ReceiveFails \/ Cancel
  BY <1>4, <1>5 DEF WriteFails, ReceiveFails, Cancel, LetGo, Sending, ConnAssumption
<1>6. CASE Receive
  BY <1>4, <1>6 DEF Receive
<1>7. CASE DropConn
  <2>1. /\ UNCHANGED <<call, stage, result, answer, toServer, toClient, log, server, expect>>
        /\ map' = NoSenders
    BY <1>7 DEF DropConn
  <2>2. CallerAhead' /\ ResultsTrue'
    BY <1>a, <2>1 DEF Order, CallerAhead, ResultsTrue, Sending
  <2>3. \A c \in Calls : Waits(c)' => Waits(c)
    BY <2>1 DEF Waits, NoSenders, Calls, Ids, Nobody
  <2>4. InStep' => InStep
    BY <1>a, <2>1 DEF InStep
  <2> QED
    BY <1>a, <2>1, <2>2, <2>3, <2>4 DEF Order, SendersTracked
<1> QED
  BY <1>1, <1>2, <1>3, <1>5, <1>6, <1>7 DEF Caller

(* The steps of the read task: it takes a response from toClient together  *)
(* with the sender that waits for it.                                      *)
LEMMA ReadTaskPromises == Inv /\ Promises /\ ReadTask => Promises'
<1> SUFFICES ASSUME Inv, Promises, ReadTask PROVE Promises'
  OBVIOUS
<1> USE DEF Inv, TypeOK, Promises
<1>1. /\ UNCHANGED <<toServer, server, expect, log, call, stage, result>>
      /\ UNCHANGED <<answer, toClient>> \/ ReadResponse
  BY DEF ReadTask, ReadResponse, ReaderEnds, client
<1>2. Order' /\ Executed' = Executed /\ \A c : InFrames(c)' <=> InFrames(c)
  <2>1. Executed' = Executed
    BY <1>1 DEF Executed
  <2>2. FramesOrdered' /\ ServerBehind'
    BY <1>1, <2>1 DEF Order, FramesOrdered, ServerBehind
  <2>3. CallerAhead'
    BY <1>1, <2>1 DEF Order, CallerAhead, Sending
  <2>4. \A c : InFrames(c)' <=> InFrames(c)
    BY <1>1 DEF InFrames
  <2> QED
    BY <2>1, <2>2, <2>3, <2>4 DEF Order
<1>3. InStep' => InStep
  BY <1>1, <1>2 DEF InStep
<1>4. CASE ReadResponse
  <2> DEFINE h == Head(toClient)
  <2>1. /\ toClient # <<>> /\ toClient' = Tail(toClient)
        /\ answer' = IF map[h.id] = Nobody THEN answer ELSE [answer EXCEPT ![map[h.id]] = h.call]
        /\ map' = [map EXCEPT ![h.id] = Nobody]
    BY <1>4 DEF ReadResponse
  <2>2. toClient \in Seq(Responses) /\ h \in Responses
    BY <2>1 DEF IdsMatch
  <2>3. h.id \in Ids /\ h.call \in Calls /\ h.id = h.call - 1
    BY <2>2 DEF Responses
  <2>4. /\ h = toClient[1] /\ 1 \in DOMAIN toClient
        /\ \A i \in DOMAIN toClient' : i + 1 \in DOMAIN toClient /\ toClient'[i] = toClient[i + 1]
        /\ \A i \in DOMAIN toClient : i = 1 \/ (i - 1 \in DOMAIN toClient'
                                                /\ toClient[i] = toClient'[i - 1])
    BY <2>1, <2>2, TailShifts
  <2>5. h.call \in Executed
    BY <2>4 DEF ResultsTrue
  <2>6. \A c \in Calls : answer'[c] # Nobody => answer[c] # Nobody \/ c = h.call
    <3>1. map[h.id] \in {h.call, Nobody}
      <4>1. map[h.id] \in {h.id + 1, Nobody} /\ h.id + 1 = h.call
        BY <2>3 DEF IdsMatch, Calls, Ids
      <4> QED
        BY <4>1
    <3>2. CASE map[h.id] = Nobody
      BY <2>1, <3>2
    <3>3. CASE map[h.id] # Nobody
      BY <2>1, <2>3, <3>1, <3>3
    <3> QED
      BY <3>2, <3>3
  <2>7. ResultsTrue'
    <3>1. \A i \in DOMAIN toClient' : toClient'[i].call \in Executed
      BY <2>4 DEF ResultsTrue
    <3>2. \A c \in Calls : result[c] = "ok" \/ answer'[c] # Nobody => c \in Executed
      BY <2>5, <2>6 DEF ResultsTrue
    <3> QED
      BY <1>1, <1>2, <3>1, <3>2 DEF ResultsTrue
  <2>8. \A c \in Calls : Waits(c)' => Waits(c)
    BY <1>1, <2>1, <2>3 DEF Waits, Ids, Calls, Nobody
  <2>9. \A c \in Calls : Answered(c) /\ c # h.call => Answered(c)'
    BY <2>4 DEF Answered
  <2>10. \A c \in Calls : Waits(c)' /\ c = h.call => stage = "body" /\ call = c
    <3>1. map'[h.call - 1] = Nobody /\ h.call # Nobody
      BY <2>1, <2>3 DEF Calls, Nobody
    <3> QED
      BY <1>1, <3>1 DEF Waits
  <2>11. ~(stage = "body" /\ call = h.call)
    BY <2>3, <2>5 DEF Order, CallerAhead, Sending, Calls
  <2> QED
    BY <1>1, <1>2, <1>3, <2>7, <2>8, <2>9, <2>10, <2>11 DEF SendersTracked
<1>5. CASE ReaderEnds
  <2>1. UNCHANGED <<answer, toClient>> /\ map' \in {map, NoSenders}
    BY <1>5 DEF ReaderEnds
  <2>2. ResultsTrue'
    BY <1>1, <1>2, <2>1 DEF ResultsTrue
  <2>3. \A c \in Calls : Waits(c)' => Waits(c)
    BY <1>1, <2>1 DEF Waits, NoSenders, Calls, Ids, Nobody
  <2>4. \A c : Answered(c)' <=> Answered(c)
    BY <2>1 DEF Answered
  <2> QED
    BY <1>1, <1>2, <1>3, <2>2, <2>3, <2>4 DEF SendersTracked
<1> QED
  BY <1>4, <1>5 DEF ReadTask

(* The server takes a frame.                                               *)
LEMMA TakeFrame ==
  ASSUME Inv, Order, toServer # <<>>, toServer' = Tail(toServer)
  PROVE  /\ Head(toServer) = toServer[1] /\ 1 \in DOMAIN toServer
         /\ Head(toServer).call \in Calls
         /\ \A i \in DOMAIN toServer' : i + 1 \in DOMAIN toServer /\ toServer'[i] = toServer[i + 1]
         /\ FramesOrdered'
         /\ \A i \in DOMAIN toServer' :
              /\ Head(toServer).call =< toServer'[i].call
              /\ Head(toServer).part = "body" => Head(toServer).call < toServer'[i].call
         /\ \A c : InFrames(c) => c = Head(toServer).call \/ InFrames(c)'
         /\ \A c : InFrames(c)' => InFrames(c)
<1> USE DEF Inv, TypeOK, Order
<1>1. /\ Head(toServer) = toServer[1] /\ 1 \in DOMAIN toServer
      /\ \A i \in DOMAIN toServer' : i + 1 \in DOMAIN toServer /\ toServer'[i] = toServer[i + 1]
                                     /\ i \in Int /\ 1 < i + 1
      /\ \A i \in DOMAIN toServer : i = 1 \/ (i - 1 \in DOMAIN toServer'
                                              /\ toServer[i] = toServer'[i - 1])
  BY TailShifts
<1>2. Head(toServer).call \in Calls
  BY <1>1, FrameCalls
<1>3. FramesOrdered'
  <2> SUFFICES ASSUME NEW i \in DOMAIN toServer', NEW j \in DOMAIN toServer', i < j
               PROVE  /\ toServer'[i].call =< toServer'[j].call
                      /\ toServer'[i].part = "body" => toServer'[i].call < toServer'[j].call
    BY DEF FramesOrdered
  <2>1. /\ i + 1 \in DOMAIN toServer /\ j + 1 \in DOMAIN toServer /\ i + 1 < j + 1
        /\ toServer'[i] = toServer[i + 1] /\ toServer'[j] = toServer[j + 1]
    BY <1>1
  <2> QED
    BY <2>1 DEF FramesOrdered
<1>4. \A i \in DOMAIN toServer' :
        /\ Head(toServer).call =< toServer'[i].call
        /\ Head(toServer).part = "body" => Head(toServer).call < toServer'[i].call
  BY <1>1 DEF FramesOrdered
<1>5. \A c : InFrames(c) => c = Head(toServer).call \/ InFrames(c)'
  <2> SUFFICES ASSUME NEW c, NEW i \in DOMAIN toServer, toServer[i].call = c
               PROVE  c = Head(toServer).call \/ InFrames(c)'
    BY DEF InFrames
  <2>1. i = 1 \/ (i - 1 \in DOMAIN toServer' /\ toServer[i] = toServer'[i - 1])
    BY <1>1
  <2> QED
    BY <1>1, <2>1 DEF InFrames
<1>6. \A c : InFrames(c)' => InFrames(c)
  BY <1>1 DEF InFrames
<1> QED
  BY <1>1, <1>2, <1>3, <1>4, <1>5, <1>6

(* The steps of the server, and its death.                                 *)
LEMMA ServerPromises == Inv /\ Promises /\ (ServerTask \/ ServerDies) => Promises'
<1> SUFFICES ASSUME Inv, Promises, ServerTask \/ ServerDies PROVE Promises'
  OBVIOUS
<1> USE DEF Inv, TypeOK, Promises
<1> DEFINE h == Head(toServer)
<1>0. \A i \in DOMAIN toServer : toServer[i].call \in Calls
  BY FrameCalls DEF Inv
<1>1. UNCHANGED <<call, stage, result, answer, map>>
  BY DEF ServerTask, ServerDies, ReadHeader, ReadBody, ReadForeign, SessionEnds, client
<1>2. \A c \in Calls : Waits(c)' <=> Waits(c)
  BY <1>1 DEF Waits
<1>3. ASSUME UNCHANGED <<log, toClient>>
      PROVE  Executed' = Executed /\ \A c : Answered(c)' <=> Answered(c)
  BY <1>3 DEF Executed, Answered
<1>4. \A d \in Executed : d \in Calls
  BY LenProperties, ElementOfSeq DEF Executed
<1>5. ASSUME toServer # <<>>, toServer' = Tail(toServer), UNCHANGED <<log, toClient>>,
             expect' \in Calls \/ expect' = expect, expect' =< call,
             stage = "header" => expect' < call
      PROVE  CallerAhead'
  <2>1. Executed' = Executed /\ stage' = stage /\ call' = call
    BY <1>1, <1>3, <1>5
  <2>2. \A i \in DOMAIN toServer' :
          /\ toServer'[i].call =< call
          /\ stage = "header" => toServer'[i].call < call
          /\ stage = "body" /\ toServer'[i].call = call => toServer'[i].part = "header"
    BY <1>5, TakeFrame DEF Order, CallerAhead
  <2>3. \A d \in Executed : d =< call /\ (Sending => d < call)
    BY DEF Order, CallerAhead
  <2> QED
    BY <1>5, <2>1, <2>2, <2>3 DEF CallerAhead, Sending
<1>6. CASE ReadHeader
  <2>1. /\ toServer # <<>> /\ toServer' = Tail(toServer) /\ UNCHANGED <<log, toClient>>
        /\ server = "header" /\ server' = "body" /\ expect' = h.call
    BY <1>6 DEF ReadHeader
  <2>2. /\ h.call \in Calls /\ h.call =< call /\ (stage = "header" => h.call < call)
        /\ result[h.call] # "refused" /\ \A d \in Executed : d < h.call
    BY <2>1, TakeFrame DEF Order, CallerAhead, ResultsTrue, ServerBehind
  <2>3. CallerAhead'
    <3>1. expect' \in Calls /\ expect' =< call /\ (stage = "header" => expect' < call)
      BY <2>1, <2>2
    <3> QED
      BY <1>5, <2>1, <3>1
  <2>4. ServerBehind'
    BY <1>3, <2>1, <2>2, TakeFrame DEF ServerBehind
  <2>5. ResultsTrue'
    BY <1>1, <1>3, <2>1, <2>2, TakeFrame DEF ResultsTrue
  <2>6. SendersTracked'
    <3>1. \A c \in Calls : InFrames(c) => c = expect' \/ InFrames(c)'
      BY <2>1, TakeFrame
    <3> QED
      BY <1>2, <1>3, <2>1, <3>1 DEF SendersTracked
  <2> QED
    BY <2>1, <2>3, <2>4, <2>5, <2>6, TakeFrame DEF Order
<1>7. CASE ReadBody
  <2>1. /\ toServer # <<>> /\ toServer' = Tail(toServer) /\ expect' = expect
        /\ server = "body" /\ server' = "header" /\ h.part = "body" /\ h.call = expect
        /\ log' = Append(log, expect)
        /\ toClient' = Append(toClient, [id |-> h.id, call |-> expect])
    BY <1>7 DEF ReadBody
  <2>2. expect \in Calls /\ h \in Frames
    <3>1. expect \in Calls
      BY <2>1 DEF Order, ServerBehind
    <3>2. h \in Frames
      BY <2>1 DEF IdsMatch
    <3> QED
      BY <3>1, <3>2
  <2>3. Executed' = Executed \cup {expect}
    <3>1. /\ DOMAIN log' = 1 .. Len(log) + 1 /\ DOMAIN log = 1 .. Len(log) /\ Len(log) \in Nat
          /\ \A i \in 1 .. Len(log) : log'[i] = log[i]
          /\ log'[Len(log) + 1] = expect
      BY <2>1, <2>2, AppendProperties, LenProperties
    <3> QED
      BY <3>1 DEF Executed
  <2>4. /\ \A c : Answered(c)' <=> Answered(c) \/ c = expect
        /\ \A i \in DOMAIN toClient' : \/ toClient'[i].call = expect
                                       \/ i \in DOMAIN toClient /\ toClient'[i] = toClient[i]
    <3> DEFINE a == [id |-> h.id, call |-> expect]
    <3>1. a \in [id : Ids, call : Calls] /\ a.call = expect
      BY <2>2 DEF Frames
    <3> HIDE DEF a
    <3>2. toClient' = Append(toClient, a)
      BY <2>1 DEF a
    <3>3. /\ DOMAIN toClient' = 1 .. Len(toClient) + 1 /\ DOMAIN toClient = 1 .. Len(toClient)
          /\ Len(toClient) \in Nat
          /\ \A i \in 1 .. Len(toClient) : toClient'[i] = toClient[i]
          /\ toClient'[Len(toClient) + 1] = a
      BY <3>1, <3>2, AppendProperties, LenProperties
    <3>4. \A i \in DOMAIN toClient' : i \in DOMAIN toClient \/ i = Len(toClient) + 1
      BY <3>3
    <3>5. \A i \in DOMAIN toClient : i \in DOMAIN toClient' /\ toClient'[i] = toClient[i]
      BY <3>3
    <3>6. Len(toClient) + 1 \in DOMAIN toClient'
      BY <3>3
    <3> QED
      BY <3>1, <3>3, <3>4, <3>5, <3>6 DEF Answered
  <2>5. \A i \in DOMAIN toServer' : expect < toServer'[i].call
    BY <2>1, TakeFrame
  <2>6. ServerBehind'
    <3>1. \A d \in Executed : d < expect
      BY <2>1 DEF Order, ServerBehind
    <3>2. \A i \in DOMAIN toServer' : toServer'[i].call \in Calls
      BY <1>0, <2>1, TakeFrame
    <3>3. \A d \in Executed' : \A i \in DOMAIN toServer' : d < toServer'[i].call
      <4> SUFFICES ASSUME NEW d \in Executed', NEW i \in DOMAIN toServer'
                   PROVE  d < toServer'[i].call
        OBVIOUS
      <4>1. (d \in Calls /\ d < expect) \/ d = expect
        BY <1>4, <2>3, <3>1
      <4> QED
        BY <2>2, <2>5, <3>2, <4>1 DEF Calls
    <3> QED
      BY <2>1, <3>3 DEF ServerBehind
  <2>7. CallerAhead'
    <3>1. expect =< call /\ (stage = "header" => expect < call)
      BY DEF Order, CallerAhead
    <3>2. stage = "body" => expect # call
      BY <2>1, TakeFrame DEF Order, CallerAhead
    <3>3. \A d \in Executed' : d =< call /\ (Sending => d < call)
      BY <2>2, <2>3, <3>1, <3>2 DEF Order, CallerAhead, Sending, Calls
    <3>4. \A i \in DOMAIN toServer' :
            /\ toServer'[i].call =< call
            /\ stage = "header" => toServer'[i].call < call
            /\ stage = "body" /\ toServer'[i].call = call => toServer'[i].part = "header"
      BY <2>1, TakeFrame DEF Order, CallerAhead
    <3> QED
      BY <1>1, <2>1, <3>1, <3>3, <3>4 DEF CallerAhead, Sending
  <2>8. ResultsTrue'
    <3>1. \A i \in DOMAIN toServer' : result[toServer'[i].call] # "refused"
      BY <2>1, TakeFrame DEF ResultsTrue
    <3>2. \A i \in DOMAIN toClient' : toClient'[i].call \in Executed'
      BY <2>3, <2>4 DEF ResultsTrue
    <3>3. \A c \in Calls : c < call \/ (c = call /\ stage = "idle") => result[c] # "none"
      BY DEF ResultsTrue
    <3>4. \A c \in Calls : result[c] = "ok" \/ answer[c] # Nobody => c \in Executed'
      BY <2>3 DEF ResultsTrue
    <3> QED
      BY <1>1, <2>1, <3>1, <3>2, <3>3, <3>4 DEF ResultsTrue
  <2>9. SendersTracked'
    <3>1. InFrames(expect)
      BY <2>1, TakeFrame DEF InFrames
    <3>2. \A c : InFrames(c) => c = expect \/ InFrames(c)'
      BY <2>1, TakeFrame
    <3> QED
      BY <1>2, <2>1, <2>4, <3>1, <3>2 DEF SendersTracked, InStep
  <2> QED
    BY <2>1, <2>6, <2>7, <2>8, <2>9, TakeFrame DEF Order
<1>8. CASE ReadForeign
  <2>1. /\ toServer # <<>> /\ toServer' = Tail(toServer) /\ UNCHANGED <<log, toClient, expect>>
        /\ server = "body" /\ server' \in {"body", "gone"} /\ h.call # expect
    BY <1>8 DEF ReadForeign
  <2>2. CallerAhead'
    <3>1. expect' = expect /\ expect' =< call /\ (stage = "header" => expect' < call)
      BY <2>1 DEF Order, CallerAhead
    <3> QED
      BY <1>5, <2>1, <3>1
  <2>3. ServerBehind'
    BY <1>3, <2>1, TakeFrame DEF Order, ServerBehind
  <2>4. ResultsTrue'
    BY <1>1, <1>3, <2>1, TakeFrame DEF ResultsTrue
  <2>5. ~InStep'
    <3>1. h.call \in Calls /\ expect \in Calls /\ expect =< h.call /\ h.call =< call
      BY <2>1, TakeFrame DEF Order, ServerBehind, CallerAhead
    <3>2. \A i \in DOMAIN toServer' : h.call =< toServer'[i].call /\ toServer'[i].call \in Calls
      BY <1>0, <2>1, TakeFrame
    <3>3. \A i \in DOMAIN toServer' : toServer'[i].call # expect
      <4>1. expect < h.call
        BY <2>1, <3>1 DEF Calls
      <4> QED
        BY <3>1, <3>2, <4>1 DEF Calls
    <3>4. call # expect
      BY <2>1, <3>1 DEF Calls
    <3> QED
      BY <1>1, <2>1, <3>3, <3>4 DEF InStep, InFrames
  <2>6. SendersTracked'
    BY <2>1, <2>5 DEF SendersTracked
  <2> QED
    BY <2>1, <2>2, <2>3, <2>4, <2>6, TakeFrame DEF Order
<1>9. CASE SessionEnds \/ ServerDies
  <2>1. /\ server' = "gone" /\ UNCHANGED <<toServer, log, expect>>
        /\ \A i \in DOMAIN toClient' : i \in DOMAIN toClient /\ toClient'[i] = toClient[i]
    <3>1. CASE SessionEnds
      BY <3>1 DEF SessionEnds
    <3>2. CASE ServerDies
      <4> PICK n \in 0 .. Len(toClient) : toClient' = SubSeq(toClient, 1, n)
        BY <3>2 DEF ServerDies
      <4>1. \A i \in DOMAIN toClient' : i \in DOMAIN toClient /\ toClient'[i] = toClient[i]
        <5>1. n \in Nat /\ n =< Len(toClient) /\ DOMAIN toClient = 1 .. Len(toClient)
              /\ Len(toClient) \in Nat
          BY LenProperties
        <5>2. DOMAIN toClient' = 1 .. n /\ \A i \in 1 .. n : toClient'[i] = toClient[i]
          BY <5>1, SubSeqPrefix
        <5> QED
          BY <5>1, <5>2
      <4> QED
        BY <3>2, <4>1 DEF ServerDies
    <3> QED
      BY <1>9, <3>1, <3>2
  <2>2. Executed' = Executed
    BY <2>1 DEF Executed
  <2>3. Order'
    <3>1. FramesOrdered' /\ ServerBehind'
      BY <2>1, <2>2 DEF Order, FramesOrdered, ServerBehind
    <3>2. CallerAhead'
      BY <1>1, <2>1, <2>2 DEF Order, CallerAhead, Sending
    <3> QED
      BY <3>1, <3>2 DEF Order
  <2>4. ResultsTrue'
    BY <1>1, <2>1, <2>2 DEF ResultsTrue
  <2>5. SendersTracked'
    BY <2>1 DEF SendersTracked
  <2> QED
    BY <2>3, <2>4, <2>5
<1> QED
  BY <1>6, <1>7, <1>8, <1>9 DEF ServerTask

LEMMA PromisesInductive == Inv /\ Promises /\ [Next]_vars => Promises'
<1>1. Inv /\ Promises /\ UNCHANGED vars => Promises'
  <2> SUFFICES ASSUME Inv, Promises, UNCHANGED vars PROVE Promises'
    OBVIOUS
  <2> USE DEF vars, client
  <2>1. Executed' = Executed /\ \A c : (InFrames(c)' <=> InFrames(c)) /\ (Answered(c)' <=> Answered(c))
    BY DEF Executed, InFrames, Answered
  <2>2. Order'
    BY <2>1 DEF Promises, Order, FramesOrdered, ServerBehind, CallerAhead, Sending
  <2>3. ResultsTrue'
    BY <2>1 DEF Promises, ResultsTrue
  <2>4. SendersTracked'
    BY <2>1 DEF Promises, SendersTracked, Waits, InStep
  <2> QED
    BY <2>2, <2>3, <2>4 DEF Promises
<1> QED
  BY <1>1, CallerPromises, ReadTaskPromises, ServerPromises DEF Next

LEMMA PromisesInvariant == Spec => []Promises
  BY InitPromises, PromisesInductive, Invariant, PTL DEF Spec

(***************************************************************************)
(* For any number of requests, dropped wherever their callers give up: the *)
(* map of senders is empty whenever nothing is on its way.                 *)
(***************************************************************************)
THEOREM SendersReleased == Spec => []MapDrained
<1>1. Inv /\ Promises => MapDrained
  <2> SUFFICES ASSUME Inv, Promises, stage = "idle", toServer = <<>>, server = "header",
                      toClient = <<>>
               PROVE  map = NoSenders
    BY DEF MapDrained
  <2>1. \A c \in Calls : ~InFrames(c) /\ ~Answered(c)
    BY DEF InFrames, Answered
  <2>2. \A c \in Calls : ~Waits(c)
    BY <2>1 DEF Promises, SendersTracked
  <2>3. \A i \in Ids : map[i] \in {i + 1, Nobody} /\ i + 1 \in Calls /\ (i + 1) - 1 = i
    BY DEF Inv, IdsMatch, Ids, Calls
  <2>4. \A i \in Ids : map[i] = Nobody
    BY <2>2, <2>3 DEF Waits
  <2> QED
    BY <2>4 DEF Inv, TypeOK, NoSenders
<1> QED
  BY <1>1, Invariant, PromisesInvariant, PTL

(* A step of the connection is one of Rpc or changes nothing Rpc knows.    *)
LEMMA OneOutcome ==
  ASSUME NEW d \in Calls, NEW r, outcome'[d] = r,
         \A c \in Calls \ {d} : outcome'[c] = outcome[c]
  PROVE  outcome' = [outcome EXCEPT ![d] = r]
<1>1. outcome = [c \in Calls |-> outcome[c]] /\ outcome' = [c \in Calls |-> outcome'[c]]
  BY DEF outcome
<1> HIDE DEF outcome
<1> QED
  BY <1>1

LEMMA StepKeepsPromise ==
  Inv /\ Promises /\ [Next]_vars => [Promise!Next]_<<outcome, log>>
<1> SUFFICES ASSUME Inv, Promises, [Next]_vars PROVE [Promise!Next]_<<outcome, log>>
  OBVIOUS
<1> USE DEF Inv, TypeOK
<1>0. call \in Nat /\ Calls = Promise!Calls /\ \A c \in Calls : c \in Nat
  BY DEF Calls, Promise!Calls
<1>1. ASSUME call' = call, result' = result PROVE outcome' = outcome
  BY <1>1 DEF outcome
<1>2. ASSUME UNCHANGED <<call, result, log>> PROVE UNCHANGED <<outcome, log>>
  BY <1>1, <1>2
<1>3. CASE Request
  <2>1. /\ stage = "idle" /\ call' = call + 1 /\ call + 1 \in Calls /\ log' = log
        /\ result' \in {result, [result EXCEPT ![call + 1] = "refused"]}
    BY <1>0, <1>3 DEF Request, Calls
  <2>2. result[call + 1] = "none"
    BY <1>0, <2>1 DEF IdOfCall
  <2>3. outcome[call + 1] = "new"
    BY <1>0, <2>1 DEF outcome
  <2>4. \A c \in Calls : c =< call => outcome[c] = result[c] /\ result[c] # "none"
    BY <1>0, <2>1 DEF outcome, Promises, ResultsTrue
  <2>5. \A d \in 1 .. (call + 1) - 1 : Promise!Returned(d)
    <3> SUFFICES ASSUME NEW d \in 1 .. (call + 1) - 1 PROVE Promise!Returned(d)
      OBVIOUS
    <3>1. d \in Calls /\ d =< call
      BY <1>0, <2>1 DEF Calls
    <3> QED
      BY <2>4, <3>1 DEF Promise!Returned
  <2>6. \E o \in {"open", "refused"} : outcome' = [outcome EXCEPT ![call + 1] = o]
    <3>1. CASE result' = result
      <4>1. outcome' = [outcome EXCEPT ![call + 1] = "open"]
        <5>1. outcome'[call + 1] = "open"
          BY <1>0, <2>1, <2>2, <3>1 DEF outcome
        <5>2. \A c \in Calls \ {call + 1} : outcome'[c] = outcome[c]
          BY <1>0, <2>1, <3>1 DEF outcome
        <5> QED
          BY <2>1, <5>1, <5>2, OneOutcome
      <4> QED
        BY <4>1
    <3>2. CASE result' = [result EXCEPT ![call + 1] = "refused"]
      <4>1. outcome' = [outcome EXCEPT ![call + 1] = "refused"]
        <5>1. outcome'[call + 1] = "refused"
          BY <1>0, <2>1, <3>2 DEF outcome
        <5>2. \A c \in Calls \ {call + 1} : outcome'[c] = outcome[c]
          BY <1>0, <2>1, <3>2 DEF outcome
        <5> QED
          BY <2>1, <5>1, <5>2, OneOutcome
      <4> QED
        BY <4>1
    <3> QED
      BY <2>1, <3>1, <3>2
  <2>7. Promise!Issue(call + 1)
    BY <2>1, <2>3, <2>5, <2>6 DEF Promise!Issue
  <2> QED
    BY <1>0, <2>1, <2>7 DEF Promise!Next
<1>4. ASSUME NEW r \in {"ok", "failed"}, Return(r), stage # "idle", UNCHANGED <<call, log>>
      PROVE  /\ call \in Calls /\ outcome[call] = "open" /\ log' = log
             /\ outcome' = [outcome EXCEPT ![call] = r]
  <2>1. call \in Calls /\ result[call] = "none" /\ result' = [result EXCEPT ![call] = r]
    BY <1>4 DEF Return
  <2>2. outcome[call] = "open"
    BY <1>0, <2>1 DEF outcome
  <2>3. outcome' = [outcome EXCEPT ![call] = r]
    <3>1. outcome'[call] = r
      BY <1>0, <1>4, <2>1 DEF outcome
    <3>2. \A c \in Calls \ {call} : outcome'[c] = outcome[c]
      BY <1>0, <1>4, <2>1 DEF outcome
    <3> QED
      BY <2>1, <3>1, <3>2, OneOutcome
  <2> QED
    BY <1>4, <2>1, <2>2, <2>3
<1>5. CASE WriteFails \/ ReceiveFails \/ Cancel
  <2>1. Return("failed") /\ stage # "idle" /\ UNCHANGED <<call, log>>
    BY <1>5, ConnAssumption DEF WriteFails, ReceiveFails, Cancel, Sending
  <2>2. Promise!Fail(call) /\ call \in Calls
    BY <1>4, <2>1 DEF Promise!Fail
  <2> QED
    BY <1>0, <2>2 DEF Promise!Next
<1>6. CASE Receive
  <2>1. Return("ok") /\ stage # "idle" /\ UNCHANGED <<call, log>> /\ answer[call] # Nobody
    BY <1>6 DEF Receive
  <2>2. call \in Executed
    BY <1>4, <2>1 DEF Promises, ResultsTrue
  <2>3. Promise!Answer(call) /\ call \in Calls
    BY <1>4, <2>1, <2>2 DEF Promise!Answer, Promise!ToSet, Executed
  <2> QED
    BY <1>0, <2>3 DEF Promise!Next
<1>7. CASE ReadBody
  <2>1. /\ log' = Append(log, expect) /\ UNCHANGED <<call, result>> /\ server = "body"
        /\ expect \in Calls /\ expect =< call
    BY <1>7 DEF ReadBody, client, Promises, Order, ServerBehind, CallerAhead
  <2>2. \A d \in Executed : d < expect
    BY <2>1 DEF Promises, Order, ServerBehind
  <2>3. expect \notin Executed
    BY <1>0, <2>1, <2>2
  <2>4. result[expect] \notin {"ok", "refused"}
    BY <2>1, <2>3 DEF Promises, ResultsTrue
  <2>5. outcome[expect] \notin {"new", "refused", "ok"}
    BY <1>0, <2>1, <2>4 DEF outcome
  <2>6. Promise!Execute(expect)
    BY <1>1, <2>1, <2>2, <2>5 DEF Promise!Execute, Promise!ToSet, Executed
  <2> QED
    BY <1>0, <2>1, <2>6 DEF Promise!Next
<1>8. CASE \/ WriteHeader \/ WriteBody \/ DropConn \/ ReadResponse \/ ReaderEnds
           \/ ReadHeader \/ ReadForeign \/ SessionEnds \/ ServerDies \/ UNCHANGED vars
  BY <1>2, <1>8 DEF WriteHeader, WriteBody, DropConn, ReadResponse, ReaderEnds, ReadHeader,
                    ReadForeign, SessionEnds, ServerDies, vars, client
<1> QED
  BY <1>3, <1>5, <1>6, <1>7, <1>8 DEF Next, Caller, ReadTask, ServerTask

(***************************************************************************)
(* For any number of requests, wherever their callers give up and whoever  *)
(* goes away: the connection implements Rpc.                               *)
(***************************************************************************)
THEOREM ConnectionKeepsPromise == Spec => KeepsPromise
<1>1. Init => Promise!Init
  BY DEF Init, Promise!Init, outcome, Calls, Promise!Calls
<1> QED
  BY <1>1, StepKeepsPromise, Invariant, PromisesInvariant, PTL
     DEF KeepsPromise, Promise!Spec, Spec
-----------------------------------------------------------------------------
(***************************************************************************)
(* Theorems about ServerSession, for any windows, surfaces, sizes and      *)
(* clean-up threads.  The invariant follows each entry from the snapshot   *)
(* to its events: an entry is yet to be announced, or known to be missed   *)
(* or crossed, or the client agrees with it, or the event that will make   *)
(* it agree is being emitted.                                              *)
(***************************************************************************)

(* Which sinks are set, and when an iteration is under way. *)
PhaseShape ==
  /\ sinkW <=> phase \in {"setup", "serve"}
  /\ sinkS <=> phase \in {"serve", "clear"}
  /\ phase \notin {"snapshot", "reset"} => ahead = {}

(* What the agents are doing agrees with the map; a clean-up thread only   *)
(* removes.                                                                *)
HookShape ==
  /\ \A e \in Entries :
       /\ hook[e] \in {"adding", "resized"} => table[e] # Absent
       /\ hook[e] \in {"present", "gone"} => table[e] = Absent
       /\ hook[e] = "gone" => e \notin Direct9
  /\ \A c \in Cleaners : hook[c] \in {"idle", "gone"}

InSession == phase \in {"snapshot", "setup", "serve"}

(* The client agrees with e, or is about to. *)
Synced(e) ==
  /\ hook[e] = "adding" => (view[e] = Absent \/ Leaving(e))
  /\ hook[e] = "resized" => view[e] # Absent
  /\ hook[e] \in {"idle", "present", "gone"} =>
       (view[e] = table[e] \/ (table[e] = Absent /\ Leaving(e)))

ViewTracked ==
  InSession => \A e \in Entries : e \in ahead \/ e \in missed \/ e \in crossed \/ Synced(e)

(* Only clean-up threads cross an Added, and then the client knows nothing *)
(* of the surface.                                                         *)
CrossedShape ==
  /\ crossed \subseteq Direct9
  /\ phase = "snapshot" => crossed = {}
  /\ InSession => \A e \in crossed : view[e] = Absent

SettingsTracked ==
  /\ SettingsReset
  /\ phase = "reset" => settings \subseteq ahead

SessionInv ==
  /\ SessionTypeOK /\ PhaseShape /\ HookShape
  /\ ViewTracked /\ CrossedShape /\ SettingsTracked

USE SessionAssumption

LEMMA OfEntries ==
  /\ \A e \in Entries : e \in Agents /\ Of(e) = e /\ e \notin Cleaners
  /\ \A c \in Cleaners : c \in Agents /\ Of(c) \in Direct9 /\ Of(c) \in Entries /\ c \notin Entries
  /\ \A a \in Agents : Of(a) \in Entries
<1>1. \A e \in Entries : e \notin Cleaners
  BY DEF Entries, Cleaners
<1>2. \A c \in Cleaners : c[1] \in Direct9
  BY DEF Cleaners
<1> QED
  BY <1>1, <1>2 DEF Agents, Of, Entries

LEMMA InitSessionInv == SessionInit => SessionInv
  BY OfEntries
     DEF SessionInit, SessionInv, SessionTypeOK, Known, Emitting, PhaseShape, Agents,
         HookShape, InSession, ViewTracked, CrossedShape, SettingsTracked, SettingsReset

(* Entries are followed one by one: a step that leaves e alone keeps what  *)
(* is known of it.                                                         *)
LEMMA OthersStaySynced ==
  ASSUME NEW e \in Entries, Synced(e),
         table'[e] = table[e], view'[e] = view[e],
         \A a \in Agents : Of(a) = e => hook'[a] = hook[a]
  PROVE  Synced(e)'
<1>1. hook'[e] = hook[e]
  BY OfEntries
<1>2. Leaving(e) <=> Leaving(e)'
  BY DEF Leaving
<1> QED
  BY <1>1, <1>2 DEF Synced

(* Destroyed is on its way for as long as no agent delivers or drops it. *)
LEMMA LeavingGrows ==
  ASSUME \A a \in Agents : hook[a] = "gone" => hook'[a] = "gone", NEW e, Leaving(e)
  PROVE  Leaving(e)'
  BY DEF Leaving

(* A step of the threads that adds no event to what is delivered: the      *)
(* sinks, the phase and what the client knows do not change.               *)
LEMMA SessionThreadStep ==
  ASSUME SessionInv,
         \/ \E e \in Surfaces : StartPresent(e)
         \/ \E e \in Entries, size \in Sizes : AddEntry(e, size) \/ ResizeEntry(e, size)
         \/ \E e \in Entries : RemoveEntry(e)
         \/ \E c \in Cleaners : CleanUp(c)
  PROVE  SessionInv'
<1> USE OfEntries DEF SessionInv, SessionTypeOK, HookShape, Emitting, Known
<1>1. CASE \E e \in Surfaces : StartPresent(e)
  <2> PICK e \in Surfaces : StartPresent(e)
    BY <1>1
  <2> e \in Entries
    BY DEF Entries
  <2>1. SessionTypeOK' /\ HookShape'
    BY DEF StartPresent
  <2>2. ViewTracked'
    <3> SUFFICES ASSUME InSession', NEW x \in Entries,
                        ~(x \in ahead \/ x \in missed \/ x \in crossed)'
                 PROVE  Synced(x)'
      BY DEF ViewTracked
    <3>1. Synced(x)
      BY DEF StartPresent, ViewTracked, InSession
    <3>2. CASE x = e
      <4>1. table[x] = Absent /\ hook[x] = "idle" /\ table' = table /\ view' = view
        BY <3>2 DEF StartPresent
      <4>2. hook'[x] = "present"
        BY <3>2 DEF StartPresent
      <4>3. Leaving(x) => Leaving(x)'
        BY LeavingGrows DEF StartPresent
      <4> QED
        BY <3>1, <4>1, <4>2, <4>3 DEF Synced
    <3>3. CASE x # e
      BY <3>1, <3>3, OthersStaySynced DEF StartPresent
    <3> QED
      BY <3>2, <3>3
  <2>3. PhaseShape' /\ CrossedShape' /\ SettingsTracked'
    BY DEF StartPresent, PhaseShape, CrossedShape, InSession, SettingsTracked, SettingsReset
  <2> QED
    BY <2>1, <2>2, <2>3
<1>2. CASE \E e \in Entries, size \in Sizes : AddEntry(e, size)
  <2> PICK e \in Entries, size \in Sizes : AddEntry(e, size)
    BY <1>2
  <2>1. SessionTypeOK' /\ HookShape'
    BY DEF AddEntry
  <2>2. ViewTracked'
    <3> SUFFICES ASSUME InSession', NEW x \in Entries,
                        ~(x \in ahead \/ x \in missed \/ x \in crossed)'
                 PROVE  Synced(x)'
      BY DEF ViewTracked
    <3>1. Synced(x)
      BY DEF AddEntry, ViewTracked, InSession
    <3>2. CASE x = e
      <4>1. table[x] = Absent /\ hook[x] \in {"idle", "present"} /\ view' = view
        BY <3>2 DEF AddEntry
      <4>2. hook'[x] = "adding"
        BY <3>2 DEF AddEntry
      <4>3. Leaving(x) => Leaving(x)'
        BY <3>2, <4>1, LeavingGrows DEF AddEntry
      <4> QED
        BY <3>1, <4>1, <4>2, <4>3 DEF Synced
    <3>3. CASE x # e
      BY <3>1, <3>3, OthersStaySynced DEF AddEntry
    <3> QED
      BY <3>2, <3>3
  <2>3. PhaseShape' /\ CrossedShape' /\ SettingsTracked'
    BY DEF AddEntry, PhaseShape, CrossedShape, InSession, SettingsTracked, SettingsReset
  <2> QED
    BY <2>1, <2>2, <2>3
<1>3. CASE \E e \in Entries, size \in Sizes : ResizeEntry(e, size)
  <2> PICK e \in Entries, size \in Sizes : ResizeEntry(e, size)
    BY <1>3
  <2>1. SessionTypeOK' /\ HookShape'
    BY DEF ResizeEntry
  <2>2. ViewTracked'
    <3> SUFFICES ASSUME InSession', NEW x \in Entries,
                        ~(x \in ahead \/ x \in missed \/ x \in crossed)'
                 PROVE  Synced(x)'
      BY DEF ViewTracked
    <3>1. Synced(x)
      BY DEF ResizeEntry, ViewTracked, InSession
    <3>2. CASE x = e
      <4>1. table[x] # Absent /\ hook[x] = "idle" /\ view' = view
        BY <3>2 DEF ResizeEntry
      <4>2. hook'[x] = "resized"
        BY <3>2 DEF ResizeEntry
      <4> QED
        BY <3>1, <4>1, <4>2 DEF Synced
    <3>3. CASE x # e
      BY <3>1, <3>3, OthersStaySynced DEF ResizeEntry
    <3> QED
      BY <3>2, <3>3
  <2>3. PhaseShape' /\ CrossedShape' /\ SettingsTracked'
    BY DEF ResizeEntry, PhaseShape, CrossedShape, InSession, SettingsTracked, SettingsReset
  <2> QED
    BY <2>1, <2>2, <2>3
<1>4. CASE \E e \in Entries : RemoveEntry(e)
  <2> PICK e \in Entries : RemoveEntry(e)
    BY <1>4
  <2>1. SessionTypeOK' /\ HookShape'
    BY DEF RemoveEntry
  <2>2. ViewTracked'
    <3> SUFFICES ASSUME InSession', NEW x \in Entries,
                        ~(x \in ahead \/ x \in missed \/ x \in crossed)'
                 PROVE  Synced(x)'
      BY DEF ViewTracked
    <3>1. Synced(x)
      BY DEF RemoveEntry, ViewTracked, InSession
    <3>2. CASE x = e
      <4>1. table'[x] = Absent /\ hook'[x] = "gone"
        BY <3>2 DEF RemoveEntry
      <4>2. Leaving(x)'
        BY <4>1 DEF Leaving
      <4> QED
        BY <4>1, <4>2 DEF Synced
    <3>3. CASE x # e
      BY <3>1, <3>3, OthersStaySynced DEF RemoveEntry
    <3> QED
      BY <3>2, <3>3
  <2>3. PhaseShape' /\ CrossedShape' /\ SettingsTracked'
    BY DEF RemoveEntry, PhaseShape, CrossedShape, InSession, SettingsTracked, SettingsReset
  <2> QED
    BY <2>1, <2>2, <2>3
<1>5. CASE \E c \in Cleaners : CleanUp(c)
  <2> PICK c \in Cleaners : CleanUp(c)
    BY <1>5
  <2>1. SessionTypeOK' /\ HookShape'
    BY DEF CleanUp
  <2>2. ViewTracked'
    <3> SUFFICES ASSUME InSession', NEW x \in Entries,
                        ~(x \in ahead \/ x \in missed \/ x \in crossed)'
                 PROVE  Synced(x)'
      BY DEF ViewTracked
    <3>1. Synced(x)
      BY DEF CleanUp, ViewTracked, InSession
    <3>2. CASE x = Of(c)
      <4>1. table'[x] = Absent /\ hook'[c] = "gone"
        BY <3>2 DEF CleanUp
      <4>2. Leaving(x)'
        BY <3>2, <4>1 DEF Leaving
      <4>3. hook'[x] \in {"idle", "present", "gone"}
        BY <3>2 DEF CleanUp
      <4> QED
        BY <4>1, <4>2, <4>3 DEF Synced
    <3>3. CASE x # Of(c)
      BY <3>1, <3>3, OthersStaySynced DEF CleanUp
    <3> QED
      BY <3>2, <3>3
  <2>3. PhaseShape' /\ CrossedShape' /\ SettingsTracked'
    BY DEF CleanUp, PhaseShape, CrossedShape, InSession, SettingsTracked, SettingsReset
  <2> QED
    BY <2>1, <2>2, <2>3
<1> QED
  BY <1>1, <1>2, <1>3, <1>4, <1>5

(* An event that finds no sink. *)
LEMMA DropStep ==
  ASSUME SessionInv, NEW a \in Agents, hook[a] \in Emitting, phase # "serve", Drop(a)
  PROVE  SessionInv'
<1> USE OfEntries DEF SessionInv, SessionTypeOK, HookShape, Emitting, Known
<1>1. SessionTypeOK' /\ HookShape'
  BY DEF Drop
<1>2. ViewTracked'
  <2> SUFFICES ASSUME InSession', NEW x \in Entries,
                      ~(x \in ahead \/ x \in missed \/ x \in crossed)'
               PROVE  Synced(x)'
    BY DEF ViewTracked
  <2>1. Synced(x)
    BY DEF Drop, ViewTracked, InSession
  <2>2. CASE x = Of(a)
    <3>1. view[x] = Due(a) /\ view' = view /\ table' = table
      BY <2>2 DEF Drop, InSession
    <3>2. CASE a \in Entries
      <4>1. hook'[x] = "idle" /\ Due(a) = table[x]
        BY <2>2, <3>2 DEF Drop, Due
      <4> QED
        BY <3>1, <4>1 DEF Synced
    <3>3. CASE a \in Cleaners
      <4>1. hook'[x] = hook[x]
        BY <2>2, <3>3 DEF Drop
      <4>2. CASE hook[x] = "adding"
        BY <2>2, <3>1, <3>3, <4>1, <4>2 DEF Due, Synced
      <4>3. CASE hook[x] # "adding"
        BY <2>1, <2>2, <3>1, <3>3, <4>1, <4>3 DEF Due, Synced
      <4> QED
        BY <4>2, <4>3
    <3> QED
      BY <3>2, <3>3 DEF Agents
  <2>3. CASE x # Of(a)
    BY <2>1, <2>3, OthersStaySynced DEF Drop
  <2> QED
    BY <2>2, <2>3
<1>3. PhaseShape' /\ CrossedShape' /\ SettingsTracked'
  BY DEF Drop, PhaseShape, CrossedShape, InSession, SettingsTracked, SettingsReset
<1> QED
  BY <1>1, <1>2, <1>3

(* An event that reaches the client. *)
LEMMA DeliverStep ==
  ASSUME SessionInv, NEW a \in Agents, hook[a] \in Emitting, sinkW, Deliver(a)
  PROVE  SessionInv'
<1> USE OfEntries DEF SessionInv, SessionTypeOK, HookShape, Emitting, Known
<1>1. Folded(a) \in Known
  BY DEF Folded
<1>2. SessionTypeOK' /\ HookShape'
  BY <1>1 DEF Deliver
<1>3. ViewTracked'
  <2> SUFFICES ASSUME InSession', NEW x \in Entries,
                      ~(x \in ahead \/ x \in missed \/ x \in crossed)'
               PROVE  Synced(x)'
    BY DEF ViewTracked
  <2>1. CASE x = Of(a)
    <3>1. view'[x] = Folded(a) /\ table' = table
      BY <2>1 DEF Deliver
    <3>2. CASE Folded(a) = Due(a)
      <4>1. CASE a \in Entries
        <5>1. hook'[x] = "idle" /\ Due(a) = table[x]
          BY <2>1, <4>1 DEF Deliver, Due
        <5> QED
          BY <3>1, <3>2, <5>1 DEF Synced
      <4>2. CASE a \in Cleaners
        <5>1. hook'[x] = hook[x] /\ hook[a] = "gone"
          BY <2>1, <4>2 DEF Deliver
        <5>2. CASE hook[x] = "adding"
          BY <2>1, <3>1, <5>1, <5>2 DEF Folded, Synced
        <5>3. CASE hook[x] # "adding"
          <6>1. view'[x] = table'[x] /\ table'[x] = Absent
            BY <2>1, <3>1, <3>2, <4>2, <5>1, <5>3 DEF Folded, Due
          <6> QED
            BY <2>1, <3>1, <5>1, <5>3, <6>1 DEF Synced
        <5> QED
          BY <5>2, <5>3
      <4> QED
        BY <4>1, <4>2 DEF Agents
    <3>3. CASE Folded(a) # Due(a)
      <4>1. x \notin missed /\ x \notin ahead /\ x \notin crossed /\ hook[a] # "gone"
        BY <2>1, <3>3 DEF Deliver
      <4>2. hook[a] = "resized" /\ view[Of(a)] = Absent /\ a \in Entries
        BY <3>3, <4>1 DEF Folded, Due, Agents
      <4>3. Synced(x)
        BY <4>1 DEF Deliver, ViewTracked, InSession
      <4> QED
        BY <2>1, <4>2, <4>3 DEF Synced
    <3> QED
      BY <3>2, <3>3
  <2>2. CASE x # Of(a)
    <3>1. Synced(x)
      BY <2>2 DEF Deliver, ViewTracked, InSession
    <3>2. table'[x] = table[x] /\ view'[x] = view[x]
      BY <1>1, <2>2 DEF Deliver
    <3> QED
      BY <2>2, <3>1, <3>2, OthersStaySynced DEF Deliver
  <2> QED
    BY <2>1, <2>2
<1>4. CrossedShape'
  <2>1. phase' # "snapshot" /\ phase' = phase
    BY DEF Deliver, PhaseShape
  <2>2. crossed' \subseteq Direct9
    <3>1. CASE crossed' \subseteq crossed
      BY <3>1 DEF CrossedShape
    <3>2. CASE ~(crossed' \subseteq crossed)
      <4>1. hook[a] = "gone" /\ Folded(a) # Due(a) /\ crossed' = crossed \cup {Of(a)}
        BY <3>2 DEF Deliver
      <4>2. a \in Cleaners
        BY <4>1 DEF Agents, Folded, Due
      <4> QED
        BY <4>1, <4>2 DEF CrossedShape
    <3> QED
      BY <3>1, <3>2
  <2>3. ASSUME InSession', NEW x \in crossed' PROVE view'[x] = Absent
    <3> x \in Entries
      BY <1>2
    <3>1. CASE x = Of(a)
      <4>1. Folded(a) # Due(a)
        BY <3>1 DEF Deliver
      <4>2. hook[a] # "adding"
        BY <4>1 DEF Folded, Due, Agents
      <4>3. hook[a] = "gone" \/ (hook[a] = "resized" /\ view[Of(a)] = Absent)
        BY <4>1, <4>2 DEF Folded, Due, Agents
      <4> QED
        BY <3>1, <4>3 DEF Deliver, Folded
    <3>2. CASE x # Of(a)
      <4>1. x \in crossed /\ view'[x] = view[x]
        BY <1>1, <3>2 DEF Deliver
      <4> QED
        BY <2>1, <2>3, <4>1 DEF CrossedShape, InSession
    <3> QED
      BY <3>1, <3>2
  <2> QED
    BY <2>1, <2>2, <2>3 DEF CrossedShape
<1>5. PhaseShape' /\ SettingsTracked'
  BY DEF Deliver, PhaseShape, SettingsTracked, SettingsReset
<1> QED
  BY <1>2, <1>3, <1>4, <1>5

(* A step of the application: the sinks and the phase do not change. *)
LEMMA SessionApplicationStep == SessionInv /\ Application => SessionInv'
<1> SUFFICES ASSUME SessionInv, Application PROVE SessionInv'
  OBVIOUS
<1>1. CASE \E a \in Agents \ Windows : LoadOverlay(a)
  <2> PICK a \in Agents \ Windows : LoadOverlay(a)
    BY <1>1
  <2>1. CASE ~sinkS
    <3>1. hook[a] \in Emitting /\ Drop(a) /\ phase # "serve"
      BY <2>1 DEF LoadOverlay, SessionInv, PhaseShape
    <3> QED
      BY <3>1, DropStep
  <2>2. CASE sinkS
    <3> USE DEF LoadOverlay, SessionInv
    <3>1. SessionTypeOK'
      BY <2>2 DEF SessionTypeOK
    <3>2. PhaseShape' /\ HookShape' /\ CrossedShape' /\ SettingsTracked'
      BY <2>2 DEF PhaseShape, HookShape, CrossedShape, InSession, SettingsTracked, SettingsReset
    <3>3. ViewTracked'
      BY <2>2 DEF ViewTracked, InSession, Synced, Leaving
    <3> QED
      BY <3>1, <3>2, <3>3
  <2> QED
    BY <2>1, <2>2
<1>2. CASE \E a \in Agents : Emit(a)
  <2> PICK a \in Agents : Emit(a)
    BY <1>2
  <2>1. CASE sinkW
    BY <2>1, DeliverStep DEF Emit
  <2>2. CASE ~sinkW
    <3>1. hook[a] \in Emitting /\ Drop(a) /\ phase # "serve"
      BY <2>2 DEF Emit, SessionInv, PhaseShape
    <3> QED
      BY <3>1, DropStep
  <2> QED
    BY <2>1, <2>2
<1> QED
  BY <1>1, <1>2, SessionThreadStep DEF Application

(* A step of ipc::run: the entries and the agents do not change. *)
LEMMA SessionServerStep == SessionInv /\ Server => SessionInv'
<1> SUFFICES ASSUME SessionInv, Server PROVE SessionInv'
  OBVIOUS
<1> USE OfEntries
    DEF SessionInv, SessionTypeOK, PhaseShape, HookShape, InSession, ViewTracked, Synced,
        CrossedShape, SettingsTracked, SettingsReset, Emitting, Known
<1>0. hook' = hook /\ table' = table => \A e \in Entries : Leaving(e)' <=> Leaving(e)
  BY DEF Leaving
<1>1. CASE Connect
  BY <1>0, <1>1 DEF Connect
<1>2. CASE BindEvents
  BY <1>0, <1>2 DEF BindEvents
<1>3. CASE BindOverlay
  BY <1>0, <1>3 DEF BindOverlay
<1>4. CASE ClearEvents
  BY <1>0, <1>4 DEF ClearEvents
<1>5. CASE ClearOverlay
  BY <1>0, <1>5 DEF ClearOverlay
<1>6. CASE Relisten
  BY <1>0, <1>6 DEF Relisten
<1>7. ASSUME NEW e \in Entries, Announce(e) PROVE SessionInv'
  BY <1>0, <1>7 DEF Announce, Pass
<1>8. ASSUME NEW e \in Entries, Configure(e) PROVE SessionInv'
  BY <1>0, <1>8 DEF Configure
<1>9. ASSUME NEW e \in Entries, ResetEntry(e) PROVE SessionInv'
  BY <1>0, <1>9 DEF ResetEntry, Pass
<1> QED
  BY <1>1, <1>2, <1>3, <1>4, <1>5, <1>6, <1>7, <1>8, <1>9 DEF Server

LEMMA SessionInductive == SessionInv /\ [SessionNext]_sessionVars => SessionInv'
<1>1. SessionInv /\ UNCHANGED sessionVars => SessionInv'
  BY DEF SessionInv, SessionTypeOK, PhaseShape, HookShape, InSession, ViewTracked, Synced,
         Leaving, CrossedShape, SettingsTracked, SettingsReset, sessionVars
<1> QED
  BY <1>1, SessionApplicationStep, SessionServerStep DEF SessionNext

LEMMA SessionInvariant == SessionSpec => []SessionInv
  BY InitSessionInv, SessionInductive, PTL DEF SessionSpec

(***************************************************************************)
(* The type invariant holds for any windows, surfaces and sizes.           *)
(***************************************************************************)
THEOREM SessionTypeCorrect == SessionSpec => []SessionTypeOK
<1>1. SessionInv => SessionTypeOK
  BY DEF SessionInv
<1> QED
  BY <1>1, SessionInvariant, PTL

(***************************************************************************)
(* The client of a running session is right about every entry, or about to *)
(* be told of its end, but for those with an event dropped during its      *)
(* setup and the surfaces of Direct3D 9 whose end it was told too late.    *)
(***************************************************************************)
THEOREM ClientViewCorrect == SessionSpec => []ViewUnlessMissed
<1>1. SessionInv => ViewUnlessMissed
  BY DEF SessionInv, ViewUnlessMissed, PhaseShape, ViewTracked, InSession, Synced, CrossedShape
<1> QED
  BY <1>1, SessionInvariant, PTL

(***************************************************************************)
(* No entry is announced to a client that knows it, unless the client      *)
(* missed its removal or, in Direct3D 9, is about to be told of it.        *)
(***************************************************************************)
THEOREM NoDoubleAdded == SessionSpec => []AddedOnce
<1>1. ASSUME SessionInv, NEW x \in Entries, phase = "serve", hook[x] = "adding"
      PROVE  view[x] = Absent \/ x \in missed \/ (x \in Direct9 /\ Leaving(x))
  <2>1. Leaving(x) => x \in Direct9
    BY <1>1, OfEntries DEF Leaving, Agents
  <2>2. x \in missed \/ x \in crossed \/ Synced(x)
    BY <1>1 DEF SessionInv, PhaseShape, ViewTracked, InSession
  <2>3. x \in crossed => view[x] = Absent
    BY <1>1 DEF SessionInv, CrossedShape, InSession
  <2> QED
    BY <1>1, <2>1, <2>2, <2>3 DEF Synced
<1>2. SessionInv => AddedOnce
  BY <1>1 DEF AddedOnce
<1> QED
  BY <1>2, SessionInvariant, PTL

(***************************************************************************)
(* Nothing a client configured outlives its session.                       *)
(***************************************************************************)
THEOREM NothingOutlivesSession == SessionSpec => []SettingsReset
<1>1. SessionInv => SettingsReset
  BY DEF SessionInv, SettingsTracked
<1> QED
  BY <1>1, SessionInvariant, PTL
=============================================================================

------------------------- MODULE InputCaptureProofs -------------------------
(***************************************************************************)
(* Theorems about InputCapture for any sets of devices used together, any  *)
(* length of the queue and any bound on click counts.                      *)
(*                                                                         *)
(* The invariants say what the next messages of the queue will do.  What   *)
(* read_message told is what should_filter adds to, and a character in the *)
(* queue carries the division its key press had, as long as nobody changed *)
(* what is blocked or listened to (Dividing).  Behind each press in the    *)
(* queue there is its release, or the button or key is still down          *)
(* (Ended), so what a press sets a release will reset (Buttons, KeysKnown).*)
(***************************************************************************)
EXTENDS InputCapture, SequenceTheorems, TLAPS

Has(q, k) == \E j \in DOMAIN q : q[j].kind = k

(* Behind every message of the kind d one of the kind u, unless on.        *)
Ended(q, d, u, on) ==
  \A j \in DOMAIN q : q[j].kind = d => on \/ \E l \in DOMAIN q : j < l /\ q[l].kind = u

(* The message is being reported; it will be decided who gets it.          *)
Reads(k) == pc = "read" /\ cur.kind = k
Handles(k) == pc # "idle" /\ removed /\ cur.kind = k

(* A character whose press was divided as s, now due to s.                 *)
Came(m, s) ==
  m.kind = "char" /\ m.clean =>
    m.got \subseteq s /\ (s \subseteq m.got \/ (m.again /\ "app" \notin s))
AllCame(q, s) == \A j \in DOMAIN q : Came(q[j], s)

(* read_message looked at a message of the kind k, and told the client.    *)
Looked(k) == "app" \in was \/ "client" \in was \/ k \in Silent

(* And then should_filter did, as things stand now.                        *)
Split == told = (was \ {"app"}) \cup (IF blocked THEN {} ELSE {"app"})

Dividing ==
  /\ pc # "idle" => fate = NoMsg /\ Came(cur, Due("char"))
  /\ pc = "read" => removed
  /\ pc = "filter" /\ removed => told = was \ {"app"} /\ Looked(cur.kind)
  /\ pc = "filter" /\ removed /\ cur.kind = "char" /\ cur.clean => was = Due("char")
  /\ pc = "filter" /\ ~removed => cur.again /\ told = {}
  /\ AllCame(queue, Due("char"))
  /\ pc = "idle" /\ fate # NoMsg =>
       /\ Split /\ Looked(fate.kind) /\ Came(fate, Due("char"))
       /\ fate.kind = "char" /\ fate.clean => was = Due("char")

Leaves ==
  hovering => (inside /\ tracking) \/ Has(queue, "leave") \/ Reads("leave") \/ unheard

Buttons ==
  /\ Ended(queue, "down", "up", held)
  /\ Reads("down") => held \/ Has(queue, "up")
  /\ capture => held \/ Has(queue, "up") \/ Reads("up") \/ lost

(* The release of the key is still to come, or was filtered.               *)
Releases == Has(queue, "keyup") \/ Handles("keyup") \/ stuck

KeysKnown ==
  /\ Ended(queue, "key", "keyup", key)
  /\ Handles("key") => key \/ Has(queue, "keyup")
  /\ appKey => key \/ Releases
  /\ hidden => blocked /\ (appKey => Releases)

Composing ==
  /\ cIme => ime = "Compose" \/ failed
  /\ comp = "none" => ime = "Disabled"

USE CaptureAssumption
-----------------------------------------------------------------------------
(* Messages and their queue.                                               *)

LEMMA PostFacts ==
  ASSUME NEW k \in Kinds
  PROVE  Post(k) \in Msg /\ Post(k).kind = k
BY DEF Post, Msg

LEMMA KindFacts ==
  /\ Kinds = {"move", "leave", "down", "up", "key", "keyup", "char", "side", "pointer"}
  /\ \A m \in Msg : m.kind \in Kinds /\ m.clean \in BOOLEAN /\ m.again \in BOOLEAN
  /\ NoMsg \notin Msg
<1>1. Kinds = {"move", "leave", "down", "up", "key", "keyup", "char", "side", "pointer"}
  BY DEF Kinds, CursorKinds, KeyKinds
<1>2. \A m \in Msg : m.kind \in Kinds /\ m.clean \in BOOLEAN /\ m.again \in BOOLEAN
  BY DEF Msg
<1>3. NoMsg.kind \notin Kinds
  BY <1>1 DEF NoMsg
<1> QED
  BY <1>1, <1>2, <1>3

LEMMA DirtyFacts ==
  ASSUME NEW m \in Msg \cup {NoMsg}
  PROVE  /\ Dirty(m).kind = m.kind /\ Dirty(m).again = m.again
         /\ m.kind = "char" => ~Dirty(m).clean
         /\ m \in Msg => Dirty(m) \in Msg
         /\ Dirty(m) \in Msg \cup {NoMsg}
<1> USE DEF Dirty
<1>1. CASE m \in Msg
  BY <1>1 DEF Msg
<1>2. CASE m = NoMsg
  <2>1. NoMsg = [i \in {"kind", "got", "clean", "again"} |-> NoMsg[i]] /\ NoMsg.clean = FALSE
    BY DEF NoMsg
  <2>2. Dirty(m) = NoMsg
    <3>1. (m.clean /\ m.kind # "char") = FALSE
      BY <1>2, <2>1
    <3>2. Dirty(m) = [m EXCEPT !.clean = FALSE]
      BY <3>1
    <3> QED
      BY <1>2, <2>1, <3>2
  <2>3. m \notin Msg
    BY <1>2, KindFacts
  <2> QED
    BY <1>2, <2>1, <2>2, <2>3
<1> QED
  BY <1>1, <1>2

LEMMA PeekFacts ==
  ASSUME NEW m \in Msg
  PROVE  LET n == [m EXCEPT !.again = TRUE]
         IN  /\ n \in Msg /\ n.kind = m.kind /\ n.again
             /\ n.clean = m.clean /\ n.got = m.got
BY DEF Msg

LEMMA QueueFacts ==
  ASSUME NEW q \in Seq(Msg)
  PROVE  /\ Len(q) \in Nat /\ DOMAIN q = 1 .. Len(q)
         /\ \A j \in DOMAIN q : q[j] \in Msg
BY LenProperties, ElementOfSeq

(* A message is posted behind the others.                                  *)
LEMMA AppendFacts ==
  ASSUME NEW q \in Seq(Msg), NEW m \in Msg
  PROVE  /\ Append(q, m) \in Seq(Msg)
         /\ DOMAIN Append(q, m) = 1 .. Len(q) + 1
         /\ \A j \in DOMAIN q : Append(q, m)[j] = q[j]
         /\ Append(q, m)[Len(q) + 1] = m
<1>1. Len(q) \in Nat /\ DOMAIN q = 1 .. Len(q)
  BY QueueFacts
<1>2. /\ Append(q, m) \in Seq(Msg) /\ Len(Append(q, m)) = Len(q) + 1
      /\ \A j \in 1 .. Len(q) : Append(q, m)[j] = q[j]
      /\ Append(q, m)[Len(q) + 1] = m
  BY <1>1, AppendProperties
<1>3. DOMAIN Append(q, m) = 1 .. Len(q) + 1
  BY <1>2, QueueFacts
<1> QED
  BY <1>1, <1>2, <1>3

LEMMA AppendHas ==
  ASSUME NEW q \in Seq(Msg), NEW m \in Msg, NEW k
  PROVE  Has(Append(q, m), k) <=> Has(q, k) \/ m.kind = k
<1>1. Len(q) \in Nat /\ DOMAIN q = 1 .. Len(q)
  BY QueueFacts
<1> DEFINE p == Append(q, m)
<1>2. /\ DOMAIN p = 1 .. Len(q) + 1
      /\ \A j \in DOMAIN q : p[j] = q[j]
      /\ p[Len(q) + 1] = m
  BY AppendFacts
<1> HIDE DEF p
<1>3. DOMAIN p = DOMAIN q \cup {Len(q) + 1}
  BY <1>1, <1>2
<1>4. Has(p, k) <=> Has(q, k) \/ m.kind = k
  BY <1>2, <1>3 DEF Has
<1> QED
  BY <1>4 DEF p

LEMMA AppendEnded ==
  ASSUME NEW q \in Seq(Msg), NEW m \in Msg, NEW d, NEW u,
         NEW on \in BOOLEAN, NEW next \in BOOLEAN,
         Ended(q, d, u, on), m.kind = d => next, on => next \/ m.kind = u
  PROVE  Ended(Append(q, m), d, u, next)
<1>1. Len(q) \in Nat /\ DOMAIN q = 1 .. Len(q)
  BY QueueFacts
<1> DEFINE p == Append(q, m)
           e == Len(q) + 1
<1>2. /\ DOMAIN p = 1 .. e
      /\ \A j \in DOMAIN q : p[j] = q[j]
      /\ p[e] = m
  BY AppendFacts
<1>3. /\ DOMAIN p = DOMAIN q \cup {e}
      /\ \A j \in DOMAIN q : j < e
  BY <1>1, <1>2
<1> HIDE DEF p, e
<1>4. ASSUME NEW j \in DOMAIN p, p[j].kind = d
      PROVE  next \/ \E l \in DOMAIN p : j < l /\ p[l].kind = u
  <2>1. CASE j = e
    BY <1>2, <1>4, <2>1
  <2>2. CASE j \in DOMAIN q
    <3>1. on \/ \E l \in DOMAIN q : j < l /\ q[l].kind = u
      BY <1>2, <1>4, <2>2 DEF Ended
    <3> QED
      BY <1>2, <1>3, <2>2, <3>1
  <2> QED
    BY <1>3, <2>1, <2>2
<1>5. Ended(p, d, u, next)
  BY <1>4 DEF Ended
<1> QED
  BY <1>5 DEF p

LEMMA AppendCame ==
  ASSUME NEW q \in Seq(Msg), NEW m \in Msg, NEW s, AllCame(q, s), Came(m, s)
  PROVE  AllCame(Append(q, m), s)
<1>1. Len(q) \in Nat /\ DOMAIN q = 1 .. Len(q)
  BY QueueFacts
<1> DEFINE p == Append(q, m)
<1>2. /\ DOMAIN p = 1 .. Len(q) + 1
      /\ \A j \in DOMAIN q : p[j] = q[j]
      /\ p[Len(q) + 1] = m
  BY AppendFacts
<1> HIDE DEF p
<1>3. \A j \in DOMAIN p : j \in DOMAIN q \/ j = Len(q) + 1
  BY <1>1, <1>2
<1>4. AllCame(p, s)
  BY <1>2, <1>3 DEF AllCame
<1> QED
  BY <1>4 DEF p

(* The first message is taken out.                                         *)
LEMMA TailFacts ==
  ASSUME NEW q \in Seq(Msg), q # <<>>
  PROVE  /\ Head(q) \in Msg /\ Tail(q) \in Seq(Msg)
         /\ \A k : Has(q, k) => Head(q).kind = k \/ Has(Tail(q), k)
         /\ \A d, u : \A on \in BOOLEAN : Ended(q, d, u, on) =>
              /\ Ended(Tail(q), d, u, on)
              /\ Head(q).kind = d => on \/ Has(Tail(q), u)
         /\ \A s : AllCame(q, s) => Came(Head(q), s) /\ AllCame(Tail(q), s)
<1> DEFINE p == Tail(q)
           n == Len(q)
<1>1. n \in Nat /\ DOMAIN q = 1 .. n /\ n # 0
  BY QueueFacts, EmptySeq
<1>2. /\ p \in Seq(Msg) /\ Len(p) = n - 1 /\ Head(q) \in Msg /\ Head(q) = q[1]
      /\ \A j \in 1 .. n - 1 : p[j] = q[j + 1]
  BY HeadTailProperties
<1>3. DOMAIN p = 1 .. n - 1
  BY <1>2, QueueFacts
<1> HIDE DEF p, n
<1>4. \A j \in DOMAIN q : j = 1 \/ (j - 1 \in DOMAIN p /\ p[j - 1] = q[j])
  <2> SUFFICES ASSUME NEW j \in DOMAIN q, j # 1 PROVE j - 1 \in DOMAIN p /\ p[j - 1] = q[j]
    OBVIOUS
  <2>1. j - 1 \in 1 .. n - 1 /\ (j - 1) + 1 = j
    BY <1>1
  <2> QED
    BY <1>2, <1>3, <2>1
<1>5. \A j \in DOMAIN p : j + 1 \in DOMAIN q /\ p[j] = q[j + 1]
  BY <1>1, <1>2, <1>3
<1>6. \A k : Has(q, k) => Head(q).kind = k \/ Has(p, k)
  BY <1>2, <1>4 DEF Has
<1>7. ASSUME NEW d, NEW u, NEW on \in BOOLEAN, Ended(q, d, u, on)
      PROVE  Ended(p, d, u, on) /\ (Head(q).kind = d => on \/ Has(p, u))
  <2>1. ASSUME NEW j \in DOMAIN p, p[j].kind = d, ~on
        PROVE  \E l \in DOMAIN p : j < l /\ p[l].kind = u
    <3>1. PICK l \in DOMAIN q : j + 1 < l /\ q[l].kind = u
      BY <1>5, <1>7, <2>1 DEF Ended
    <3>2. j < l - 1 /\ l # 1
      BY <1>1, <1>3, <3>1
    <3> QED
      BY <1>4, <3>1, <3>2
  <2>2. Head(q).kind = d => on \/ Has(p, u)
    <3> SUFFICES ASSUME q[1].kind = d, ~on PROVE Has(p, u)
      BY <1>2
    <3>1. 1 \in DOMAIN q
      BY <1>1
    <3>2. PICK l \in DOMAIN q : 1 < l /\ q[l].kind = u
      BY <1>7, <3>1 DEF Ended
    <3> QED
      BY <1>4, <3>2 DEF Has
  <2> QED
    BY <2>1, <2>2 DEF Ended
<1>8. \A s : AllCame(q, s) => Came(Head(q), s) /\ AllCame(p, s)
  <2>1. 1 \in DOMAIN q
    BY <1>1
  <2> QED
    BY <1>2, <1>5, <2>1 DEF AllCame
<1> QED
  BY <1>2, <1>6, <1>7, <1>8 DEF p

(* Two queues of the same kinds of messages.                               *)
LEMMA AlikeFacts ==
  ASSUME NEW p, NEW q, DOMAIN p = DOMAIN q, \A j \in DOMAIN q : p[j].kind = q[j].kind
  PROVE  /\ \A k : Has(p, k) <=> Has(q, k)
         /\ \A d, u : \A on \in BOOLEAN : Ended(q, d, u, on) => Ended(p, d, u, on)
BY DEF Has, Ended

LEMMA UncleanFacts ==
  ASSUME NEW q \in Seq(Msg)
  PROVE  /\ Unclean(q) \in Seq(Msg) /\ DOMAIN Unclean(q) = DOMAIN q
         /\ \A j \in DOMAIN q : Unclean(q)[j].kind = q[j].kind
         /\ \A s : AllCame(Unclean(q), s)
<1> DEFINE p == Unclean(q)
<1>1. Len(q) \in Nat /\ DOMAIN q = 1 .. Len(q) /\ \A j \in DOMAIN q : q[j] \in Msg
  BY QueueFacts
<1>2. DOMAIN p = DOMAIN q /\ \A j \in DOMAIN q : p[j] = Dirty(q[j])
  BY DEF Unclean
<1>3. \A j \in DOMAIN q : p[j] \in Msg /\ p[j].kind = q[j].kind /\ (q[j].kind = "char" => ~p[j].clean)
  BY <1>1, <1>2, DirtyFacts
<1>4. p \in Seq(Msg)
  <2>1. p = [j \in 1 .. Len(q) |-> Dirty(q[j])]
    BY <1>1 DEF Unclean
  <2>2. \A j \in 1 .. Len(q) : Dirty(q[j]) \in Msg
    BY <1>1, DirtyFacts
  <2> HIDE DEF p
  <2> QED
    BY <1>1, <2>1, <2>2
<1> HIDE DEF p
<1>5. \A s : AllCame(p, s)
  BY <1>2, <1>3 DEF AllCame, Came
<1> QED
  BY <1>2, <1>3, <1>4, <1>5 DEF p

(* The first message is looked at, and kept.                               *)
LEMMA PeekQueue ==
  ASSUME NEW q \in Seq(Msg), q # <<>>, NEW m \in Msg, m.kind = Head(q).kind, m.again,
         m.clean = Head(q).clean, m.got = Head(q).got
  PROVE  LET p == <<m>> \o Tail(q)
         IN  /\ p \in Seq(Msg) /\ DOMAIN p = DOMAIN q
             /\ \A j \in DOMAIN q : p[j].kind = q[j].kind
             /\ \A s : AllCame(q, s) => AllCame(p, s)
<1> DEFINE t == Tail(q)
           n == Len(q)
           p == <<m>> \o t
<1>1. n \in Nat /\ DOMAIN q = 1 .. n /\ n # 0
  BY QueueFacts, EmptySeq
<1>2. /\ t \in Seq(Msg) /\ Len(t) = n - 1 /\ Head(q) = q[1]
      /\ \A j \in 1 .. n - 1 : t[j] = q[j + 1]
  BY HeadTailProperties
<1>3. <<m>> \in Seq(Msg) /\ Len(<<m>>) = 1 /\ <<m>>[1] = m
  OBVIOUS
<1> HIDE DEF t, n
<1>4. /\ p \in Seq(Msg) /\ Len(p) = 1 + (n - 1)
      /\ \A j \in 1 .. 1 + (n - 1) : p[j] = IF j <= 1 THEN <<m>>[j] ELSE t[j - 1]
  BY <1>2, <1>3, ConcatProperties
<1>5. 1 + (n - 1) = n
  BY <1>1
<1>6. DOMAIN p = 1 .. n
  BY <1>4, <1>5, QueueFacts
<1> HIDE DEF p
<1>7. p[1] = m
  BY <1>1, <1>3, <1>4, <1>5
<1>8. \A j \in DOMAIN q : j # 1 => p[j] = q[j]
  <2> SUFFICES ASSUME NEW j \in 1 .. n, j # 1 PROVE p[j] = q[j]
    BY <1>1
  <2>1. ~(j <= 1) /\ j - 1 \in 1 .. n - 1 /\ (j - 1) + 1 = j
    BY <1>1
  <2>2. p[j] = t[j - 1]
    BY <1>4, <1>5, <2>1
  <2> QED
    BY <1>2, <2>1, <2>2
<1>9. \A j \in DOMAIN q : p[j].kind = q[j].kind
  BY <1>2, <1>7, <1>8
<1>10. \A s : AllCame(q, s) => AllCame(p, s)
  BY <1>1, <1>6, <1>7, <1>8 DEF AllCame, Came
<1> QED
  BY <1>1, <1>4, <1>6, <1>9, <1>10 DEF p, t

LEMMA ConcatPost ==
  ASSUME NEW q \in Seq(Msg)
  PROVE  q \o <<Post("down"), Post("up")>> = Append(Append(q, Post("down")), Post("up"))
<1>1. Post("down") \in Msg /\ Post("up") \in Msg
  BY KindFacts, PostFacts
<1> DEFINE a == Post("down")
           b == Post("up")
<1> HIDE DEF a, b
<1> QED
  BY <1>1 DEF a, b
-----------------------------------------------------------------------------
(* Type correctness, by groups of variables.                               *)

TypeUser ==
  devices \in Scenarios /\ blocked \in BOOLEAN /\ listen \in SUBSET {Cursor, Keyboard}

TypeThread ==
  /\ queue \in Seq(Msg)
  /\ pc \in {"idle", "read", "filter"} /\ removed \in BOOLEAN
  /\ cur \in Msg \cup {NoMsg} /\ fate \in Msg \cup {NoMsg}
  /\ pc # "idle" => cur \in Msg
  /\ told \in SUBSET {"app", "client"} /\ was \in SUBSET {"app", "client"}

TypeMouse ==
  /\ inside \in BOOLEAN /\ tracking \in BOOLEAN /\ hovering \in BOOLEAN
  /\ held \in BOOLEAN /\ capture \in BOOLEAN /\ cIn \in BOOLEAN
  /\ clicks \in 0..MaxClicks /\ cClicks \in 0..MaxClicks

TypePast ==
  /\ stale \in BOOLEAN /\ unheard \in BOOLEAN /\ parted \in BOOLEAN
  /\ lost \in BOOLEAN /\ carried \in BOOLEAN

TypeKeys == key \in BOOLEAN /\ appKey \in BOOLEAN /\ stuck \in BOOLEAN /\ hidden \in BOOLEAN

TypeImes ==
  /\ comp \in {"none", "open", "text"} /\ ime \in {"Disabled", "Enabled", "Compose"}
  /\ cIme \in BOOLEAN /\ failed \in BOOLEAN

Typed == TypeUser /\ TypeThread /\ TypeMouse /\ TypePast /\ TypeKeys /\ TypeImes

LEMMA TypedOK == Typed => TypeOK
BY DEF Typed, TypeUser, TypeThread, TypeMouse, TypePast, TypeKeys, TypeImes, TypeOK

LEMMA InitTyped == Init => Typed
<1> SUFFICES ASSUME Init PROVE Typed
  OBVIOUS
<1>1. <<>> \in Seq(Msg) /\ {} \in SUBSET {Cursor, Keyboard} /\ {} \in SUBSET {"app", "client"}
  OBVIOUS
<1>2. TypeUser
  BY <1>1 DEF Init, TypeUser
<1>5. TypeThread
  <2>1. queue = <<>> /\ told = {} /\ was = {} /\ pc = "idle" /\ cur = NoMsg /\ fate = NoMsg /\ removed = FALSE
    BY DEF Init
  <2> QED
    BY <1>1, <2>1 DEF TypeThread
<1>3. TypeMouse /\ TypePast
  <2>1. 0 \in 0 .. MaxClicks
    OBVIOUS
  <2> HIDE CaptureAssumption
  <2> QED
    BY <2>1 DEF Init, TypeMouse, TypePast
<1>4. TypeKeys /\ TypeImes
  BY DEF Init, TypeKeys, TypeImes
<1> QED
  BY <1>2, <1>3, <1>4, <1>5 DEF Typed

LEMMA SameThread == ASSUME TypeThread, UNCHANGED <<queue, pc, cur, removed, told, was, fate>>
                    PROVE  TypeThread'
BY DEF TypeThread

(* What the user does is posted behind the others.                         *)
LEMMA PostTyped ==
  ASSUME TypeThread, NEW k \in Kinds, queue' = Append(queue, Post(k)),
         UNCHANGED <<pc, cur, removed, told, was, fate>>
  PROVE  TypeThread'
BY PostFacts, AppendFacts DEF TypeThread

(* Nobody's doing but read_message: who has got the message.               *)
LEMMA ReadTyped ==
  ASSUME TypeThread, Step, Told,
         queue' = queue \/ queue' = Append(queue, Post("leave"))
  PROVE  TypeThread'
<1>1. "leave" \in Kinds
  BY KindFacts
<1>2. queue' \in Seq(Msg)
  <2>1. Post("leave") \in Msg /\ queue \in Seq(Msg)
    BY <1>1, PostFacts DEF TypeThread
  <2> QED
    BY <2>1, AppendFacts
<1>3. told' \in SUBSET {"app", "client"} /\ was' \in SUBSET {"app", "client"}
  BY DEF Told, Due
<1> QED
  BY <1>2, <1>3 DEF TypeThread, Step

LEMMA CharFacts ==
  ASSUME cur \in Msg, NEW who \in SUBSET {"app", "client"}
  PROVE  /\ Char(who) \in Msg /\ Char(who).kind = "char" /\ Char(who).got = who
         /\ Char(who).clean = (~removed \/ was = Due("key")) /\ Char(who).again = cur.again
<1>1. "char" \in Kinds
  BY KindFacts
<1>2. (~removed \/ was = Due("key")) \in BOOLEAN
  OBVIOUS
<1> QED
  BY <1>1, <1>2 DEF Char, Msg

LEMMA FilterTyped ==
  ASSUME TypeThread, FilterBlocked \/ FilterPass
  PROVE  TypeThread'
<1>1. /\ pc = "filter" /\ cur \in Msg /\ queue \in Seq(Msg) /\ told \in SUBSET {"app", "client"}
      /\ fate \in Msg \cup {NoMsg}
      /\ told \cup {"app"} \in SUBSET {"app", "client"}
      /\ "down" \in Kinds /\ "up" \in Kinds
  BY KindFacts DEF TypeThread, FilterBlocked, FilterPass
<1>2. Char(told) \in Msg /\ Char(told \cup {"app"}) \in Msg
  BY <1>1, CharFacts
<1>3. <<Post("down"), Post("up")>> \in Seq(Msg)
  BY <1>1, PostFacts
<1>4. /\ Append(queue, Char(told)) \in Seq(Msg)
      /\ Append(queue, Char(told \cup {"app"})) \in Seq(Msg)
      /\ queue \o <<Post("down"), Post("up")>> \in Seq(Msg)
  BY <1>1, <1>2, <1>3, AppendFacts, ConcatProperties
<1> HIDE DEF Msg, Post, Char
<1>5. queue' \in Seq(Msg)
  BY <1>1, <1>4 DEF FilterBlocked, FilterPass
<1>6. fate' \in Msg \cup {NoMsg}
  BY <1>1, <1>2 DEF FilterBlocked, FilterPass
<1>7. /\ pc' = "idle" /\ cur' = cur /\ removed' = removed /\ was' = was
      /\ told' \in {told, told \cup {"app"}}
  BY DEF FilterBlocked, FilterPass
<1> QED
  BY <1>1, <1>5, <1>6, <1>7 DEF TypeThread

LEMMA TakeTyped ==
  ASSUME TypeThread, Get \/ Peek
  PROVE  TypeThread'
<1>1. /\ queue \in Seq(Msg) /\ queue # <<>> /\ Head(queue) \in Msg /\ Tail(queue) \in Seq(Msg)
  BY TailFacts DEF TypeThread, Get, Peek
<1>2. CASE Get
  BY <1>1, <1>2 DEF TypeThread, Get
<1>3. CASE Peek
  <2>1. cur' \in Msg /\ cur'.kind = Head(queue).kind /\ cur'.again
        /\ cur'.clean = Head(queue).clean /\ cur'.got = Head(queue).got
    BY <1>1, <1>3, PeekFacts DEF Peek
  <2>2. queue' \in Seq(Msg)
    BY <1>1, <1>3, <2>1, PeekQueue DEF Peek
  <2> QED
    BY <1>3, <2>1, <2>2 DEF TypeThread, Peek
<1> QED
  BY <1>2, <1>3

LEMMA UncleanTyped ==
  ASSUME TypeThread, queue' = Unclean(queue), cur' = Dirty(cur),
         fate' = NoMsg, UNCHANGED <<pc, removed, told, was>>
  PROVE  TypeThread'
<1>1. queue' \in Seq(Msg)
  BY UncleanFacts DEF TypeThread
<1>2. cur' \in Msg \cup {NoMsg} /\ (cur \in Msg => cur' \in Msg)
  BY DirtyFacts DEF TypeThread
<1> QED
  BY <1>1, <1>2 DEF TypeThread

LEMMA ThreadTyped == TypeThread /\ [Next]_vars => TypeThread'
<1> SUFFICES ASSUME TypeThread, [Next]_vars PROVE TypeThread'
  OBVIOUS
<1>1. {"move", "leave", "up", "down", "key", "keyup", "side", "pointer"} \subseteq Kinds
  BY KindFacts
<1>2. CASE MouseMove
  BY <1>1, <1>2, PostTyped DEF MouseMove
<1>3. CASE MouseOut
  BY <1>1, <1>3, PostTyped, SameThread DEF MouseOut
<1>4. CASE Button
  <2>1. PICK k \in Kinds : queue' = Append(queue, Post(k))
    BY <1>1, <1>4 DEF Button
  <2> QED
    BY <1>4, <2>1, PostTyped DEF Button
<1>5. CASE KeyPress
  <2>1. PICK k \in Kinds : queue' = Append(queue, Post(k))
    BY <1>1, <1>5 DEF KeyPress
  <2> QED
    BY <1>5, <2>1, PostTyped DEF KeyPress
<1>6. ASSUME NEW k \in {"side", "pointer"}, OtherInput(k) PROVE TypeThread'
  BY <1>1, <1>6, PostTyped DEF OtherInput
<1>7. CASE Poll
  BY <1>7, SameThread DEF Poll
<1>8. CASE IpcTask
  BY <1>8, UncleanTyped DEF IpcTask, Configure, NewSession
<1>9. CASE Get \/ Peek
  BY <1>9, TakeTyped
<1>10. CASE ReadMove \/ ReadLeave \/ ReadDown \/ ReadUp \/ ReadOther
  BY <1>10, ReadTyped DEF ReadMove, ReadLeave, ReadDown, ReadUp, ReadOther
<1>11. CASE FilterBlocked \/ FilterPass
  BY <1>11, FilterTyped
<1>12. CASE Ime
  BY <1>12, SameThread DEF Ime, ImeStart, ImeCancel, ImeCompose, ImeResult, ImeEnd, Sent
<1>13. CASE UNCHANGED vars
  BY <1>13, SameThread DEF vars
<1> QED
  BY <1>2, <1>3, <1>4, <1>5, <1>6, <1>7, <1>8, <1>9, <1>10, <1>11, <1>12, <1>13
     DEF Next, User, Handle

LEMMA UserTyped == TypeUser /\ [Next]_vars => TypeUser'
<1> SUFFICES ASSUME TypeUser, [Next]_vars PROVE TypeUser'
  OBVIOUS
<1>1. CASE User
  BY <1>1 DEF User, MouseMove, MouseOut, Button, KeyPress, OtherInput, Poll, TypeUser
<1>2. CASE IpcTask
  <2>1. {} \in SUBSET {Cursor, Keyboard}
    OBVIOUS
  <2> QED
    BY <1>2, <2>1 DEF IpcTask, Configure, NewSession, TypeUser
<1>3. CASE Get \/ Peek
  BY <1>3 DEF Get, Peek, TypeUser
<1>4. CASE ReadMove \/ ReadLeave \/ ReadDown \/ ReadUp \/ ReadOther
  BY <1>4 DEF ReadMove, ReadLeave, ReadDown, ReadUp, ReadOther, Step, TypeUser
<1>5. CASE FilterBlocked \/ FilterPass
  BY <1>5 DEF FilterBlocked, FilterPass, TypeUser
<1>6. CASE Ime
  BY <1>6 DEF Ime, ImeStart, ImeCancel, ImeCompose, ImeResult, ImeEnd, Sent, TypeUser
<1>7. CASE UNCHANGED vars
  BY <1>7 DEF vars, TypeUser
<1> QED
  BY <1>1, <1>2, <1>3, <1>4, <1>5, <1>6, <1>7 DEF Next, Handle

LEMMA IncType == \A n \in 0 .. MaxClicks : Inc(n) \in 1 .. MaxClicks /\ Inc(n) >= n
BY DEF Inc

LEMMA MouseTyped ==
  TypeThread /\ TypeMouse /\ TypePast /\ [Next]_vars => TypeMouse' /\ TypePast'
<1> SUFFICES ASSUME TypeThread, TypeMouse, TypePast, [Next]_vars PROVE TypeMouse' /\ TypePast'
  OBVIOUS
<1>1. ASSUME UNCHANGED <<mouse, past>> PROVE TypeMouse' /\ TypePast'
  BY <1>1 DEF mouse, past, TypeMouse, TypePast
<1>2. CASE MouseMove
  BY <1>2 DEF MouseMove, TypeMouse, TypePast, past
<1>3. CASE MouseOut
  BY <1>3 DEF MouseOut, TypeMouse, TypePast, past
<1>4. CASE Button
  BY <1>4 DEF Button, TypeMouse, TypePast, past
<1>5. CASE KeyPress \/ Poll \/ \E k \in {"side", "pointer"} : OtherInput(k)
  BY <1>1, <1>5 DEF KeyPress, Poll, OtherInput
<1>6. ASSUME NEW b \in BOOLEAN, NEW l, Configure(b, l) PROVE TypeMouse' /\ TypePast'
  <2>1. (cIn /\ ~b /\ Cursor \notin l) \in BOOLEAN
    OBVIOUS
  <2>2. parted' \in BOOLEAN
    BY <1>6, <2>1, Zenon DEF Configure
  <2> QED
    BY <1>6, <2>2 DEF Configure, mouse, TypeMouse, TypePast
<1>7. CASE NewSession
  <2>1. (clicks > 0) \in BOOLEAN
    OBVIOUS
  <2>2. carried' \in BOOLEAN
    BY <1>7, <2>1, Zenon DEF NewSession
  <2>3. 0 \in 0 .. MaxClicks
    OBVIOUS
  <2> HIDE CaptureAssumption
  <2> QED
    BY <1>7, <2>2, <2>3 DEF NewSession, TypeMouse, TypePast
<1>8. CASE Get \/ Peek
  BY <1>1, <1>8 DEF Get, Peek
<1>9. CASE ReadMove
  BY <1>9 DEF ReadMove, TypeMouse, TypePast
<1>10. CASE ReadLeave
  <2>1. /\ hovering' \in {hovering, FALSE} /\ cIn' \in {cIn, FALSE} /\ stale' \in {stale, FALSE}
        /\ unheard' = (unheard \/ ~Reported) /\ parted' \in {parted, FALSE}
        /\ UNCHANGED <<inside, tracking, held, capture, clicks, cClicks, lost, carried>>
    BY <1>10 DEF ReadLeave
  <2> QED
    BY <2>1 DEF TypeMouse, TypePast
<1>11. CASE ReadDown
  <2>1. CASE Reported
    <3>1. PICK near \in BOOLEAN :
            /\ clicks' = ClickCount(near)
            /\ carried' = (carried /\ near)
            /\ cClicks' = IF near THEN Inc(cClicks) ELSE 1
      BY <1>11, <2>1 DEF ReadDown
    <3>2. clicks' \in 0 .. MaxClicks /\ cClicks' \in 0 .. MaxClicks
      BY <3>1, IncType DEF ClickCount, TypeMouse
    <3> QED
      BY <1>11, <2>1, <3>1, <3>2 DEF ReadDown, TypeMouse, TypePast
  <2>2. CASE ~Reported
    BY <1>11, <2>2 DEF ReadDown, TypeMouse, TypePast
  <2> QED
    BY <2>1, <2>2
<1>12. CASE ReadUp
  BY <1>12 DEF ReadUp, TypeMouse, TypePast
<1>13. CASE ReadOther
  BY <1>1, <1>13 DEF ReadOther
<1>14. CASE FilterBlocked \/ FilterPass
  BY <1>1, <1>14 DEF FilterBlocked, FilterPass
<1>15. CASE Ime
  BY <1>1, <1>15 DEF Ime, ImeStart, ImeCancel, ImeCompose, ImeResult, ImeEnd, Sent
<1>16. CASE UNCHANGED vars
  BY <1>1, <1>16 DEF vars
<1> QED
  BY <1>2, <1>3, <1>4, <1>5, <1>6, <1>7, <1>8, <1>9, <1>10, <1>11, <1>12, <1>13, <1>14,
     <1>15, <1>16 DEF Next, User, IpcTask, Handle

LEMMA KeysTyped == TypeKeys /\ [Next]_vars => TypeKeys'
<1> SUFFICES ASSUME TypeKeys, [Next]_vars PROVE TypeKeys'
  OBVIOUS
<1>1. ASSUME UNCHANGED <<keys, hidden>> PROVE TypeKeys'
  BY <1>1 DEF keys, TypeKeys
<1>2. CASE User
  BY <1>1, <1>2
     DEF User, MouseMove, MouseOut, Button, KeyPress, OtherInput, Poll, Answer, TypeKeys
<1>3. CASE IpcTask
  BY <1>3 DEF IpcTask, Configure, NewSession, keys, TypeKeys
<1>4. CASE Get \/ Peek
  BY <1>1, <1>4 DEF Get, Peek
<1>5. CASE ReadMove \/ ReadLeave \/ ReadDown \/ ReadUp \/ ReadOther
  BY <1>1, <1>5 DEF ReadMove, ReadLeave, ReadDown, ReadUp, ReadOther
<1>6. CASE FilterBlocked
  BY <1>6 DEF FilterBlocked, TypeKeys
<1>7. CASE FilterPass
  BY <1>7 DEF FilterPass, TypeKeys
<1>8. CASE Ime
  BY <1>1, <1>8 DEF Ime, ImeStart, ImeCancel, ImeCompose, ImeResult, ImeEnd, Sent
<1>9. CASE UNCHANGED vars
  BY <1>1, <1>9 DEF vars
<1> QED
  BY <1>2, <1>3, <1>4, <1>5, <1>6, <1>7, <1>8, <1>9 DEF Next, Handle

LEMMA ImesTyped == TypeImes /\ [Next]_vars => TypeImes'
<1> SUFFICES ASSUME TypeImes, [Next]_vars PROVE TypeImes'
  OBVIOUS
<1>1. ASSUME UNCHANGED imes PROVE TypeImes'
  BY <1>1 DEF imes, TypeImes
<1>2. CASE User
  BY <1>1, <1>2 DEF User, MouseMove, MouseOut, Button, KeyPress, OtherInput, Poll
<1>3. CASE IpcTask
  BY <1>1, <1>3 DEF IpcTask, Configure, NewSession, TypeImes
<1>4. CASE Get \/ Peek
  BY <1>1, <1>4 DEF Get, Peek
<1>5. CASE Handle
  BY <1>1, <1>5
     DEF Handle, ReadMove, ReadLeave, ReadDown, ReadUp, ReadOther, FilterBlocked, FilterPass
<1>6. CASE Ime
  BY <1>6 DEF Ime, ImeStart, ImeCancel, ImeCompose, ImeResult, ImeEnd, Sent, TypeImes
<1>7. CASE UNCHANGED vars
  BY <1>1, <1>7 DEF vars
<1> QED
  BY <1>2, <1>3, <1>4, <1>5, <1>6, <1>7 DEF Next

LEMMA NextTyped == Typed /\ [Next]_vars => Typed'
BY UserTyped, ThreadTyped, MouseTyped, KeysTyped, ImesTyped DEF Typed
-----------------------------------------------------------------------------
(* How messages are divided.                                               *)

LEMMA SameShare ==
  ASSUME blocked' = blocked, listen' = listen, NEW k
  PROVE  Due(k)' = Due(k)
BY DEF Due

(* What read_message reports is the client's share.                        *)
LEMMA ReportedShare ==
  Due(cur.kind) \ {"app"} = IF Reported THEN {"client"} ELSE {}
<1>1. "app" # "client"
  OBVIOUS
<1> QED
  BY <1>1 DEF Due, Reported, Listening

(* The user, the IME and queries post no character and take no message.    *)
LEMMA DividingPost ==
  ASSUME TypeThread, Dividing, NEW k \in Kinds \ {"char"},
         queue' \in {queue, Append(queue, Post(k))},
         UNCHANGED <<blocked, listen, pc, cur, removed, told, was, fate>>
  PROVE  Dividing'
<1> DEFINE s == Due("char")
<1>1. Due("char")' = s
  BY DEF Due
<1>2. Post(k) \in Msg /\ Post(k).kind # "char"
  BY PostFacts
<1>3. Came(Post(k), s)
  BY <1>2 DEF Came
<1>4. queue \in Seq(Msg) /\ AllCame(queue, s)
  BY DEF TypeThread, Dividing
<1> HIDE DEF s
<1>5. AllCame(queue', s)
  BY <1>2, <1>3, <1>4, AppendCame
<1> QED
  BY <1>1, <1>5 DEF Dividing, Looked, Split, s

(* A change of what is blocked or listened to takes back every promise.    *)
LEMMA DividingUnclean ==
  ASSUME TypeThread, Dividing, queue' = Unclean(queue),
         cur' = Dirty(cur), fate' = NoMsg,
         UNCHANGED <<pc, removed, told, was>>
  PROVE  Dividing'
<1>1. (cur.kind = "char" => ~cur'.clean) /\ cur'.again = cur.again /\ cur'.kind = cur.kind
  BY DirtyFacts DEF TypeThread
<1>2. \A s : AllCame(queue', s) /\ Came(cur', s)
  BY <1>1, UncleanFacts DEF TypeThread, Came
<1> QED
  BY <1>1, <1>2 DEF Dividing, Looked

LEMMA DividingTake ==
  ASSUME TypeThread, Dividing, Get \/ Peek
  PROVE  Dividing'
<1> DEFINE s == Due("char")
<1>1. Due("char")' = s
  BY DEF Get, Peek, Due
<1>2. /\ queue \in Seq(Msg) /\ queue # <<>> /\ AllCame(queue, s) /\ Head(queue) \in Msg
      /\ fate' = NoMsg
  BY TailFacts DEF TypeThread, Dividing, Get, Peek
<1>3. Came(Head(queue), s) /\ AllCame(Tail(queue), s)
  BY <1>2, TailFacts
<1> HIDE DEF s
<1>4. CASE Get
  <2>1. /\ cur' = Head(queue) /\ queue' = Tail(queue) /\ pc' = "read" /\ removed'
    BY <1>4 DEF Get
  <2> QED
    BY <1>1, <1>2, <1>3, <2>1 DEF Dividing, s
<1>5. CASE Peek
  <2>1. /\ cur' \in Msg /\ cur'.kind = Head(queue).kind /\ cur'.again
        /\ queue' = <<cur'>> \o Tail(queue) /\ pc' = "filter" /\ ~removed' /\ told' = {}
        /\ cur'.clean = Head(queue).clean /\ cur'.got = Head(queue).got
    BY <1>2, <1>5, PeekFacts DEF Peek
  <2>2. AllCame(queue', s) /\ Came(cur', s)
    BY <1>2, <1>3, <2>1, PeekQueue DEF Came
  <2> QED
    BY <1>1, <1>2, <2>1, <2>2 DEF Dividing, s
<1> QED
  BY <1>4, <1>5

LEMMA DividingRead ==
  ASSUME TypeThread, Dividing, Step, Told, queue' \in {queue, Append(queue, Post("leave"))}
  PROVE  Dividing'
<1> DEFINE s == Due("char")
<1>1. /\ pc = "read" /\ pc' = "filter" /\ removed /\ fate = NoMsg
      /\ UNCHANGED <<blocked, listen, cur, removed, fate>>
  BY DEF Step, Dividing
<1>2. Due("char")' = s
  BY <1>1 DEF Due
<1>3. told' = was' \ {"app"} /\ was' = Due(cur.kind)
  BY ReportedShare DEF Told
<1>7. Looked(cur.kind)'
  <2>1. cur.kind \in Kinds
    BY <1>1, KindFacts DEF TypeThread
  <2> QED
    BY <1>1, <1>3, <2>1 DEF Looked, Due, Silent, Kinds
<1>4. "leave" \in Kinds /\ Post("leave") \in Msg /\ Came(Post("leave"), s)
  BY KindFacts, PostFacts DEF Came
<1>5. queue \in Seq(Msg) /\ AllCame(queue, s) /\ Came(cur, s)
  BY <1>1 DEF TypeThread, Dividing
<1> HIDE DEF s
<1>6. AllCame(queue', s)
  BY <1>4, <1>5, AppendCame
<1> QED
  BY <1>1, <1>2, <1>3, <1>5, <1>6, <1>7 DEF Dividing, s

(* The message goes where it was told to go, and so does its character.    *)
LEMMA DividingFilter ==
  ASSUME TypeUser, TypeThread, Dividing, FilterBlocked \/ FilterPass
  PROVE  Dividing'
<1> DEFINE s == Due("char")
<1>1. /\ pc = "filter" /\ pc' = "idle" /\ fate = NoMsg
      /\ UNCHANGED <<blocked, listen, cur, removed>>
      /\ cur \in Msg /\ cur.kind \in Kinds /\ cur # NoMsg
      /\ queue \in Seq(Msg) /\ AllCame(queue, s) /\ Came(cur, s)
      /\ told \in SUBSET {"app", "client"}
  BY KindFacts DEF FilterBlocked, FilterPass, TypeThread, Dividing
<1>2. FilterPass <=> ~blocked
  BY <1>1 DEF FilterBlocked, FilterPass, Target
<1>3. Due("char")' = s
  BY <1>1 DEF Due
<1>4. ASSUME removed PROVE Split' /\ Looked(cur.kind)
  <2>1. told = was \ {"app"} /\ Looked(cur.kind)
    BY <1>1, <1>4 DEF Dividing
  <2>2. IF blocked THEN told' = told ELSE told' = told \cup {"app"}
    BY <1>2, <1>4 DEF FilterBlocked, FilterPass
  <2>3. was' = was /\ blocked' = blocked
    BY <1>1 DEF FilterBlocked, FilterPass
  <2>4. told' = (was \ {"app"}) \cup (IF blocked THEN {} ELSE {"app"})
    BY <2>1, <2>2
  <2> QED
    BY <2>1, <2>3, <2>4 DEF Split
<1>5. fate' = IF removed THEN cur ELSE NoMsg
  BY <1>1 DEF FilterBlocked, FilterPass
<1>6. "app" \in s <=> ~blocked
  BY DEF Due
<1>7. ASSUME cur.kind = "key", removed \/ blocked
      PROVE  LET who == IF blocked THEN told ELSE told \cup {"app"}
             IN  Char(who) \in Msg /\ Came(Char(who), s)
  <2> DEFINE who == IF blocked THEN told ELSE told \cup {"app"}
  <2>1. who \in SUBSET {"app", "client"}
    BY <1>1
  <2>2. /\ Char(who) \in Msg /\ Char(who).got = who
        /\ Char(who).clean = (~removed \/ was = Due("key")) /\ Char(who).again = cur.again
    BY <1>1, <2>1, CharFacts
  <2>3. CASE ~removed
    <3>1. who = {} /\ cur.again /\ blocked
      BY <1>1, <1>7, <2>3 DEF Dividing
    <3> QED
      BY <1>6, <2>2, <3>1 DEF Came
  <2>4. CASE removed /\ was = Due("key")
    <3>1. was = s
      BY <2>4 DEF Due, CursorKinds, KeyKinds
    <3>2. told = was \ {"app"}
      BY <1>1, <2>4 DEF Dividing
    <3>3. who = s
      BY <1>6, <3>1, <3>2
    <3> QED
      BY <2>2, <3>3 DEF Came
  <2>5. CASE removed /\ was # Due("key")
    BY <2>2, <2>5 DEF Came
  <2> QED
    BY <2>3, <2>4, <2>5
<1>8. AllCame(queue', s)
  <2>1. CASE queue' = queue
    BY <1>1, <2>1
  <2>2. CASE cur.kind = "key" /\ (removed \/ blocked)
    <3>1. queue' = Append(queue, Char(IF blocked THEN told ELSE told \cup {"app"}))
      BY <1>2, <2>2 DEF FilterBlocked, FilterPass
    <3> HIDE DEF s
    <3> QED
      BY <1>1, <1>7, <2>2, <3>1, AppendCame
  <2>3. CASE cur.kind = "pointer" /\ blocked
    <3>1. queue' = queue \o <<Post("down"), Post("up")>>
      BY <1>2, <2>3 DEF FilterBlocked
    <3>2. queue' = Append(Append(queue, Post("down")), Post("up"))
      BY <1>1, <3>1, ConcatPost
    <3>3. /\ Post("down") \in Msg /\ Came(Post("down"), s)
          /\ Post("up") \in Msg /\ Came(Post("up"), s)
      BY KindFacts, PostFacts DEF Came
    <3> HIDE DEF s
    <3>4. Append(queue, Post("down")) \in Seq(Msg) /\ AllCame(Append(queue, Post("down")), s)
      BY <1>1, <3>3, AppendCame, AppendFacts
    <3> QED
      BY <3>2, <3>3, <3>4, AppendCame
  <2> QED
    BY <1>2, <2>1, <2>2, <2>3 DEF FilterBlocked, FilterPass
<1> HIDE DEF s
<1>9. was' = was /\ (removed /\ cur.kind = "char" /\ cur.clean => was = s)
  BY <1>1 DEF Dividing, FilterBlocked, FilterPass, s
<1>10. Looked(cur.kind)' <=> Looked(cur.kind)
  BY <1>1, <1>9 DEF Looked
<1> QED
  BY <1>1, <1>3, <1>4, <1>5, <1>8, <1>9, <1>10 DEF Dividing, s

LEMMA NextDividing == TypeUser /\ TypeThread /\ Dividing /\ [Next]_vars => Dividing'
<1> SUFFICES ASSUME TypeUser, TypeThread, Dividing, [Next]_vars PROVE Dividing'
  OBVIOUS
<1>1. {"move", "leave", "up", "down", "key", "keyup", "side", "pointer"} \subseteq Kinds \ {"char"}
  BY KindFacts
<1>2. CASE User
  <2>1. PICK k \in Kinds \ {"char"} : queue' \in {queue, Append(queue, Post(k))}
    BY <1>1, <1>2 DEF User, MouseMove, MouseOut, Button, KeyPress, OtherInput, Poll
  <2>2. UNCHANGED <<blocked, listen, pc, cur, removed, told, was, fate>>
    BY <1>2 DEF User, MouseMove, MouseOut, Button, KeyPress, OtherInput, Poll
  <2> QED
    BY <2>1, <2>2, DividingPost
<1>3. CASE IpcTask
  BY <1>3, DividingUnclean DEF IpcTask, Configure, NewSession
<1>4. CASE Get \/ Peek
  BY <1>4, DividingTake
<1>5. CASE ReadMove \/ ReadLeave \/ ReadDown \/ ReadUp \/ ReadOther
  BY <1>5, DividingRead DEF ReadMove, ReadLeave, ReadDown, ReadUp, ReadOther
<1>6. CASE FilterBlocked \/ FilterPass
  BY <1>6, DividingFilter
<1>7. CASE Ime \/ UNCHANGED vars
  <2>1. UNCHANGED <<queue, blocked, listen, pc, cur, removed, told, was, fate>>
    BY <1>7 DEF Ime, ImeStart, ImeCancel, ImeCompose, ImeResult, ImeEnd, Sent, vars
  <2> QED
    BY <1>1, <2>1, DividingPost
<1> QED
  BY <1>2, <1>3, <1>4, <1>5, <1>6, <1>7 DEF Next, Handle

LEMMA InitDividing == Init => Dividing
BY DEF Init, Dividing, AllCame, NoMsg
-----------------------------------------------------------------------------
(* The mouse.                                                              *)

Pointing == HoverAgrees /\ ClicksKnown /\ Leaves /\ Buttons

(* What reads nothing of the mouse only may add messages.                  *)
LEMMA PointingAside ==
  ASSUME Pointing, UNCHANGED <<mouse, stale, unheard, lost, carried>>,
         \A k \in {"down", "up", "leave"} : Reads(k)' <=> Reads(k),
         \A k \in {"up", "leave"} : Has(queue, k) => Has(queue', k),
         Ended(queue', "down", "up", held)
  PROVE  Pointing'
BY DEF Pointing, HoverAgrees, ClicksKnown, Leaves, Buttons, mouse, past

(* Which messages are in the queue after a post.                           *)
LEMMA PostPointing ==
  ASSUME TypeThread, Buttons, held \in BOOLEAN, NEW k \in Kinds, queue' = Append(queue, Post(k))
  PROVE  /\ \A h : Has(queue', h) <=> Has(queue, h) \/ h = k
         /\ k # "down" => Ended(queue', "down", "up", held)
         /\ k = "down" => Ended(queue', "down", "up", TRUE)
         /\ k = "up" => \A on \in BOOLEAN : Ended(queue', "down", "up", on)
<1>1. Post(k) \in Msg /\ Post(k).kind = k /\ queue \in Seq(Msg)
  BY PostFacts DEF TypeThread
<1>2. Ended(queue, "down", "up", held)
  BY DEF Buttons
<1>3. \A h : Has(queue', h) <=> Has(queue, h) \/ h = k
  BY <1>1, AppendHas
<1>4. k # "down" => Ended(queue', "down", "up", held)
  BY <1>1, <1>2, AppendEnded
<1>5. k = "down" => Ended(queue', "down", "up", TRUE)
  BY <1>1, <1>2, AppendEnded
<1>6. ASSUME k = "up", NEW on \in BOOLEAN PROVE Ended(queue', "down", "up", on)
  BY <1>1, <1>2, <1>6, AppendEnded
<1> QED
  BY <1>3, <1>4, <1>5, <1>6

LEMMA UserPointing == Typed /\ Pointing /\ User => Pointing'
<1> SUFFICES ASSUME Typed, Pointing, User PROVE Pointing'
  OBVIOUS
<1>1. /\ {"move", "leave", "up", "down", "key", "keyup", "side", "pointer"} \subseteq Kinds
      /\ TypeThread /\ Buttons /\ held \in BOOLEAN /\ tracking \in BOOLEAN
  BY KindFacts DEF Typed, TypeMouse, Pointing
<1>2. UNCHANGED <<pc, cur, past>>
  BY DEF User, MouseMove, MouseOut, Button, KeyPress, OtherInput, Poll
<1>3. \A k : Reads(k)' <=> Reads(k)
  BY <1>2 DEF Reads
<1>4. CASE MouseMove
  <2>1. /\ inside' /\ queue' = Append(queue, Post("move"))
        /\ UNCHANGED <<tracking, hovering, held, capture, clicks, cIn, cClicks>>
    BY <1>4 DEF MouseMove
  <2>2. (\A h : Has(queue, h) => Has(queue', h)) /\ Ended(queue', "down", "up", held)
    BY <1>1, <2>1, PostPointing
  <2> QED
    BY <1>2, <1>3, <2>1, <2>2 DEF Pointing, HoverAgrees, ClicksKnown, Leaves, Buttons, past
<1>5. CASE MouseOut
  <2>1. UNCHANGED <<hovering, held, capture, clicks, cIn, cClicks>>
    BY <1>5 DEF MouseOut
  <2>2. CASE queue' = Append(queue, Post("leave"))
    <3>1. /\ \A h : Has(queue, h) => Has(queue', h)
          /\ Has(queue', "leave") /\ Ended(queue', "down", "up", held)
      BY <1>1, <2>2, PostPointing
    <3> QED
      BY <1>2, <1>3, <2>1, <3>1 DEF Pointing, HoverAgrees, ClicksKnown, Leaves, Buttons, past
  <2>3. CASE ~tracking /\ queue' = queue
    BY <1>2, <1>3, <2>1, <2>3 DEF Pointing, HoverAgrees, ClicksKnown, Leaves, Buttons, past
  <2> QED
    BY <1>5, <2>2, <2>3 DEF MouseOut
<1>6. CASE Button
  <2>1. /\ held' = ~held /\ queue' = Append(queue, Post(IF held THEN "up" ELSE "down"))
        /\ UNCHANGED <<inside, tracking, hovering, capture, clicks, cIn, cClicks>>
    BY <1>6 DEF Button
  <2>2. CASE held
    <3>1. /\ \A h : Has(queue, h) => Has(queue', h)
          /\ Has(queue', "up") /\ \A on \in BOOLEAN : Ended(queue', "down", "up", on)
      BY <1>1, <2>1, <2>2, PostPointing
    <3>2. held' = FALSE
      BY <2>1, <2>2
    <3>3. Ended(queue', "down", "up", held')
      BY <3>1, <3>2
    <3> QED
      BY <1>2, <1>3, <2>1, <3>1, <3>3
         DEF Pointing, HoverAgrees, ClicksKnown, Leaves, Buttons, past
  <2>3. CASE ~held
    <3>1. /\ \A h : Has(queue, h) => Has(queue', h)
          /\ Ended(queue', "down", "up", TRUE)
      BY <1>1, <2>1, <2>3, PostPointing
    <3>2. held' = TRUE
      BY <2>1, <2>3
    <3>3. Ended(queue', "down", "up", held')
      BY <3>1, <3>2
    <3> QED
      BY <1>2, <1>3, <2>1, <3>1, <3>2, <3>3
         DEF Pointing, HoverAgrees, ClicksKnown, Leaves, Buttons, past
  <2> QED
    BY <2>2, <2>3
<1>7. CASE KeyPress \/ \E k \in {"side", "pointer"} : OtherInput(k)
  <2>1. PICK k \in {"key", "keyup", "side", "pointer"} : queue' = Append(queue, Post(k))
    BY <1>7 DEF KeyPress, OtherInput
  <2>2. (\A h : Has(queue, h) => Has(queue', h)) /\ Ended(queue', "down", "up", held)
    BY <1>1, <2>1, PostPointing
  <2>3. UNCHANGED mouse
    BY <1>7 DEF KeyPress, OtherInput
  <2> QED
    BY <1>2, <1>3, <2>2, <2>3, PointingAside DEF past
<1>8. CASE Poll
  BY <1>2, <1>3, <1>8, PointingAside DEF Poll, Pointing, Buttons, past
<1> QED
  BY <1>4, <1>5, <1>6, <1>7, <1>8 DEF User

(* The queue keeps the kinds of its messages.                              *)
LEMMA IpcPointing == Typed /\ Pointing /\ IpcTask => Pointing'
<1> SUFFICES ASSUME Typed, Pointing, IpcTask PROVE Pointing'
  OBVIOUS
<1>1. queue' = Unclean(queue) /\ cur' = Dirty(cur) /\ pc' = pc
  BY DEF IpcTask, Configure, NewSession
<1>2. cur'.kind = cur.kind
  BY <1>1, DirtyFacts DEF Typed, TypeThread
<1>3. \A k : Reads(k)' <=> Reads(k)
  BY <1>1, <1>2 DEF Reads
<1>4. (\A k : Has(queue', k) <=> Has(queue, k)) /\ Ended(queue', "down", "up", held)
  <2>1. /\ DOMAIN queue' = DOMAIN queue
        /\ \A j \in DOMAIN queue : queue'[j].kind = queue[j].kind
        /\ Ended(queue, "down", "up", held) /\ held \in BOOLEAN
    BY <1>1, UncleanFacts DEF Typed, TypeThread, TypeMouse, Pointing, Buttons
  <2> QED
    BY <2>1, AlikeFacts
<1>5. ASSUME NEW b, NEW l, Configure(b, l) PROVE Pointing'
  BY <1>3, <1>4, <1>5, PointingAside DEF Configure
<1>6. CASE NewSession
  <2>1. /\ cIn' = FALSE /\ stale' = hovering /\ carried' = (clicks > 0) /\ cClicks' = 0
        /\ UNCHANGED <<inside, tracking, hovering, held, capture, clicks, unheard, lost>>
    BY <1>6 DEF NewSession
  <2>2. Leaves' /\ Buttons'
    BY <1>3, <1>4, <2>1 DEF Pointing, Leaves, Buttons
  <2>3. HoverAgrees'
    BY <2>1 DEF HoverAgrees, Typed, TypeMouse
  <2>4. ClicksKnown'
    <3>1. clicks \in 0 .. MaxClicks
      BY DEF Typed, TypeMouse
    <3>2. clicks <= 0 \/ clicks > 0
      BY <3>1
    <3> QED
      BY <2>1, <3>2 DEF ClicksKnown
  <2> QED
    BY <2>2, <2>3, <2>4 DEF Pointing
<1> QED
  BY <1>5, <1>6 DEF IpcTask

LEMMA TakePointing == Typed /\ Pointing /\ (Get \/ Peek) => Pointing'
<1> SUFFICES ASSUME Typed, Pointing, Get \/ Peek PROVE Pointing'
  OBVIOUS
<1>1. /\ queue \in Seq(Msg) /\ queue # <<>> /\ held \in BOOLEAN /\ pc = "idle"
      /\ Ended(queue, "down", "up", held)
      /\ UNCHANGED <<mouse, past>>
  BY DEF Typed, TypeThread, TypeMouse, Pointing, Buttons, Get, Peek
<1>2. Head(queue) \in Msg /\ \A k : ~Reads(k)
  BY <1>1, TailFacts DEF Reads
<1>3. CASE Get
  <2>1. cur' = Head(queue) /\ queue' = Tail(queue) /\ pc' = "read"
    BY <1>3 DEF Get
  <2>2. /\ \A k : Has(queue, k) => Reads(k)' \/ Has(queue', k)
        /\ Ended(queue', "down", "up", held)
        /\ Reads("down")' => held \/ Has(queue', "up")
    BY <1>1, <2>1, TailFacts DEF Reads
  <2> QED
    BY <1>1, <1>2, <2>2 DEF Pointing, HoverAgrees, ClicksKnown, Leaves, Buttons, mouse, past
<1>4. CASE Peek
  <2>1. /\ cur' \in Msg /\ cur'.kind = Head(queue).kind /\ cur'.again
        /\ queue' = <<cur'>> \o Tail(queue) /\ pc' = "filter"
    BY <1>2, <1>4, PeekFacts DEF Peek
  <2>2. DOMAIN queue' = DOMAIN queue /\ \A j \in DOMAIN queue : queue'[j].kind = queue[j].kind
    BY <1>1, <2>1, PeekQueue
  <2>3. (\A k : Has(queue', k) <=> Has(queue, k)) /\ Ended(queue', "down", "up", held)
    BY <1>1, <2>2, AlikeFacts
  <2>4. \A k : ~Reads(k)'
    BY <2>1 DEF Reads
  <2> QED
    BY <1>1, <1>2, <2>3, <2>4, PointingAside DEF past
<1> QED
  BY <1>3, <1>4

(* read_message keeps what it knows of the mouse.                          *)
LEMMA ReadPointing ==
  Typed /\ Pointing /\ (ReadMove \/ ReadLeave \/ ReadDown \/ ReadUp \/ ReadOther) => Pointing'
<1> SUFFICES ASSUME Typed, Pointing,
                    ReadMove \/ ReadLeave \/ ReadDown \/ ReadUp \/ ReadOther
             PROVE  Pointing'
  OBVIOUS
<1>1. /\ pc = "read" /\ pc' = "filter" /\ cur' = cur /\ cur \in Msg
      /\ \A k : ~Reads(k)'
      /\ \A k : Reads(k) <=> cur.kind = k
      /\ held \in BOOLEAN /\ hovering \in BOOLEAN /\ capture \in BOOLEAN
      /\ clicks \in 0 .. MaxClicks /\ cClicks \in 0 .. MaxClicks
      /\ cIn \in BOOLEAN /\ stale \in BOOLEAN
      /\ TypeThread /\ Buttons
  BY DEF ReadMove, ReadLeave, ReadDown, ReadUp, ReadOther, Step, Reads, Typed, TypeThread,
         TypeMouse, TypePast, Pointing
<1>2. CASE ReadMove
  <2>1. /\ cur.kind = "move" /\ UNCHANGED <<inside, held, capture, clicks, cClicks, lost, carried>>
    BY <1>2 DEF ReadMove
  <2>2. CASE Reported /\ ~hovering
    <3>1. /\ hovering' = TRUE /\ cIn' = TRUE /\ tracking' = inside /\ stale' = FALSE
          /\ queue' = IF inside THEN queue ELSE Append(queue, Post("leave"))
      BY <1>2, <2>2 DEF ReadMove
    <3>2. /\ \A k : Has(queue, k) => Has(queue', k)
          /\ Ended(queue', "down", "up", held)
          /\ inside \/ Has(queue', "leave")
      <4>1. CASE inside
        BY <1>1, <3>1, <4>1 DEF Buttons
      <4>2. CASE ~inside
        <5>1. "leave" \in Kinds /\ queue' = Append(queue, Post("leave"))
          BY <3>1, <4>2, KindFacts
        <5> QED
          BY <1>1, <5>1, PostPointing
      <4> QED
        BY <4>1, <4>2
    <3>3. Buttons' /\ Leaves'
      BY <1>1, <2>1, <3>1, <3>2 DEF Buttons, Leaves
    <3>4. HoverAgrees' /\ ClicksKnown'
      BY <2>1, <3>1 DEF Pointing, HoverAgrees, ClicksKnown
    <3> QED
      BY <3>3, <3>4 DEF Pointing
  <2>3. CASE ~(Reported /\ ~hovering)
    <3>1. UNCHANGED <<hovering, cIn, tracking, queue, stale, unheard>>
      BY <1>2, <2>3 DEF ReadMove
    <3> QED
      BY <1>1, <2>1, <3>1 DEF Pointing, HoverAgrees, ClicksKnown, Leaves, Buttons
  <2> QED
    BY <2>2, <2>3
<1>3. CASE ReadLeave
  <2>1. /\ cur.kind = "leave"
        /\ UNCHANGED <<queue, inside, tracking, held, capture, clicks, cClicks, lost, carried>>
        /\ unheard' = (unheard \/ ~Reported)
        /\ IF Reported THEN hovering' = FALSE /\ cIn' = FALSE /\ stale' = FALSE
                       ELSE UNCHANGED <<hovering, cIn, stale>>
    BY <1>3 DEF ReadLeave
  <2>2. Leaves' /\ Buttons'
    BY <1>1, <2>1 DEF Pointing, Leaves, Buttons
  <2>3. HoverAgrees'
    <3>1. CASE Reported
      BY <2>1, <3>1 DEF HoverAgrees
    <3>2. CASE ~Reported
      BY <2>1, <3>2 DEF Pointing, HoverAgrees
    <3> QED
      BY <3>1, <3>2
  <2>4. ClicksKnown'
    BY <2>1 DEF Pointing, ClicksKnown
  <2> QED
    BY <2>2, <2>3, <2>4 DEF Pointing
<1>4. CASE ReadDown
  <2>1. /\ cur.kind = "down"
        /\ UNCHANGED <<queue, inside, tracking, hovering, held, cIn, stale, unheard, lost>>
    BY <1>4 DEF ReadDown
  <2>2. Leaves' /\ Buttons'
    BY <1>1, <2>1 DEF Pointing, Leaves, Buttons
  <2>3. HoverAgrees'
    BY <2>1 DEF Pointing, HoverAgrees
  <2>4. ClicksKnown'
    <3>1. CASE Reported
      <4>1. PICK near \in BOOLEAN :
              /\ clicks' = ClickCount(near)
              /\ carried' = (carried /\ near)
              /\ cClicks' = IF near THEN Inc(cClicks) ELSE 1
        BY <1>4, <3>1 DEF ReadDown
      <4>2. CASE near
        <5>1. clicks <= cClicks => clicks' <= cClicks'
          BY <1>1, <4>1, <4>2 DEF ClickCount, Inc
        <5>2. carried' = carried
          BY <4>1, <4>2 DEF Typed, TypePast
        <5> QED
          BY <5>1, <5>2 DEF Pointing, ClicksKnown
      <4>3. CASE ~near
        BY <4>1, <4>3 DEF ClickCount, ClicksKnown
      <4> QED
        BY <4>2, <4>3
    <3>2. CASE ~Reported
      BY <1>4, <3>2 DEF ReadDown, ClicksKnown
    <3> QED
      BY <3>1, <3>2
  <2> QED
    BY <2>2, <2>3, <2>4 DEF Pointing
<1>5. CASE ReadUp
  <2>1. /\ cur.kind = "up"
        /\ capture' = (capture /\ ~Reported) /\ lost' = (~Reported /\ (lost \/ capture))
        /\ UNCHANGED <<queue, inside, tracking, hovering, held, clicks, cIn, cClicks, stale,
                       unheard, carried>>
    BY <1>5 DEF ReadUp
  <2>2. Leaves' /\ Buttons'
    BY <1>1, <2>1 DEF Pointing, Leaves, Buttons
  <2>3. HoverAgrees' /\ ClicksKnown'
    BY <2>1 DEF Pointing, HoverAgrees, ClicksKnown
  <2> QED
    BY <2>2, <2>3 DEF Pointing
<1>6. CASE ReadOther
  <2>1. /\ cur.kind \notin {"leave", "down", "up"} /\ UNCHANGED <<queue, mouse, past>>
    BY <1>6 DEF ReadOther, CursorKinds
  <2>2. Ended(queue', "down", "up", held)
    BY <1>1, <2>1 DEF Buttons
  <2> QED
    BY <1>1, <2>1, <2>2, PointingAside DEF past
<1> QED
  BY <1>2, <1>3, <1>4, <1>5, <1>6

(* A touch that is blocked comes back as a whole click.                    *)
LEMMA FilterPointing == Typed /\ Pointing /\ (FilterBlocked \/ FilterPass) => Pointing'
<1> SUFFICES ASSUME Typed, Pointing, FilterBlocked \/ FilterPass PROVE Pointing'
  OBVIOUS
<1>1. /\ pc = "filter" /\ pc' = "idle" /\ cur \in Msg /\ queue \in Seq(Msg)
      /\ UNCHANGED <<mouse, past>> /\ held \in BOOLEAN /\ Ended(queue, "down", "up", held)
      /\ told \in SUBSET {"app", "client"}
  BY DEF Typed, TypeThread, TypeMouse, Pointing, Buttons, FilterBlocked, FilterPass
<1>2. \A k : ~Reads(k) /\ ~Reads(k)'
  BY <1>1 DEF Reads
<1>3. (\A k : Has(queue, k) => Has(queue', k)) /\ Ended(queue', "down", "up", held)
  <2>1. CASE queue' = queue
    BY <1>1, <2>1
  <2>2. ASSUME NEW who \in SUBSET {"app", "client"}, queue' = Append(queue, Char(who))
        PROVE  (\A k : Has(queue, k) => Has(queue', k)) /\ Ended(queue', "down", "up", held)
    <3>1. Char(who) \in Msg /\ Char(who).kind = "char"
      BY <1>1, CharFacts
    <3> QED
      BY <1>1, <2>2, <3>1, AppendHas, AppendEnded
  <2>3. CASE queue' = queue \o <<Post("down"), Post("up")>>
    <3> DEFINE q == Append(queue, Post("down"))
    <3>1. /\ Post("down") \in Msg /\ Post("down").kind = "down"
          /\ Post("up") \in Msg /\ Post("up").kind = "up"
      BY KindFacts, PostFacts
    <3>2. queue' = Append(q, Post("up"))
      BY <1>1, <2>3, ConcatPost
    <3>3. q \in Seq(Msg)
      BY <1>1, <3>1, AppendFacts
    <3>4. Ended(q, "down", "up", TRUE)
      BY <1>1, <3>1, AppendEnded
    <3>5. \A k : Has(queue, k) => Has(q, k)
      BY <1>1, <3>1, AppendHas
    <3> HIDE DEF q
    <3>6. Ended(queue', "down", "up", held)
      BY <1>1, <3>1, <3>2, <3>3, <3>4, AppendEnded
    <3>7. \A k : Has(queue, k) => Has(queue', k)
      BY <3>1, <3>2, <3>3, <3>5, AppendHas
    <3> QED
      BY <3>6, <3>7
  <2>4. told \cup {"app"} \in SUBSET {"app", "client"}
    BY <1>1
  <2> HIDE DEF Char, Post
  <2> QED
    BY <1>1, <2>1, <2>2, <2>3, <2>4 DEF FilterBlocked, FilterPass
<1> QED
  BY <1>1, <1>2, <1>3, PointingAside DEF past

LEMMA NextPointing == Typed /\ Pointing /\ [Next]_vars => Pointing'
<1> SUFFICES ASSUME Typed, Pointing, [Next]_vars PROVE Pointing'
  OBVIOUS
<1>1. CASE Ime \/ UNCHANGED vars
  <2>1. UNCHANGED <<queue, pc, cur, mouse, past>>
    BY <1>1 DEF Ime, ImeStart, ImeCancel, ImeCompose, ImeResult, ImeEnd, Sent, vars
  <2>2. Ended(queue', "down", "up", held) /\ \A k : Reads(k)' <=> Reads(k)
    BY <2>1 DEF Pointing, Buttons, Reads
  <2> QED
    BY <2>1, <2>2, PointingAside DEF past
<1> QED
  BY <1>1, UserPointing, IpcPointing, TakePointing, ReadPointing, FilterPointing
     DEF Next, Handle

LEMMA InitPointing == Init => Pointing
<1> SUFFICES ASSUME Init PROVE Pointing
  OBVIOUS
<1>1. HoverAgrees /\ Leaves
  BY DEF Init, HoverAgrees, Leaves
<1>2. ClicksKnown
  BY DEF Init, ClicksKnown
<1>3. Buttons
  BY DEF Init, Buttons, Ended, Reads
<1> QED
  BY <1>1, <1>2, <1>3 DEF Pointing
-----------------------------------------------------------------------------
(* The key.                                                                *)

LEMMA KeysAside ==
  ASSUME KeysKnown, UNCHANGED keys, hidden' => hidden /\ blocked' = blocked,
         Handles("key")' => Handles("key"),
         Has(queue, "keyup") \/ Handles("keyup") => Has(queue', "keyup") \/ Handles("keyup")',
         Has(queue, "keyup") => Has(queue', "keyup"),
         Ended(queue', "key", "keyup", key)
  PROVE  KeysKnown'
BY DEF KeysKnown, Releases, keys

LEMMA PostKeys ==
  ASSUME TypeThread, KeysKnown, key \in BOOLEAN, NEW k \in Kinds, queue' = Append(queue, Post(k))
  PROVE  /\ \A h : Has(queue', h) <=> Has(queue, h) \/ h = k
         /\ k # "key" => Ended(queue', "key", "keyup", key)
         /\ k = "key" => Ended(queue', "key", "keyup", TRUE)
         /\ k = "keyup" => \A on \in BOOLEAN : Ended(queue', "key", "keyup", on)
<1>1. Post(k) \in Msg /\ Post(k).kind = k /\ queue \in Seq(Msg)
  BY PostFacts DEF TypeThread
<1>2. Ended(queue, "key", "keyup", key)
  BY DEF KeysKnown
<1>3. \A h : Has(queue', h) <=> Has(queue, h) \/ h = k
  BY <1>1, AppendHas
<1>4. k # "key" => Ended(queue', "key", "keyup", key)
  BY <1>1, <1>2, AppendEnded
<1>5. k = "key" => Ended(queue', "key", "keyup", TRUE)
  BY <1>1, <1>2, AppendEnded
<1>6. ASSUME k = "keyup", NEW on \in BOOLEAN PROVE Ended(queue', "key", "keyup", on)
  BY <1>1, <1>2, <1>6, AppendEnded
<1> QED
  BY <1>3, <1>4, <1>5, <1>6

LEMMA UserKeys == Typed /\ KeysKnown /\ User => KeysKnown'
<1> SUFFICES ASSUME Typed, KeysKnown, User PROVE KeysKnown'
  OBVIOUS
<1>1. /\ {"move", "leave", "up", "down", "key", "keyup", "side", "pointer"} \subseteq Kinds
      /\ TypeThread /\ key \in BOOLEAN /\ blocked \in BOOLEAN
  BY KindFacts DEF Typed, TypeKeys, TypeUser
<1>2. UNCHANGED <<pc, cur, removed, blocked>>
  BY DEF User, MouseMove, MouseOut, Button, KeyPress, OtherInput, Poll
<1>3. \A k : Handles(k)' <=> Handles(k)
  BY <1>2 DEF Handles
<1>4. CASE MouseMove \/ MouseOut \/ Button \/ \E k \in {"side", "pointer"} : OtherInput(k)
  <2>1. UNCHANGED <<keys, hidden>>
    BY <1>4 DEF MouseMove, MouseOut, Button, OtherInput
  <2>2. /\ \A h : Has(queue, h) => Has(queue', h)
        /\ Ended(queue', "key", "keyup", key)
    <3>1. CASE queue' = queue
      BY <3>1 DEF KeysKnown
    <3>2. ASSUME NEW k \in {"move", "leave", "up", "down", "side", "pointer"},
                 queue' = Append(queue, Post(k))
          PROVE  (\A h : Has(queue, h) => Has(queue', h)) /\ Ended(queue', "key", "keyup", key)
      BY <1>1, <3>2, PostKeys
    <3> QED
      BY <1>4, <3>1, <3>2 DEF MouseMove, MouseOut, Button, OtherInput
  <2> QED
    BY <1>2, <1>3, <2>1, <2>2, KeysAside
<1>5. CASE KeyPress
  <2>1. /\ key' = ~key /\ queue' = Append(queue, Post(IF key THEN "keyup" ELSE "key"))
        /\ hidden' = (blocked /\ ~key) /\ UNCHANGED <<appKey, stuck>>
    BY <1>5 DEF KeyPress
  <2>2. CASE key
    <3>1. /\ Has(queue', "keyup") /\ \A on \in BOOLEAN : Ended(queue', "key", "keyup", on)
      BY <1>1, <2>1, <2>2, PostKeys
    <3>2. key' \in BOOLEAN /\ ~hidden'
      BY <2>1, <2>2
    <3>3. Ended(queue', "key", "keyup", key')
      BY <3>1, <3>2
    <3> QED
      BY <3>1, <3>2, <3>3 DEF KeysKnown, Releases
  <2>3. CASE ~key
    <3>1. /\ \A h : Has(queue, h) => Has(queue', h)
          /\ Ended(queue', "key", "keyup", TRUE)
      BY <1>1, <2>1, <2>3, PostKeys
    <3>2. key' = TRUE /\ (hidden' => blocked')
      BY <1>2, <2>1, <2>3
    <3>3. Ended(queue', "key", "keyup", key')
      BY <3>1, <3>2
    <3>4. Releases => Releases'
      BY <1>3, <2>1, <3>1 DEF Releases
    <3> QED
      BY <2>1, <2>3, <3>2, <3>3, <3>4 DEF KeysKnown
  <2> QED
    BY <2>2, <2>3
<1>6. CASE Poll
  <2>1. appKey' = (key /\ ~blocked) /\ UNCHANGED <<queue, key, hidden>>
    BY <1>6 DEF Poll, Answer
  <2>2. (appKey' => key') /\ (hidden' => blocked' /\ ~appKey')
    BY <1>2, <2>1 DEF KeysKnown
  <2>3. Ended(queue', "key", "keyup", key') /\ (Handles("key")' => key' \/ Has(queue', "keyup"))
    BY <1>3, <2>1 DEF KeysKnown
  <2> QED
    BY <2>2, <2>3 DEF KeysKnown
<1> QED
  BY <1>4, <1>5, <1>6 DEF User

LEMMA IpcKeys == Typed /\ KeysKnown /\ IpcTask => KeysKnown'
<1> SUFFICES ASSUME Typed, KeysKnown, IpcTask PROVE KeysKnown'
  OBVIOUS
<1>1. /\ queue' = Unclean(queue) /\ cur' = Dirty(cur) /\ ~hidden'
      /\ UNCHANGED <<pc, removed, keys>>
  BY DEF IpcTask, Configure, NewSession
<1>2. cur'.kind = cur.kind
  BY <1>1, DirtyFacts DEF Typed, TypeThread
<1>3. \A k : Handles(k)' <=> Handles(k)
  BY <1>1, <1>2 DEF Handles
<1>4. (\A k : Has(queue', k) <=> Has(queue, k)) /\ Ended(queue', "key", "keyup", key)
  <2>1. /\ DOMAIN queue' = DOMAIN queue
        /\ \A j \in DOMAIN queue : queue'[j].kind = queue[j].kind
        /\ Ended(queue, "key", "keyup", key) /\ key \in BOOLEAN
    BY <1>1, UncleanFacts DEF Typed, TypeThread, TypeKeys, KeysKnown
  <2> QED
    BY <2>1, AlikeFacts
<1> QED
  BY <1>1, <1>3, <1>4, KeysAside

LEMMA TakeKeys == Typed /\ KeysKnown /\ (Get \/ Peek) => KeysKnown'
<1> SUFFICES ASSUME Typed, KeysKnown, Get \/ Peek PROVE KeysKnown'
  OBVIOUS
<1>1. /\ queue \in Seq(Msg) /\ queue # <<>> /\ key \in BOOLEAN /\ pc = "idle"
      /\ Ended(queue, "key", "keyup", key)
      /\ UNCHANGED <<keys, hidden, blocked>>
  BY DEF Typed, TypeThread, TypeKeys, KeysKnown, Get, Peek
<1>2. Head(queue) \in Msg /\ \A k : ~Handles(k)
  BY <1>1, TailFacts DEF Handles
<1>3. CASE Get
  <2>1. cur' = Head(queue) /\ queue' = Tail(queue) /\ pc' = "read" /\ removed' = TRUE
    BY <1>3 DEF Get
  <2>2. /\ \A k : Has(queue, k) => Handles(k)' \/ Has(queue', k)
        /\ Ended(queue', "key", "keyup", key)
        /\ Handles("key")' => key \/ Has(queue', "keyup")
    BY <1>1, <2>1, TailFacts DEF Handles
  <2>3. Releases => Releases'
    BY <1>1, <1>2, <2>2 DEF Releases, keys
  <2> QED
    BY <1>1, <2>2, <2>3 DEF KeysKnown, keys
<1>4. CASE Peek
  <2>1. /\ cur' \in Msg /\ cur'.kind = Head(queue).kind /\ cur'.again
        /\ queue' = <<cur'>> \o Tail(queue) /\ ~removed'
    BY <1>2, <1>4, PeekFacts DEF Peek
  <2>2. DOMAIN queue' = DOMAIN queue /\ \A j \in DOMAIN queue : queue'[j].kind = queue[j].kind
    BY <1>1, <2>1, PeekQueue
  <2>3. (\A k : Has(queue', k) <=> Has(queue, k)) /\ Ended(queue', "key", "keyup", key)
    BY <1>1, <2>2, AlikeFacts
  <2>4. \A k : ~Handles(k)'
    BY <2>1 DEF Handles
  <2> QED
    BY <1>1, <1>2, <2>3, <2>4, KeysAside
<1> QED
  BY <1>3, <1>4

LEMMA ReadKeys ==
  Typed /\ KeysKnown /\ (ReadMove \/ ReadLeave \/ ReadDown \/ ReadUp \/ ReadOther) => KeysKnown'
<1> SUFFICES ASSUME Typed, KeysKnown,
                    ReadMove \/ ReadLeave \/ ReadDown \/ ReadUp \/ ReadOther
             PROVE  KeysKnown'
  OBVIOUS
<1>1. /\ pc = "read" /\ pc' = "filter" /\ UNCHANGED <<cur, blocked, keys, hidden>>
      /\ queue' \in {queue, Append(queue, Post("leave"))}
      /\ TypeThread /\ key \in BOOLEAN /\ "leave" \in Kinds
  BY KindFacts
     DEF ReadMove, ReadLeave, ReadDown, ReadUp, ReadOther, Step, Typed, TypeKeys
<1>2. removed' = removed
  BY DEF ReadMove, ReadLeave, ReadDown, ReadUp, ReadOther, Step
<1>3. \A k : Handles(k)' <=> Handles(k)
  BY <1>1, <1>2 DEF Handles
<1>4. (\A h : Has(queue, h) => Has(queue', h)) /\ Ended(queue', "key", "keyup", key)
  <2>1. CASE queue' = queue
    BY <2>1 DEF KeysKnown
  <2>2. CASE queue' = Append(queue, Post("leave"))
    BY <1>1, <2>2, PostKeys
  <2> QED
    BY <1>1, <2>1, <2>2
<1> QED
  BY <1>1, <1>3, <1>4, KeysAside

(* A press goes to the application only while its release is known to come. *)
LEMMA FilterKeys == Typed /\ KeysKnown /\ (FilterBlocked \/ FilterPass) => KeysKnown'
<1> SUFFICES ASSUME Typed, KeysKnown, FilterBlocked \/ FilterPass PROVE KeysKnown'
  OBVIOUS
<1>1. /\ pc = "filter" /\ pc' = "idle" /\ cur \in Msg /\ cur.kind \in Kinds /\ queue \in Seq(Msg)
      /\ UNCHANGED <<blocked, key, hidden>> /\ key \in BOOLEAN
      /\ Ended(queue, "key", "keyup", key)
      /\ told \in SUBSET {"app", "client"} /\ told \cup {"app"} \in SUBSET {"app", "client"}
  BY KindFacts DEF Typed, TypeThread, TypeKeys, KeysKnown, FilterBlocked, FilterPass
<1>2. \A k : ~Handles(k)' /\ (Handles(k) <=> removed /\ cur.kind = k)
  BY <1>1 DEF Handles
<1>3. (\A k : Has(queue, k) => Has(queue', k)) /\ Ended(queue', "key", "keyup", key)
  <2>1. CASE queue' = queue
    BY <1>1, <2>1
  <2>2. ASSUME NEW who \in SUBSET {"app", "client"}, queue' = Append(queue, Char(who))
        PROVE  (\A k : Has(queue, k) => Has(queue', k)) /\ Ended(queue', "key", "keyup", key)
    <3>1. Char(who) \in Msg /\ Char(who).kind = "char"
      BY <1>1, CharFacts
    <3> QED
      BY <1>1, <2>2, <3>1, AppendHas, AppendEnded
  <2>3. CASE queue' = queue \o <<Post("down"), Post("up")>>
    <3> DEFINE q == Append(queue, Post("down"))
    <3>1. /\ Post("down") \in Msg /\ Post("down").kind = "down"
          /\ Post("up") \in Msg /\ Post("up").kind = "up"
      BY KindFacts, PostFacts
    <3>2. queue' = Append(q, Post("up"))
      BY <1>1, <2>3, ConcatPost
    <3>3. q \in Seq(Msg) /\ Ended(q, "key", "keyup", key)
      BY <1>1, <3>1, AppendFacts, AppendEnded
    <3>4. \A k : Has(queue, k) => Has(q, k)
      BY <1>1, <3>1, AppendHas
    <3> HIDE DEF q
    <3> QED
      BY <1>1, <3>1, <3>2, <3>3, <3>4, AppendEnded, AppendHas
  <2> HIDE DEF Char, Post
  <2> QED
    BY <1>1, <2>1, <2>2, <2>3 DEF FilterBlocked, FilterPass
<1>4. CASE FilterBlocked
  <2>1. /\ blocked /\ appKey' = appKey
        /\ stuck' = (stuck \/ (blocked /\ removed /\ cur.kind = "keyup" /\ appKey))
    BY <1>4 DEF FilterBlocked
  <2>2. appKey /\ Releases => Releases'
    BY <1>2, <1>3, <2>1 DEF Releases
  <2> QED
    BY <1>1, <1>2, <1>3, <2>1, <2>2 DEF KeysKnown
<1>5. CASE FilterPass
  <2>1. ~hidden'
    BY <1>1, <1>5 DEF FilterPass, Target, KeysKnown
  <2>2. CASE ~removed
    <3>1. UNCHANGED <<appKey, stuck>>
      BY <1>5, <2>2 DEF FilterPass
    <3>2. Releases => Releases'
      BY <1>2, <1>3, <2>2, <3>1 DEF Releases
    <3> QED
      BY <1>1, <1>2, <1>3, <2>1, <3>1, <3>2 DEF KeysKnown
  <2>3. CASE removed /\ cur.kind = "key"
    <3>1. key \/ Has(queue, "keyup")
      BY <1>2, <2>3 DEF KeysKnown
    <3> QED
      BY <1>1, <1>2, <1>3, <2>1, <3>1 DEF KeysKnown, Releases
  <2>4. CASE removed /\ cur.kind = "keyup"
    <3>1. ~appKey'
      BY <1>5, <2>4 DEF FilterPass
    <3> QED
      BY <1>1, <1>2, <1>3, <2>1, <3>1 DEF KeysKnown
  <2>5. CASE removed /\ cur.kind \notin {"key", "keyup"}
    <3>1. appKey' = appKey /\ (stuck => stuck')
      BY <1>5, <2>5 DEF FilterPass
    <3>2. Releases => Releases'
      BY <1>2, <1>3, <2>5, <3>1 DEF Releases
    <3> QED
      BY <1>1, <1>2, <1>3, <2>1, <3>1, <3>2 DEF KeysKnown
  <2> QED
    BY <2>2, <2>3, <2>4, <2>5
<1> QED
  BY <1>4, <1>5

LEMMA NextKeys == Typed /\ KeysKnown /\ [Next]_vars => KeysKnown'
<1> SUFFICES ASSUME Typed, KeysKnown, [Next]_vars PROVE KeysKnown'
  OBVIOUS
<1>1. CASE Ime \/ UNCHANGED vars
  <2>1. UNCHANGED <<queue, pc, cur, removed, blocked, keys, hidden>>
    BY <1>1 DEF Ime, ImeStart, ImeCancel, ImeCompose, ImeResult, ImeEnd, Sent, vars
  <2>2. Ended(queue', "key", "keyup", key) /\ \A k : Handles(k)' <=> Handles(k)
    BY <2>1 DEF KeysKnown, Handles
  <2> QED
    BY <2>1, <2>2, KeysAside
<1> QED
  BY <1>1, UserKeys, IpcKeys, TakeKeys, ReadKeys, FilterKeys DEF Next, Handle

LEMMA InitKeys == Init => KeysKnown
BY DEF Init, KeysKnown, Ended, Handles
-----------------------------------------------------------------------------
(* The composition.                                                        *)

LEMMA NextComposing == Typed /\ Composing /\ [Next]_vars => Composing'
<1> SUFFICES ASSUME Typed, Composing, [Next]_vars PROVE Composing'
  OBVIOUS
<1>1. ASSUME UNCHANGED <<comp, ime, failed>>, cIme' => cIme PROVE Composing'
  BY <1>1 DEF Composing
<1>2. CASE ImeStart
  BY <1>2 DEF ImeStart, Composing
<1>3. ASSUME NEW ok \in BOOLEAN, ImeCompose(ok) PROVE Composing'
  BY <1>3 DEF ImeCompose, Composing
<1>4. ASSUME NEW ok \in BOOLEAN, ImeResult(ok) PROVE Composing'
  BY <1>4 DEF ImeResult, Composing
<1>5. CASE ImeCancel
  BY <1>5 DEF ImeCancel, Composing
<1>6. ASSUME NEW ok \in BOOLEAN, ImeEnd(ok) PROVE Composing'
  BY <1>6 DEF ImeEnd, Composing
<1>7. CASE User
  BY <1>1, <1>7 DEF User, MouseMove, MouseOut, Button, KeyPress, OtherInput, Poll, imes
<1>8. CASE IpcTask
  BY <1>1, <1>8 DEF IpcTask, Configure, NewSession, imes
<1>9. CASE Get \/ Peek \/ Handle \/ UNCHANGED vars
  <2>1. ASSUME UNCHANGED imes PROVE Composing'
    BY <1>1, <2>1 DEF imes
  <2>2. CASE Get \/ Peek \/ UNCHANGED vars
    BY <2>1, <2>2 DEF Get, Peek, vars
  <2>3. CASE ReadMove \/ ReadLeave \/ ReadDown \/ ReadUp \/ ReadOther
    BY <2>1, <2>3 DEF ReadMove, ReadLeave, ReadDown, ReadUp, ReadOther
  <2>4. CASE FilterBlocked \/ FilterPass
    BY <2>1, <2>4 DEF FilterBlocked, FilterPass
  <2> QED
    BY <1>9, <2>2, <2>3, <2>4 DEF Handle
<1> QED
  BY <1>2, <1>3, <1>4, <1>5, <1>6, <1>7, <1>8, <1>9 DEF Next, Ime

LEMMA InitComposing == Init => Composing
BY DEF Init, Composing
-----------------------------------------------------------------------------
(* Every variable keeps its type.                                          *)
LEMMA TypeCorrect == Spec => []Typed
BY InitTyped, NextTyped, PTL DEF Spec

(***************************************************************************)
(* The messages of a window go to whom they are due, however often the     *)
(* application peeks before it removes one; both sides or nobody get one   *)
(* only as the settings changed between the two looks at it, or blocked    *)
(* input has no event.  A character goes where its press went.             *)
(***************************************************************************)
THEOREM MessagesStayDivided == Spec => []MessagesDivided
<1>1. Typed /\ Dividing => MessagesDivided
  <2> SUFFICES ASSUME Typed, Dividing PROVE Divided /\ CharFollowsKey
    BY TypedOK DEF MessagesDivided
  <2>1. Divided
    <3> SUFFICES ASSUME pc = "idle", fate # NoMsg
                 PROVE  /\ was = Due(fate.kind) => told = Due(fate.kind)
                        /\ told = {"app", "client"} => (was = told \/ (was = {"client"} /\ ~blocked))
                        /\ told = {} => (blocked /\ ("app" \in was \/ fate.kind \in Silent))
      BY DEF Divided
    <3>1. Split /\ Looked(fate.kind) /\ was \in SUBSET {"app", "client"}
      BY DEF Dividing, Typed, TypeThread
    <3>2. "app" \in Due(fate.kind) <=> ~blocked
      BY DEF Due
    <3>3. Due(fate.kind) \in SUBSET {"app", "client"}
      BY DEF Due
    <3>4. was = Due(fate.kind) => told = Due(fate.kind)
      BY <3>1, <3>2, <3>3 DEF Split
    <3>5. told = {"app", "client"} => (was = told \/ (was = {"client"} /\ ~blocked))
      BY <3>1 DEF Split
    <3>6. told = {} => (blocked /\ ("app" \in was \/ fate.kind \in Silent))
      BY <3>1 DEF Split, Looked
    <3> QED
      BY <3>4, <3>5, <3>6
  <2>2. CharFollowsKey
    <3> SUFFICES ASSUME pc = "idle", fate.kind = "char", fate.clean
                 PROVE  /\ fate.got \subseteq told
                        /\ told \subseteq fate.got \/ (fate.again /\ "app" \notin told)
      BY DEF CharFollowsKey
    <3>1. fate # NoMsg
      BY DEF NoMsg
    <3>2. Split /\ was = Due("char") /\ Came(fate, Due("char"))
      BY <3>1 DEF Dividing
    <3>3. told = Due("char")
      <4>1. "app" \in Due("char") <=> ~blocked
        BY DEF Due
      <4> QED
        BY <3>2, <4>1 DEF Split
    <3> QED
      BY <3>2, <3>3 DEF Came
  <2> QED
    BY <2>1, <2>2
<1>2. Typed /\ Dividing /\ [Next]_vars => Dividing'
  BY NextDividing DEF Typed
<1> QED
  BY <1>1, <1>2, TypeCorrect, InitDividing, PTL DEF Spec

(***************************************************************************)
(* What the overlay keeps of the mouse stays true of the mouse and of what *)
(* the client was told, whatever devices are used together.                *)
(***************************************************************************)
THEOREM PointerStaysTrue == Spec => []PointerAgrees
<1>1. Pointing => PointerAgrees
  <2> SUFFICES ASSUME Pointing PROVE LeaveComes /\ CaptureEnds
    BY DEF PointerAgrees, Pointing
  <2>1. \A k : Has(queue, k) \/ Reads(k) => Pending(k)
    BY DEF Has, Reads, Pending, Range
  <2> QED
    BY <2>1 DEF Pointing, LeaveComes, CaptureEnds, Leaves, Buttons
<1> QED
  BY <1>1, TypeCorrect, InitPointing, NextPointing, PTL DEF Spec

(***************************************************************************)
(* What the application believes of the key and the client of the          *)
(* composition comes from their messages only: a key it takes for pressed  *)
(* is pressed, or its release is on its way or was filtered; a press that  *)
(* was blocked stays unknown to it; and no composition outlives its end.   *)
(***************************************************************************)
THEOREM KeysStayTrue == Spec => []KeysAgree
<1>1. KeysKnown /\ Composing => KeysAgree
  <2> SUFFICES ASSUME KeysKnown, Composing PROVE KeysAgree
    OBVIOUS
  <2>1. Releases => Pending("keyup") \/ stuck
    BY DEF Releases, Has, Handles, Pending, Range
  <2>2. StuckOnlyByBlock /\ SecretPress
    BY <2>1 DEF KeysKnown, StuckOnlyByBlock, SecretPress
  <2>3. ImeClosed
    BY DEF Composing, ImeClosed
  <2> QED
    BY <2>2, <2>3 DEF KeysAgree
<1> QED
  BY <1>1, TypeCorrect, InitKeys, NextKeys, InitComposing, NextComposing, PTL DEF Spec
=============================================================================

------------------------- MODULE ApplicationProofs -------------------------
(***************************************************************************)
(* Theorems about what applications draw with: Producer, for every number  *)
(* of shapes, slots, textures and requests under way, and EguiRunner, for  *)
(* every set of surfaces, sizes and windows and every length of the        *)
(* channel.                                                                *)
(*                                                                         *)
(* The invariant of Producer follows the texture announced last.  It stays *)
(* in the ring for as many turns as the ring has slots less one: it lies   *)
(* as many slots behind the index as the ring has turned since (Kept).  So *)
(* it is there to be opened when its request is executed, and that request *)
(* is the last one unless requests overtook each other (InOrder).          *)
(*                                                                         *)
(* The invariant of EguiRunner says of every event that waits in the       *)
(* channel what is true already or told by a later event (ChannelInv).  So *)
(* what the runner holds after reading it is true, or another event waits  *)
(* that says better.  A Destroyed sent late, when its id has a new surface *)
(* already, says worse: such surfaces are the history variable late, which *)
(* only those of Direct3D 9 get into (OneThread).                          *)
(***************************************************************************)
EXTENDS Producer, EguiRunner, SequenceTheorems, TLAPS

(* Producer *)

Running == step \in {"lock", "write", "share"}

(* The running update writes the current texture of the ring, or one it    *)
(* made: that of a bitmap is in the ring already.                          *)
UpdateShape ==
  /\ Running => target # None /\ Len(pending) < MaxPending
  /\ step = "share" => fresh
  /\ fresh => Running
  /\ Running /\ ~fresh => ring[index] = target
  /\ Running /\ fresh => told # target
  /\ Running /\ fresh /\ kind = "bitmap" => ring[index] = target
  /\ Running /\ fresh /\ kind = "texture" => ring[index] = None

(* How many turns ago the slot p was the current one. *)
Turns(p) == IF p =< index THEN index - p ELSE index + Buffers - p

(* The texture announced last has its place in the ring. *)
Kept == told # None /\ \E p \in Slots : ring[p] = told /\ Turns(p) = rotated

Excused == hidden \/ lost

(* The current texture of the ring is the one announced last. *)
CurrentTold ==
  ring[index] # None =>
    Excused \/ (Running /\ fresh) \/ (ring[index] = told /\ rotated = 0)

(* So is the one last written, and it is in the ring unless that has been  *)
(* turned all around.                                                      *)
LatestKept ==
  latest # None => Excused \/ (latest = told /\ (rotated = Buffers \/ Kept))

(* The request sent last is that of the last announcement.                 *)
InOrder == ~overtaken /\ pending # <<>> => pending[Len(pending)] = told

Delivered == ~overtaken /\ pending = <<>> /\ Kept => opened = told

Follows == UpdateShape /\ CurrentTold /\ LatestKept /\ InOrder /\ Delivered

USE ProducerAssumption
-----------------------------------------------------------------------------
(* Operators.                                                              *)

LEMMA ModSmall == ASSUME NEW n \in Nat \ {0}, NEW x \in 0 .. n - 1 PROVE x % n = x
OBVIOUS

LEMMA ModNext ==
  ASSUME NEW n \in Nat \ {0}, NEW i \in 0 .. n - 1
  PROVE  (i + 1) % n = IF i + 1 = n THEN 0 ELSE i + 1
OBVIOUS

(* The current slot is one of the ring.                                    *)
LEMMA SlotsFact == TypeOK => index \in Nat /\ index < Buffers /\ 0 \in Slots
BY DEF TypeOK, Slots

(* A turn of the ring goes to the next slot and empties it.                *)
LEMMA TurnFacts ==
  ASSUME TypeOK, NEW s, Turn(s)
  PROVE  /\ Fits(s) => index' = index /\ rotated' = rotated /\ TextureFor(s) = ring
         /\ ~Fits(s) => /\ index' = IF index + 1 = Buffers THEN 0 ELSE index + 1
                        /\ rotated' = IF rotated = Buffers THEN rotated ELSE rotated + 1
                        /\ TextureFor(s) = [ring EXCEPT ![index'] = None]
         /\ index' \in Slots /\ rotated' \in 0 .. Buffers
         /\ TextureFor(s) \in [Slots -> Textures \cup {None}]
<1>1. Fits(s) => index' = index /\ rotated' = rotated /\ TextureFor(s) = ring
  BY DEF Turn, SlotFor, TextureFor
<1>2. ASSUME ~Fits(s)
      PROVE  /\ index' = IF index + 1 = Buffers THEN 0 ELSE index + 1
             /\ rotated' = IF rotated = Buffers THEN rotated ELSE rotated + 1
             /\ TextureFor(s) = [ring EXCEPT ![index'] = None]
  <2>1. index' = (index + 1) % Buffers
    BY <1>2 DEF Turn, SlotFor
  <2>2. index \in 0 .. Buffers - 1
    BY DEF TypeOK, Slots
  <2>3. index' = IF index + 1 = Buffers THEN 0 ELSE index + 1
    BY <2>1, <2>2, ModNext
  <2>4. TextureFor(s) = [ring EXCEPT ![index'] = None]
    BY <1>2 DEF Turn, TextureFor
  <2> QED
    BY <1>2, <2>3, <2>4 DEF Turn
<1>3. index' \in Slots /\ rotated' \in 0 .. Buffers
  <2>1. index \in 0 .. Buffers - 1 /\ rotated \in 0 .. Buffers
    BY DEF TypeOK, Slots
  <2>2. CASE Fits(s)
    BY <1>1, <2>1, <2>2 DEF Slots
  <2>3. CASE ~Fits(s)
    <3>1. index' \in Slots
      BY <1>2, <2>1, <2>3 DEF Slots
    <3>2. rotated' \in 0 .. Buffers
      BY <1>2, <2>1, <2>3
    <3> QED
      BY <3>1, <3>2
  <2> QED
    BY <2>2, <2>3
<1>4. TextureFor(s) \in [Slots -> Textures \cup {None}]
  BY <1>1, <1>2 DEF TypeOK
<1> QED
  BY <1>1, <1>2, <1>3, <1>4

(* A turn keeps the place of the texture announced last, until the turn    *)
(* that needs it; and it brings no texture back.                           *)
LEMMA TurnKeeps ==
  ASSUME TypeOK, NEW s, Turn(s), ~Fits(s), told' = told,
         \A p \in Slots \ {index'} : ring'[p] = ring[p], ring'[index'] # told \/ told = None
  PROVE  /\ Kept /\ rotated' # Buffers => Kept'
         /\ Kept' => Kept
<1>1. /\ index' = IF index + 1 = Buffers THEN 0 ELSE index + 1
      /\ rotated' = IF rotated = Buffers THEN rotated ELSE rotated + 1
      /\ index \in 0 .. Buffers - 1 /\ rotated \in 0 .. Buffers
  BY TurnFacts DEF TypeOK, Slots
<1>2. ASSUME Kept, rotated' # Buffers PROVE Kept'
  <2>1. PICK p \in Slots : ring[p] = told /\ Turns(p) = rotated
    BY <1>2 DEF Kept
  <2>2. p \in 0 .. Buffers - 1 /\ rotated + 1 < Buffers /\ rotated' = rotated + 1
    BY <1>1, <1>2 DEF Slots
  <2>3. p # index' /\ Turns(p)' = rotated'
    BY <1>1, <2>1, <2>2 DEF Turns
  <2> QED
    BY <1>2, <2>1, <2>3 DEF Kept
<1>3. ASSUME Kept' PROVE Kept
  <2>1. PICK p \in Slots : ring'[p] = told /\ Turns(p)' = rotated'
    BY <1>3 DEF Kept
  <2>2. p # index' /\ ring[p] = told /\ told # None
    BY <1>3, <2>1 DEF Kept
  <2>3. p \in 0 .. Buffers - 1
    BY DEF Slots
  <2>4. Turns(p)' < Buffers
    BY <1>1, <2>3 DEF Turns
  <2>5. rotated' = rotated + 1
    BY <1>1, <2>1, <2>4
  <2>6. Turns(p) = rotated
    BY <1>1, <2>1, <2>2, <2>3, <2>5 DEF Turns
  <2> QED
    BY <2>2, <2>6 DEF Kept
<1> QED
  BY <1>2, <1>3
-----------------------------------------------------------------------------
(* Type correctness.                                                       *)

LEMMA InitTypeOK == Init => TypeOK
<1> SUFFICES ASSUME Init PROVE TypeOK
  OBVIOUS
<1>1. <<>> \in Seq(Shapes) /\ <<>> \in Seq(0 .. 0) /\ Len(<<>>) = 0
  OBVIOUS
<1>2. ring \in [Slots -> Textures \cup {None}] /\ ToSet(ring) \subseteq 0 .. 0
  BY DEF Init, NoTextures, ToSet, None
<1> QED
  BY <1>1, <1>2 DEF Init, TypeOK, Slots, None

(* What has its type still has it when a texture is made.                  *)
LEMMA MakeType ==
  ASSUME TypeOK, NEW k \in {"bitmap", "texture"}, NEW s \in Shapes, Make(k, s)
  PROVE  TypeOK'
<1>1. /\ shapes' \in Seq(Shapes) /\ Len(shapes') = Len(shapes) + 1 /\ Len(shapes) \in Nat
      /\ Len(shapes) < MaxTextures
  BY AppendProperties, LenProperties DEF Make, TypeOK
<1>2. target' = Len(shapes) + 1 /\ target' \in Textures
  BY <1>1 DEF Make, Textures
<1>3. 0 .. Len(shapes) \subseteq 0 .. Len(shapes')
  BY <1>1
<1>4. /\ TextureFor(s) \in [Slots -> Textures \cup {None}]
      /\ index' \in Slots /\ rotated' \in 0 .. Buffers
  BY TurnFacts DEF Make
<1>5. \A i \in Slots : TextureFor(s)[i] \in 0 .. Len(shapes)
  <2>1. \A i \in Slots : ring[i] \in 0 .. Len(shapes)
    BY DEF TypeOK, ToSet
  <2> QED
    BY <1>1, <2>1 DEF TextureFor, TypeOK, None
<1>6. ring' \in {TextureFor(s), [TextureFor(s) EXCEPT ![index'] = target']}
  BY DEF Make
<1>7. ring' \in [Slots -> Textures \cup {None}]
  BY <1>2, <1>4, <1>6
<1>8. ToSet(ring') \subseteq 0 .. Len(shapes')
  <2>1. \A i \in Slots : ring'[i] \in 0 .. Len(shapes')
    BY <1>1, <1>2, <1>3, <1>4, <1>5, <1>6
  <2> QED
    BY <1>7, <2>1 DEF ToSet
<1>9. {target', opened', drawn', told', latest'} \subseteq 0 .. Len(shapes')
  BY <1>1, <1>2, <1>3 DEF Make, TypeOK, overlay
<1>10. pending' \in Seq(0 .. Len(shapes')) /\ Len(pending') <= MaxPending
  BY <1>3 DEF Make, TypeOK
<1>11. /\ session' \in {"direct", "none", "open"}
       /\ step' \in {"idle", "lock", "write", "share", "aborted"}
       /\ kind' \in {"bitmap", "texture"}
       /\ fresh' \in BOOLEAN /\ hidden' \in BOOLEAN /\ lost' \in BOOLEAN /\ overtaken' \in BOOLEAN
  BY DEF Make, TypeOK
<1>12. shapes' \in Seq(Shapes) /\ Len(shapes') <= MaxTextures
  <2> HIDE ProducerAssumption
  <2>1. MaxTextures \in Nat
    BY ProducerAssumption
  <2> QED
    BY <1>1, <2>1
<1> HIDE ProducerAssumption
<1> QED
  BY <1>4, <1>7, <1>8, <1>9, <1>10, <1>11, <1>12 DEF TypeOK

(* The other steps make no texture.                                        *)
LEMMA SameTextures ==
  ASSUME TypeOK, shapes' = shapes,
         session' \in {"direct", "none", "open"},
         ring' \in [Slots -> Textures \cup {None}],
         \A i \in Slots : ring'[i] \in 0 .. Len(shapes),
         index' \in Slots,
         step' \in {"idle", "lock", "write", "share", "aborted"},
         kind' \in {"bitmap", "texture"},
         {target', opened', drawn', told', latest'} \subseteq 0 .. Len(shapes),
         fresh' \in BOOLEAN, hidden' \in BOOLEAN, lost' \in BOOLEAN, overtaken' \in BOOLEAN,
         pending' \in Seq(0 .. Len(shapes)), Len(pending') <= MaxPending,
         rotated' \in 0 .. Buffers
  PROVE  TypeOK'
<1>1. ToSet(ring') \subseteq 0 .. Len(shapes)
  BY DEF ToSet
<1> QED
  BY <1>1 DEF TypeOK

LEMMA RingRange == TypeOK => \A i \in Slots : ring[i] \in 0 .. Len(shapes)
BY DEF TypeOK, ToSet

(* A request is added behind the others, or taken out from among them.     *)
LEMMA AppendPending ==
  ASSUME TypeOK, NEW u \in 0 .. Len(shapes), Len(pending) < MaxPending
  PROVE  /\ Append(pending, u) \in Seq(0 .. Len(shapes))
         /\ Len(Append(pending, u)) <= MaxPending
         /\ Append(pending, u) # <<>>
         /\ Append(pending, u)[Len(Append(pending, u))] = u
<1>1. pending \in Seq(0 .. Len(shapes)) /\ Len(pending) \in Nat
  BY LenProperties DEF TypeOK
<1> QED
  BY <1>1, AppendProperties

LEMMA RemovePending ==
  ASSUME TypeOK, NEW i \in DOMAIN pending
  PROVE  /\ RemoveAt(pending, i) \in Seq(0 .. Len(shapes))
         /\ Len(RemoveAt(pending, i)) = Len(pending) - 1
         /\ Len(pending) \in Nat \ {0}
         /\ i = 1 /\ Len(pending) > 1 =>
              RemoveAt(pending, i)[Len(pending) - 1] = pending[Len(pending)]
<1> DEFINE S == 0 .. Len(shapes)
           n == Len(pending)
           a == SubSeq(pending, 1, i - 1)
           b == SubSeq(pending, i + 1, n)
<1>1. pending \in Seq(S) /\ n \in Nat /\ DOMAIN pending = 1 .. n /\ i \in 1 .. n
  BY LenProperties DEF TypeOK
<1>2. \A j \in 1 .. n : pending[j] \in S
  BY <1>1, ElementOfSeq
<1>3. a \in Seq(S) /\ Len(a) = i - 1
  <2>1. 1 \in Int /\ i - 1 \in Int /\ \A j \in 1 .. i - 1 : pending[j] \in S
    BY <1>1, <1>2
  <2>2. a \in Seq(S) /\ Len(a) = IF 1 <= i - 1 THEN (i - 1) - 1 + 1 ELSE 0
    BY <2>1, SubSeqProperties
  <2> QED
    BY <1>1, <2>2
<1>4. /\ b \in Seq(S) /\ Len(b) = n - i
      /\ \A j \in 1 .. n - i : b[j] = pending[i + j]
  <2>1. i + 1 \in Int /\ n \in Int /\ \A j \in i + 1 .. n : pending[j] \in S
    BY <1>1, <1>2
  <2>2. /\ b \in Seq(S) /\ Len(b) = IF i + 1 <= n THEN n - (i + 1) + 1 ELSE 0
        /\ \A j \in 1 .. n - (i + 1) + 1 : b[j] = pending[(i + 1) + j - 1]
    BY <2>1, SubSeqProperties
  <2>3. n - (i + 1) + 1 = n - i /\ (i + 1 <= n \/ n - i = 0)
    BY <1>1
  <2>4. \A j \in 1 .. n - i : (i + 1) + j - 1 = i + j
    BY <1>1
  <2> HIDE DEF b, S, n
  <2>5. Len(b) = n - i
    BY <2>2, <2>3
  <2>6. \A j \in 1 .. n - i : b[j] = pending[i + j]
    BY <2>2, <2>3, <2>4
  <2> QED
    BY <2>2, <2>5, <2>6
<1> HIDE DEF a, b, S
<1>5. /\ a \o b \in Seq(S) /\ Len(a \o b) = n - 1
      /\ \A j \in 1 .. n - 1 : (a \o b)[j] = IF j <= Len(a) THEN a[j] ELSE b[j - Len(a)]
  <2>1. Len(a) + Len(b) = n - 1
    BY <1>1, <1>3, <1>4
  <2>2. /\ a \o b \in Seq(S) /\ Len(a \o b) = Len(a) + Len(b)
        /\ \A j \in 1 .. Len(a) + Len(b) :
             (a \o b)[j] = IF j <= Len(a) THEN a[j] ELSE b[j - Len(a)]
    BY <1>3, <1>4, ConcatProperties
  <2> QED
    BY <2>1, <2>2
<1>6. i = 1 /\ n > 1 => (a \o b)[n - 1] = pending[n]
  BY <1>1, <1>3, <1>4, <1>5
<1>7. RemoveAt(pending, i) = a \o b
  BY DEF RemoveAt, a, b
<1>8. n # 0
  BY <1>1
<1> QED
  BY <1>1, <1>5, <1>6, <1>7, <1>8 DEF S

(* Every other step leaves the textures made as they are.                  *)
LEMMA NextTypeOK == TypeOK /\ UpdateShape /\ [Next]_vars => TypeOK'
<1> SUFFICES ASSUME TypeOK, UpdateShape, [Next]_vars PROVE TypeOK'
  OBVIOUS
<1>1. /\ \A i \in Slots : ring[i] \in 0 .. Len(shapes)
      /\ pending \in Seq(0 .. Len(shapes)) /\ Len(pending) <= MaxPending
      /\ {target, opened, drawn, told, latest} \subseteq 0 .. Len(shapes)
      /\ None \in 0 .. Len(shapes) /\ 0 \in 0 .. Buffers
  BY RingRange, LenProperties DEF TypeOK, None
<1>2. /\ session \in {"direct", "none", "open"}
      /\ ring \in [Slots -> Textures \cup {None}]
      /\ index \in Slots /\ rotated \in 0 .. Buffers
      /\ step \in {"idle", "lock", "write", "share", "aborted"}
      /\ kind \in {"bitmap", "texture"}
      /\ fresh \in BOOLEAN /\ hidden \in BOOLEAN /\ lost \in BOOLEAN /\ overtaken \in BOOLEAN
  BY DEF TypeOK
<1>3. ASSUME NEW k \in {"bitmap", "texture"}, NEW s \in Shapes, Reuse(k, s) PROVE TypeOK'
  <2>1. /\ TextureFor(s) \in [Slots -> Textures \cup {None}]
        /\ index' \in Slots /\ rotated' \in 0 .. Buffers
    BY <1>3, TurnFacts DEF Reuse
  <2>2. \A i \in Slots : TextureFor(s)[i] \in 0 .. Len(shapes)
    BY <1>1, <1>2 DEF TextureFor
  <2>3. /\ ring' \in [Slots -> Textures \cup {None}]
        /\ \A i \in Slots : ring'[i] \in 0 .. Len(shapes)
        /\ target' \in 0 .. Len(shapes)
    BY <1>3, <2>1, <2>2 DEF Reuse
  <2> QED
    BY <1>1, <1>2, <1>3, <2>1, <2>3, SameTextures DEF Reuse, overlay
<1>4. ASSUME NEW k \in {"bitmap", "texture"}, NEW s \in Shapes, Make(k, s) PROVE TypeOK'
  BY <1>4, MakeType
<1>5. ASSUME NEW k \in {"bitmap", "texture"}, NEW s \in Shapes, MakeFails(k, s) PROVE TypeOK'
  <2>1. /\ TextureFor(s) \in [Slots -> Textures \cup {None}]
        /\ index' \in Slots /\ rotated' \in 0 .. Buffers
    BY <1>5, TurnFacts DEF MakeFails
  <2>2. \A i \in Slots : TextureFor(s)[i] \in 0 .. Len(shapes)
    BY <1>1, <1>2 DEF TextureFor
  <2> QED
    BY <1>1, <1>2, <1>5, <2>1, <2>2, SameTextures DEF MakeFails, overlay
<1>6. CASE Lock
  BY <1>1, <1>2, <1>6, SameTextures DEF Lock, overlay, history
<1>7. CASE Write
  BY <1>1, <1>2, <1>7, SameTextures DEF Write, overlay, history
<1>8. CASE Share
  <2>1. target \in Textures \cup {None}
    BY <1>1 DEF Textures, TypeOK, None
  <2>2. /\ ring' \in [Slots -> Textures \cup {None}]
        /\ \A i \in Slots : ring'[i] \in 0 .. Len(shapes)
    BY <1>1, <1>2, <1>8, <2>1 DEF Share
  <2>3. Len(pending) < MaxPending /\ target \in 0 .. Len(shapes)
    BY <1>1, <1>8 DEF Share, UpdateShape, Running
  <2>4. pending' \in Seq(0 .. Len(shapes)) /\ Len(pending') <= MaxPending
    BY <1>8, <2>3, AppendPending DEF Share, Announce
  <2> QED
    BY <1>1, <1>2, <1>8, <2>2, <2>4, SameTextures DEF Share, Announce, overlay
<1>9. CASE Empty
  BY <1>1, <1>2, <1>9, AppendPending, SameTextures DEF Empty, Announce, Ready, producer, overlay
<1>10. CASE Fail
  BY <1>1, <1>2, <1>10, SameTextures DEF Fail, overlay
<1>11. CASE Clear
  <2>1. /\ ring' \in [Slots -> Textures \cup {None}]
        /\ \A i \in Slots : ring'[i] \in 0 .. Len(shapes)
    BY <1>1, <1>11 DEF Clear, NoTextures
  <2> QED
    BY <1>1, <1>2, <1>11, <2>1, SameTextures, SlotsFact DEF Clear, overlay, history
<1>12. CASE StartCapture \/ StopCapture
  BY <1>1, <1>2, <1>12, SameTextures DEF StartCapture, StopCapture, producer, overlay, history
<1>13. ASSUME NEW i \in 1 .. MaxPending, Execute(i) PROVE TypeOK'
  <2>1. i \in DOMAIN pending /\ pending[i] \in 0 .. Len(shapes)
    BY <1>1, <1>13, LenProperties, ElementOfSeq DEF Execute
  <2>2. pending' \in Seq(0 .. Len(shapes)) /\ Len(pending') <= MaxPending
    BY <1>1, <1>13, <2>1, RemovePending DEF Execute
  <2>3. {target', opened', drawn', told', latest'} \subseteq 0 .. Len(shapes)
    BY <1>1, <1>13, <2>1 DEF Execute, producer
  <2> QED
    BY <1>1, <1>2, <1>13, <2>2, <2>3, SameTextures DEF Execute, producer, history
<1>14. CASE FrameStart \/ FrameEnd
  BY <1>1, <1>2, <1>14, SameTextures DEF FrameStart, FrameEnd, producer, history
<1>15. CASE UNCHANGED vars
  BY <1>1, <1>2, <1>15, SameTextures DEF vars, producer, overlay, history
<1> QED
  BY <1>3, <1>4, <1>5, <1>6, <1>7, <1>8, <1>9, <1>10, <1>11, <1>12, <1>13, <1>14, <1>15
     DEF Next, Begin, Proceed, LockFails, WriteFails, ShareFails
-----------------------------------------------------------------------------
(* The steps.                                                              *)

(* The place of the texture announced last depends on the ring only.       *)
LEMMA SamePlace ==
  ASSUME ring' = ring, index' = index, told' = told, rotated' = rotated
  PROVE  Kept' = Kept
BY DEF Kept, Turns

LEMMA BeginFollows ==
  ASSUME TypeOK, Follows, NEW k \in {"bitmap", "texture"}, NEW s \in Shapes,
         Reuse(k, s) \/ Make(k, s) \/ MakeFails(k, s)
  PROVE  Follows'
<1>1. /\ step = "idle" /\ ~fresh /\ Len(pending) < MaxPending
      /\ told' = told /\ latest' = latest /\ opened' = opened /\ pending' = pending
      /\ hidden' = hidden /\ lost' = lost /\ overtaken' = overtaken
      /\ Turn(s)
  BY DEF Reuse, Make, MakeFails, Ready, Follows, UpdateShape, Running, overlay
<1>2. /\ told \in 0 .. Len(shapes) /\ Len(shapes) \in Nat /\ None = 0
      /\ ring \in [Slots -> Textures \cup {None}] /\ index \in Slots
      /\ rotated \in 0 .. Buffers
  BY LenProperties DEF TypeOK, None
<1>3. CASE Fits(s)
  <2>1. ring[index] # None /\ index' = index /\ rotated' = rotated /\ TextureFor(s) = ring
    BY <1>1, <1>3, TurnFacts DEF Fits
  <2>2. Reuse(k, s)
    BY <2>1 DEF Make, MakeFails
  <2>3. /\ ring' = ring /\ step' = "lock" /\ target' = ring[index] /\ ~fresh'
    BY <2>1, <2>2 DEF Reuse
  <2>4. Kept' = Kept
    BY <1>1, <2>1, <2>3, SamePlace
  <2>5. UpdateShape'
    BY <1>1, <2>1, <2>3 DEF UpdateShape, Running
  <2>6. CurrentTold' /\ LatestKept'
    BY <1>1, <2>1, <2>3, <2>4 DEF Follows, CurrentTold, LatestKept, Running, Excused
  <2>7. InOrder' /\ Delivered'
    BY <1>1, <2>4 DEF Follows, InOrder, Delivered
  <2> QED
    BY <2>5, <2>6, <2>7 DEF Follows
<1>4. CASE ~Fits(s)
  <2>1. /\ index' \in Slots
        /\ TextureFor(s) = [ring EXCEPT ![index'] = None]
        /\ rotated' = IF rotated = Buffers THEN rotated ELSE rotated + 1
    BY <1>1, <1>4, TurnFacts
  <2>2. TextureFor(s)[index'] = None /\ \A p \in Slots \ {index'} : TextureFor(s)[p] = ring[p]
    BY <1>2, <2>1
  <2>3. ~Reuse(k, s)
    BY <2>2 DEF Reuse
  <2>4. /\ \A p \in Slots \ {index'} : ring'[p] = ring[p]
        /\ ring'[index'] # told \/ told = None
        /\ UpdateShape'
        /\ CurrentTold'
    <3>1. CASE Make(k, s)
      <4>1. shapes \in Seq(Shapes) /\ shapes' = Append(shapes, s)
        BY <3>1 DEF Make, TypeOK
      <4>2. /\ target' = Len(shapes) + 1 /\ step' = "lock" /\ fresh' /\ kind' = k
            /\ ring' = IF k = "bitmap" THEN [TextureFor(s) EXCEPT ![index'] = target']
                                       ELSE TextureFor(s)
        BY <3>1, <4>1, AppendProperties DEF Make
      <4>3. target' # told /\ target' # None
        BY <1>2, <4>2
      <4>4. TextureFor(s) \in [Slots -> Textures \cup {None}]
        BY <1>1, TurnFacts
      <4>5. /\ \A p \in Slots \ {index'} : ring'[p] = ring[p]
            /\ ring'[index'] = IF k = "bitmap" THEN target' ELSE None
        BY <2>1, <2>2, <4>2, <4>4
      <4>6. ring'[index'] # told \/ told = None
        BY <4>3, <4>5
      <4>7. UpdateShape'
        BY <1>1, <4>2, <4>3, <4>5 DEF UpdateShape, Running
      <4>8. CurrentTold'
        BY <4>2 DEF CurrentTold, Running
      <4> QED
        BY <4>5, <4>6, <4>7, <4>8
    <3>2. CASE MakeFails(k, s)
      <4>1. ring' = TextureFor(s) /\ ~fresh' /\ step' \in {"idle", "aborted"}
        BY <1>1, <3>2 DEF MakeFails
      <4>2. ring'[index'] # told \/ told = None
        BY <2>2, <4>1
      <4>3. UpdateShape' /\ CurrentTold'
        BY <2>2, <4>1 DEF UpdateShape, CurrentTold, Running
      <4> QED
        BY <2>2, <4>1, <4>2, <4>3
    <3> QED
      BY <2>3, <3>1, <3>2
  <2>5. (Kept /\ rotated' # Buffers => Kept') /\ (Kept' => Kept)
    BY <1>1, <1>4, <2>4, TurnKeeps
  <2>6. LatestKept'
    BY <1>1, <2>1, <2>5 DEF Follows, LatestKept, Excused
  <2>7. InOrder' /\ Delivered'
    BY <1>1, <2>5 DEF Follows, InOrder, Delivered
  <2> QED
    BY <2>4, <2>6, <2>7 DEF Follows
<1> QED
  BY <1>3, <1>4

(* A texture lies no turns ago where the index is.                         *)
LEMMA CurrentKept ==
  ASSUME TypeOK, told # None, ring[index] = told, rotated = 0
  PROVE  Kept
<1>1. index \in Slots /\ index \in Int /\ Turns(index) = 0
  BY DEF TypeOK, Slots, Turns
<1> QED
  BY <1>1 DEF Kept

LEMMA LockFollows ==
  ASSUME TypeOK, Follows, Lock
  PROVE  Follows'
<1>1. /\ step = "lock" /\ step' = "write"
      /\ UNCHANGED <<ring, index, kind, target, fresh, pending, opened, told, latest,
                     rotated, hidden, lost, overtaken>>
  BY DEF Lock, overlay, history
<1>2. Kept' = Kept
  BY <1>1, SamePlace
<1>3. UpdateShape'
  BY <1>1 DEF Follows, UpdateShape, Running
<1>4. CurrentTold' /\ LatestKept'
  BY <1>1, <1>2 DEF Follows, CurrentTold, LatestKept, Running, Excused
<1>5. InOrder' /\ Delivered'
  BY <1>1, <1>2 DEF Follows, InOrder, Delivered
<1> QED
  BY <1>3, <1>4, <1>5 DEF Follows

LEMMA WriteFollows ==
  ASSUME TypeOK, Follows, Write
  PROVE  Follows'
<1>1. /\ step = "write"
      /\ UNCHANGED <<ring, index, fresh, pending, opened, told, rotated, hidden, lost,
                     overtaken>>
  BY DEF Write, overlay, history
<1>2. Kept' = Kept
  BY <1>1, SamePlace
<1>3. InOrder' /\ Delivered'
  BY <1>1, <1>2 DEF Follows, InOrder, Delivered
<1>4. CASE fresh
  <2>1. step' = "share" /\ kind' = kind /\ target' = target /\ latest' = latest
    BY <1>4 DEF Write
  <2>2. UpdateShape'
    BY <1>1, <1>4, <2>1 DEF Follows, UpdateShape, Running
  <2>3. CurrentTold' /\ LatestKept'
    BY <1>1, <1>2, <1>4, <2>1 DEF Follows, CurrentTold, LatestKept, Running, Excused
  <2> QED
    BY <1>3, <2>2, <2>3 DEF Follows
<1>5. CASE ~fresh
  <2>1. step' = "idle" /\ latest' = target
    BY <1>5 DEF Write
  <2>2. UpdateShape'
    BY <1>1, <1>5, <2>1 DEF UpdateShape, Running
  <2>3. ring[index] = target /\ target # None
    BY <1>1, <1>5 DEF Follows, UpdateShape, Running
  <2>4. Excused \/ (target = told /\ rotated = 0)
    BY <1>5, <2>3 DEF Follows, CurrentTold
  <2>5. Excused \/ (target = told /\ Kept)
    BY <2>3, <2>4, CurrentKept
  <2>6. CurrentTold' /\ LatestKept'
    BY <1>1, <1>2, <2>1, <2>3, <2>4, <2>5 DEF CurrentTold, LatestKept, Excused
  <2> QED
    BY <1>3, <2>2, <2>6 DEF Follows
<1> QED
  BY <1>4, <1>5

(* The texture announced is the current one.                               *)
LEMMA ShareFollows ==
  ASSUME TypeOK, TypeOK', Follows, Share
  PROVE  Follows'
<1>1. /\ step' = "idle" /\ ~fresh' /\ rotated' = 0 /\ index' = index
      /\ told' = target /\ latest' = target
      /\ pending' = Append(pending, target)
      /\ ring' = [ring EXCEPT ![index] = target]
  BY DEF Share, Announce
<1>2. ring'[index'] = told'
  BY <1>1 DEF TypeOK
<1>3. target # None /\ target \in 0 .. Len(shapes) /\ Len(pending) < MaxPending
  BY DEF Share, Follows, UpdateShape, Running, TypeOK
<1>4. Kept'
  <2>1. index' \in Slots /\ index' \in Int /\ Turns(index)' = 0
    BY <1>1 DEF TypeOK, Slots, Turns
  <2> QED
    BY <1>1, <1>2, <1>3, <2>1 DEF Kept
<1>5. pending' # <<>> /\ pending'[Len(pending')] = target
  BY <1>1, <1>3, AppendPending
<1>6. UpdateShape' /\ CurrentTold'
  BY <1>1, <1>2 DEF UpdateShape, CurrentTold, Running
<1>7. LatestKept'
  BY <1>1, <1>4 DEF LatestKept
<1>8. InOrder' /\ Delivered'
  BY <1>1, <1>5 DEF InOrder, Delivered
<1> QED
  BY <1>6, <1>7, <1>8 DEF Follows

LEMMA FailFollows ==
  ASSUME TypeOK, Follows, Running, Fail
  PROVE  Follows'
<1>1. /\ step' \in {"idle", "aborted"} /\ ~fresh' /\ lost' = (lost \/ (fresh /\ kind = "bitmap"))
      /\ UNCHANGED <<ring, index, pending, opened, told, latest, rotated, hidden, overtaken>>
  BY DEF Fail, overlay
<1>2. Kept' = Kept
  BY <1>1, SamePlace
<1>3. UpdateShape'
  BY <1>1 DEF UpdateShape, Running
<1>4. LatestKept'
  BY <1>1, <1>2 DEF Follows, LatestKept, Excused
<1>5. CurrentTold'
  <2>1. fresh /\ kind = "texture" => ring[index] = None
    BY DEF Follows, UpdateShape
  <2>2. kind \in {"bitmap", "texture"}
    BY DEF TypeOK
  <2> QED
    BY <1>1, <2>1, <2>2 DEF Follows, CurrentTold, Excused
<1>6. InOrder' /\ Delivered'
  BY <1>1, <1>2 DEF Follows, InOrder, Delivered
<1> QED
  BY <1>3, <1>4, <1>5, <1>6 DEF Follows

LEMMA EmptyFollows ==
  ASSUME TypeOK, Follows, Empty
  PROVE  Follows'
<1>1. /\ step' = "idle" /\ ~fresh' /\ hidden' /\ told' = None
      /\ pending' = Append(pending, None) /\ Len(pending) < MaxPending
  BY DEF Empty, Ready, Announce, producer, Follows, UpdateShape, Running
<1>2. None \in 0 .. Len(shapes)
  BY LenProperties DEF TypeOK, None
<1>3. pending' # <<>> /\ pending'[Len(pending')] = None
  BY <1>1, <1>2, AppendPending
<1>4. UpdateShape' /\ CurrentTold' /\ LatestKept'
  BY <1>1 DEF UpdateShape, CurrentTold, LatestKept, Running, Excused
<1>5. InOrder' /\ Delivered'
  BY <1>1, <1>3 DEF InOrder, Delivered
<1> QED
  BY <1>4, <1>5 DEF Follows

LEMMA ClearFollows ==
  ASSUME TypeOK, Follows, Clear
  PROVE  Follows'
<1>1. /\ step' = "idle" /\ ~fresh' /\ ring' = NoTextures /\ index' = 0 /\ latest' = None
      /\ pending' = pending /\ told' = told /\ overtaken' = overtaken
  BY DEF Clear, history, Follows, UpdateShape, Running
<1>2. \A i \in Slots : ring'[i] = None
  BY <1>1 DEF NoTextures
<1>3. ring'[index'] = None
  BY <1>1, <1>2, SlotsFact
<1>4. ~Kept'
  BY <1>1, <1>2 DEF Kept
<1>5. UpdateShape' /\ CurrentTold' /\ LatestKept'
  BY <1>1, <1>3 DEF UpdateShape, CurrentTold, LatestKept, Running
<1>6. InOrder' /\ Delivered'
  BY <1>1, <1>4 DEF Follows, InOrder, Delivered
<1> QED
  BY <1>5, <1>6 DEF Follows

(* The request executed last opens its texture if that is kept.            *)
LEMMA ExecuteFollows ==
  ASSUME TypeOK, Follows, NEW i \in DOMAIN pending, Execute(i)
  PROVE  Follows'
<1>1. /\ UNCHANGED <<ring, index, step, kind, target, fresh, told, latest, rotated, hidden, lost>>
      /\ overtaken' = (overtaken \/ i > 1)
      /\ pending' = RemoveAt(pending, i)
      /\ opened' = IF pending[i] = None \/ Alive(pending[i]) THEN pending[i] ELSE opened
  BY DEF Execute, producer, history
<1>2. /\ Len(pending') = Len(pending) - 1 /\ Len(pending) \in Nat \ {0}
      /\ (i = 1 /\ Len(pending) > 1) => pending'[Len(pending')] = pending[Len(pending)]
      /\ i \in Nat \ {0}
  <2> DEFINE n == Len(pending)
             q == RemoveAt(pending, i)
  <2>1. Len(q) = n - 1 /\ n \in Nat \ {0} /\ (i = 1 /\ n > 1 => q[n - 1] = pending[n])
    BY RemovePending
  <2>2. DOMAIN pending = 1 .. n
    BY LenProperties DEF TypeOK
  <2> HIDE DEF n, q
  <2>3. i \in Nat \ {0}
    BY <2>1, <2>2
  <2>4. pending' = q
    BY <1>1 DEF q
  <2> QED
    BY <2>1, <2>3, <2>4 DEF n
<1>3. Kept' = Kept
  BY <1>1, SamePlace
<1>4. UpdateShape'
  BY <1>1, <1>2 DEF Follows, UpdateShape, Running
<1>5. CurrentTold' /\ LatestKept'
  BY <1>1, <1>3 DEF Follows, CurrentTold, LatestKept, Running, Excused
<1>6. ASSUME ~overtaken' PROVE i = 1 /\ ~overtaken /\ pending[Len(pending)] = told
  <2>1. ~overtaken
    BY <1>1, <1>6
  <2>2. ~(i > 1)
    BY <1>1, <1>6
  <2>3. pending # <<>>
    <3>1. Len(<<>>) = 0
      OBVIOUS
    <3> QED
      BY <1>2, <3>1
  <2> QED
    BY <1>2, <2>1, <2>2, <2>3 DEF Follows, InOrder
<1>7. InOrder'
  <2>1. pending' # <<>> => Len(pending') # 0
    BY <1>1, RemovePending, EmptySeq DEF TypeOK
  <2> QED
    BY <1>1, <1>2, <1>6, <2>1 DEF InOrder
<1>8. Delivered'
  <2> SUFFICES ASSUME ~overtaken', pending' = <<>>, Kept' PROVE opened' = told
    BY <1>1 DEF Delivered
  <2>1. Len(pending) = 1
    BY <1>2
  <2>2. pending[i] = told
    BY <1>6, <2>1
  <2>3. Alive(told)
    BY <1>3 DEF Kept, Alive
  <2> QED
    BY <1>1, <2>2, <2>3
<1> QED
  BY <1>4, <1>5, <1>7, <1>8 DEF Follows

(* The session, and the frames of the overlay.                             *)
LEMMA AsideFollows ==
  ASSUME Follows,
         UNCHANGED <<producer, pending, opened, told, latest, history, overtaken>>
  PROVE  Follows'
<1>1. Kept' = Kept
  BY SamePlace DEF producer, history
<1>2. UpdateShape'
  BY DEF Follows, UpdateShape, Running, producer
<1>3. CurrentTold' /\ LatestKept'
  BY <1>1 DEF Follows, CurrentTold, LatestKept, Running, Excused, producer, history
<1>4. InOrder' /\ Delivered'
  BY <1>1 DEF Follows, InOrder, Delivered
<1> QED
  BY <1>2, <1>3, <1>4 DEF Follows
-----------------------------------------------------------------------------
LEMMA InitFollows == Init => Follows
BY DEF Init, NoTextures, Slots, Follows, UpdateShape, CurrentTold, LatestKept, InOrder,
       Delivered, Kept, Running, None

LEMMA NextFollows == TypeOK /\ Follows /\ [Next]_vars => Follows'
<1> SUFFICES ASSUME TypeOK, Follows, [Next]_vars PROVE Follows'
  OBVIOUS
<1>1. TypeOK'
  BY NextTypeOK DEF Follows
<1>2. CASE Begin
  BY <1>2, BeginFollows DEF Begin
<1>3. CASE Lock
  BY <1>3, LockFollows
<1>4. CASE LockFails
  BY <1>4, FailFollows DEF LockFails, Running
<1>5. CASE Write
  BY <1>5, WriteFollows
<1>6. CASE WriteFails \/ ShareFails
  BY <1>6, FailFollows DEF WriteFails, ShareFails, Running
<1>7. CASE Share
  BY <1>1, <1>7, ShareFollows
<1>8. CASE Empty
  BY <1>8, EmptyFollows
<1>9. CASE Clear
  BY <1>9, ClearFollows
<1>10. ASSUME NEW i \in 1 .. MaxPending, Execute(i) PROVE Follows'
  BY <1>10, ExecuteFollows DEF Execute
<1>11. CASE StartCapture \/ StopCapture
  BY <1>11, AsideFollows DEF StartCapture, StopCapture, overlay
<1>12. CASE FrameStart \/ FrameEnd
  BY <1>12, AsideFollows DEF FrameStart, FrameEnd
<1>13. CASE UNCHANGED vars
  BY <1>13, AsideFollows DEF vars, overlay
<1> QED
  BY <1>2, <1>3, <1>4, <1>5, <1>6, <1>7, <1>8, <1>9, <1>10, <1>11, <1>12, <1>13
     DEF Next, Proceed

LEMMA Following == Spec => [](TypeOK /\ Follows)
<1>1. Init => TypeOK /\ Follows
  BY InitTypeOK, InitFollows
<1>2. TypeOK /\ Follows /\ [Next]_vars => (TypeOK /\ Follows)'
  BY NextTypeOK, NextFollows DEF Follows
<1> QED
  BY <1>1, <1>2, PTL DEF Spec

(***************************************************************************)
(* The overlay follows the ring of textures, however long the ring and     *)
(* however many requests are under way: an update that returns nothing has *)
(* written to the texture announced last, and when no request is under way *)
(* the overlay has opened it.                                              *)
(***************************************************************************)
THEOREM FollowsRing == Spec => []OverlayFollows
<1>1. TypeOK /\ Follows => OverlayFollows
  <2> SUFFICES ASSUME TypeOK, Follows PROVE WritesAnnounced /\ Settled
    BY DEF OverlayFollows
  <2>1. WritesAnnounced
    BY DEF WritesAnnounced, Follows, LatestKept, Excused
  <2>2. Settled
    BY DEF Settled, Follows, LatestKept, Delivered, Excused
  <2> QED
    BY <2>1, <2>2
<1> QED
  BY <1>1, Following, PTL

(* The copies accepted are within the picture and the surface unless the   *)
(* end of the rectangle exceeds a word.                                    *)
LEMMA AcceptedInside ==
  ASSUME NEW r \in Copies, r.dst + r.len <= MaxWord, r.src + r.len <= MaxWord,
         NEW i \in 0 .. r.len - 1
  PROVE  r.dst + i < r.size /\ r.src + i < r.from
<1>1. r.dst \in Word /\ r.src \in Word /\ r.len \in Word /\ r.size \in Word /\ r.from \in Word
  BY DEF Copies, Axes
<1>2. Sum32(r.dst, r.len) = r.dst + r.len /\ Sum32(r.src, r.len) = r.src + r.len
  <2>1. ASSUME NEW a \in Word, NEW b \in Word, a + b <= MaxWord PROVE Sum32(a, b) = a + b
    <3>1. MaxWord + 1 \in Nat \ {0} /\ a + b \in 0 .. (MaxWord + 1) - 1
      BY <2>1 DEF Word
    <3> QED
      BY <3>1, ModSmall DEF Sum32
  <2> QED
    BY <1>1, <2>1
<1>3. r.dst + r.len <= r.size /\ r.src + r.len <= r.from
  BY <1>1, <1>2 DEF Copies, Accepted, IsOut, Word
<1> QED
  BY <1>1, <1>3 DEF Word

(***************************************************************************)
(* copy_to_surface reads pixels of its source and writes pixels of the     *)
(* surface only, for any width of a word, unless the end of the rectangle  *)
(* exceeds it.                                                             *)
(***************************************************************************)
THEOREM CopiesInside == Spec => []CopyInside
<1>1. CopyInside
  <2> SUFFICES ASSUME NEW r \in Copies
               PROVE  \/ \A i \in 0 .. r.len - 1 : r.dst + i < r.size /\ r.src + i < r.from
                      \/ r.dst + r.len > MaxWord \/ r.src + r.len > MaxWord
    BY DEF CopyInside
  <2>1. r.dst \in Int /\ r.len \in Int /\ r.src \in Int
    BY DEF Copies, Axes, Word
  <2> QED
    BY <2>1, AcceptedInside
<1> QED
  BY <1>1, PTL

HIDE ProducerAssumption
-----------------------------------------------------------------------------
(* EguiRunner *)

(* What the event at a place of the channel is about.                      *)
IsAbout(k, i) == queue[k].kind \in {"added", "resized", "destroyed"} /\ queue[k].id = i
IsAdded(k, i) == queue[k].kind = "added" /\ queue[k].id = i
IsDestroyed(k, i) == queue[k].kind = "destroyed" /\ queue[k].id = i
IsShift(k) == queue[k].kind = "key" /\ queue[k].key = "shift"
After(k) == {l \in DOMAIN queue : l > k}

(* The channel tells the end of a surface after what came before it, or a  *)
(* clean-up will; and its last size last.                                  *)
EndsAfter(k) ==
  going[queue[k].id] > 0 \/ \E j \in After(k) : IsDestroyed(j, queue[k].id)

EndTold(k) ==
  queue[k].kind \in {"added", "resized"} =>
    surfaces[queue[k].id] # Nothing \/ EndsAfter(k)

SizeTold(k) ==
  queue[k].kind \in {"added", "resized"} =>
    \/ surfaces[queue[k].id] \in {Nothing, queue[k].size}
    \/ \E l \in After(k) : IsAbout(l, queue[k].id)

(* If a surface was added at the id since, that ended: but its Destroyed   *)
(* may come after the new Added.                                           *)
Alternates(k) ==
  queue[k].kind = "added" /\ (\E l \in After(k) : IsAdded(l, queue[k].id)) => EndsAfter(k)

BeginningTold(k) ==
  queue[k].kind = "destroyed" =>
    \/ surfaces[queue[k].id] = Nothing \/ queue[k].id \in late
    \/ \E l \in After(k) : IsAdded(l, queue[k].id)

ShiftTold(k) ==
  IsShift(k) =>
    (queue[k].pressed <=> held) \/ unreported \/ \E l \in After(k) : IsShift(l)

(* Only clean-ups of Direct3D 9 are under way while there is a surface. *)
OneThread == \A i \in Ids \ Direct9 : going[i] > 0 => surfaces[i] = Nothing

ChannelInv ==
  /\ OneThread
  /\ \A k \in DOMAIN queue :
       EndTold(k) /\ SizeTold(k) /\ Alternates(k) /\ BeginningTold(k) /\ ShiftTold(k)

Ending(i) ==
  (i \in Ids /\ going[i] > 0) \/ \E j \in DOMAIN queue : IsDestroyed(j, i)

(* The main surface is there, shown and of its size, or the channel will   *)
(* tell; and it will tell its end if it tells of a new surface at its id.  *)
MainInv ==
  pc \in {"windows", "loop"} =>
    /\ Live(main.id) \/ Ending(main.id)
    /\ main.id \in shown \/ Ending(main.id) \/ refused
    /\ Live(main.id) =>
         main.size = surfaces[main.id] \/ PendingOf(main.id) \/ going[main.id] > 0
    /\ (\E k \in DOMAIN queue : IsAdded(k, main.id)) => Ending(main.id)
    /\ pc = "loop" => screen = main.size \/ replaced

(* Every surface is main, or its Added is still to come or was overlooked, *)
(* or the Destroyed of another at its id came after it.                    *)
Known(i) ==
  \/ i \in overlooked \cup late \/ \E k \in DOMAIN queue : IsAdded(k, i)
  \/ pc \in {"windows", "loop"} /\ main.id = i

WaitInv == pc # "ended" => \A i \in Ids : Live(i) => Known(i)

WindowPending(w) == \E k \in DOMAIN queue : queue[k].kind = "window" /\ queue[k].window = w

(* Input cannot come before the windows are listened to; what it makes of  *)
(* the state of the application is true, on its way or was thrown away.    *)
InputInv ==
  /\ pc \in {"first", "windows"} =>
       /\ listening = {} /\ (held => unreported) /\ ~shift /\ ~belief /\ ~blocked
       /\ ~Pending("key") /\ ~Pending("unblocked")
  /\ pc \in {"loop", "wait"} =>
       /\ \A w \in windows : w \in listening \/ "window" \in dropped \/ WindowPending(w)
       /\ \/ (shift <=> held) \/ "key" \in dropped \/ unreported
          \/ \E k \in DOMAIN queue : IsShift(k)
       /\ belief /\ ~blocked => Pending("unblocked") \/ "unblocked" \in dropped
       /\ blocked /\ ~belief => crossed

RunnerInv == RunnerTypeOK /\ ChannelInv /\ MainInv /\ WaitInv /\ InputInv

USE RunnerAssumption
-----------------------------------------------------------------------------
(* The channel.                                                            *)

Quiet == {e \in Event : e.kind \in {"repaint", "unblocked"}}

LEMMA SentFacts ==
  ASSUME NEW q \in Seq(Event), NEW e \in Event
  PROVE  /\ Append(q, e) \in Seq(Event)
         /\ DOMAIN Append(q, e) = DOMAIN q \cup {Len(q) + 1}
         /\ DOMAIN q \subseteq Nat \ {0} /\ Len(q) \in Nat
         /\ \A k \in DOMAIN q : k < Len(q) + 1 /\ Append(q, e)[k] = q[k]
         /\ Append(q, e)[Len(q) + 1] = e
OBVIOUS

(* Reading shifts what is left; only repaints and the end of a blocking    *)
(* are put behind it.                                                      *)
Shifted(q, r) ==
  /\ r \in Seq(Event)
  /\ DOMAIN r \subseteq Nat \ {0} /\ DOMAIN q \subseteq Nat \ {0} /\ 1 \in DOMAIN q
  /\ \A k \in DOMAIN q : k # 1 => k - 1 \in DOMAIN r /\ r[k - 1] = q[k]
  /\ \A k \in DOMAIN r : (k + 1 \in DOMAIN q /\ r[k] = q[k + 1]) \/ r[k] \in Quiet

LEMMA ReadFacts ==
  ASSUME NEW q \in Seq(Event), q # <<>>, NEW out \in Seq(Quiet)
  PROVE  Shifted(q, Tail(q) \o out) /\ Head(q) = q[1] /\ Head(q) \in Event
<1>1. out \in Seq(Event) /\ Tail(q) \in Seq(Event) /\ Len(q) \in Nat \ {0}
  BY DEF Quiet
<1>2. Head(q) = q[1] /\ Head(q) \in Event
  OBVIOUS
<1> DEFINE t == Tail(q)
           r == t \o out
<1>3. /\ Len(t) = Len(q) - 1 /\ DOMAIN t = 1..Len(q) - 1 /\ DOMAIN q = 1..Len(q)
      /\ \A k \in 1..Len(q) - 1 : t[k] = q[k + 1]
  BY <1>1
<1>4. Len(out) \in Nat /\ \A k \in 1..Len(out) : out[k] \in Quiet
  OBVIOUS
<1> HIDE DEF t
<1>5. /\ r \in Seq(Event) /\ Len(r) = Len(t) + Len(out) /\ DOMAIN r = 1..Len(t) + Len(out)
      /\ \A k \in 1..Len(t) : r[k] = t[k]
      /\ \A k \in Len(t) + 1..Len(t) + Len(out) : r[k] = out[k - Len(t)]
  BY <1>1 DEF t
<1> HIDE DEF r
<1>6. \A k \in DOMAIN q : k # 1 => k - 1 \in DOMAIN r /\ r[k - 1] = q[k]
  BY <1>1, <1>3, <1>4, <1>5
<1>7. ASSUME NEW k \in DOMAIN r
      PROVE  (k + 1 \in DOMAIN q /\ r[k] = q[k + 1]) \/ r[k] \in Quiet
  <2>1. CASE k \in 1..Len(t)
    BY <1>1, <1>3, <1>5, <2>1
  <2>2. CASE k \in Len(t) + 1..Len(t) + Len(out)
    <3>1. k - Len(t) \in 1..Len(out)
      BY <1>1, <1>3, <1>4, <2>2
    <3> QED
      BY <1>4, <1>5, <2>2, <3>1
  <2> QED
    BY <1>1, <1>3, <1>4, <1>5, <2>1, <2>2
<1>8. Shifted(q, r)
  BY <1>1, <1>3, <1>4, <1>5, <1>6, <1>7 DEF Shifted
<1> QED
  BY <1>2, <1>8 DEF r, t

LEMMA EventsJoin ==
  ASSUME NEW a \in Seq(Event), NEW b \in Seq(Event), NEW c \in Seq(Event)
  PROVE  (a \o b) \o c = a \o (b \o c)
BY ConcatAssociative

LEMMA RestFacts ==
  ASSUME NEW q \in Seq(Event), q # <<>>
  PROVE  Shifted(q, Tail(q)) /\ Head(q) = q[1] /\ Head(q) \in Event
<1>1. <<>> \in Seq(Quiet) /\ Tail(q) \o <<>> = Tail(q)
  OBVIOUS
<1> QED
  BY <1>1, ReadFacts

LEMMA EventFacts ==
  ASSUME NEW e \in Event
  PROVE  /\ e.kind \in {"added", "resized"} => e.id \in Ids /\ e.size \in Sizes
         /\ e.kind = "destroyed" => e.id \in Ids
         /\ e.kind = "window" => e.window \in Windows
         /\ e.kind = "key" => e.key \in Keys /\ e.pressed \in BOOLEAN
         /\ e.kind = "repaint" => e.pass \in 0..3
BY DEF Event

LEMMA ReadKeepsChannel ==
  ASSUME ChannelInv, Shifted(queue, queue'),
         UNCHANGED <<surfaces, going, held, late, unreported>>
  PROVE  ChannelInv'
<1> SUFFICES ASSUME NEW k \in DOMAIN queue', queue'[k] \notin Quiet
             PROVE  EndTold(k)' /\ SizeTold(k)' /\ Alternates(k)' /\ BeginningTold(k)'
                    /\ ShiftTold(k)'
  <2>1. ASSUME NEW k \in DOMAIN queue', queue'[k] \in Quiet
        PROVE  EndTold(k)' /\ SizeTold(k)' /\ Alternates(k)' /\ BeginningTold(k)' /\ ShiftTold(k)'
    BY <2>1 DEF Quiet, EndTold, SizeTold, Alternates, BeginningTold, ShiftTold, IsShift
  <2>2. OneThread'
    BY DEF ChannelInv, OneThread
  <2> QED
    BY <2>1, <2>2 DEF ChannelInv
<1>1. /\ k + 1 \in DOMAIN queue /\ queue'[k] = queue[k + 1] /\ k \in Nat \ {0}
      /\ DOMAIN queue \subseteq Nat \ {0} /\ DOMAIN queue' \subseteq Nat \ {0}
  BY DEF Shifted
<1>2. \A l \in After(k + 1) : l - 1 \in After(k)' /\ queue'[l - 1] = queue[l]
  BY <1>1 DEF Shifted, After
<1>3. \A l \in After(k)' :
        queue'[l] \notin Quiet => l + 1 \in After(k + 1) /\ queue'[l] = queue[l + 1]
  BY <1>1 DEF Shifted, After
<1>4. EndTold(k + 1) /\ SizeTold(k + 1) /\ Alternates(k + 1) /\ BeginningTold(k + 1)
      /\ ShiftTold(k + 1)
  BY <1>1 DEF ChannelInv
<1>10. EndsAfter(k + 1) => EndsAfter(k)'
  BY <1>1, <1>2 DEF EndsAfter, IsDestroyed
<1>5. EndTold(k)'
  BY <1>1, <1>4, <1>10 DEF EndTold
<1>6. SizeTold(k)'
  BY <1>1, <1>2, <1>4 DEF SizeTold, IsAbout
<1>7. Alternates(k)'
  <2>0. PICK i : i = queue'[k].id
    OBVIOUS
  <2> SUFFICES ASSUME queue'[k].kind = "added", NEW l \in After(k)', IsAdded(l, i)'
               PROVE  EndsAfter(k)'
    BY <2>0 DEF Alternates, IsAdded
  <2>1. queue'[l] \notin Quiet
    BY DEF IsAdded, Quiet
  <2>2. l + 1 \in After(k + 1) /\ IsAdded(l + 1, i)
    BY <1>3, <2>1 DEF IsAdded
  <2> QED
    BY <1>1, <1>4, <1>10, <2>0, <2>2 DEF Alternates
<1>8. BeginningTold(k)'
  BY <1>1, <1>2, <1>4 DEF BeginningTold, IsAdded
<1>9. ShiftTold(k)'
  BY <1>1, <1>2, <1>4 DEF ShiftTold, IsShift
<1> QED
  BY <1>5, <1>6, <1>7, <1>8, <1>9

(* One event is put behind the others. *)
Sent(q, r, e) ==
  /\ e \in Event /\ r \in Seq(Event)
  /\ DOMAIN r = DOMAIN q \cup {Len(q) + 1} /\ DOMAIN q \subseteq Nat \ {0} /\ Len(q) \in Nat
  /\ \A k \in DOMAIN q : k < Len(q) + 1 /\ r[k] = q[k] /\ q[k] \in Event
  /\ r[Len(q) + 1] = e

LEMMA SendFacts ==
  ASSUME queue \in Seq(Event), NEW e \in Event, Send(e)
  PROVE  Sent(queue, queue', e)
<1>1. \A k \in DOMAIN queue : queue[k] \in Event
  OBVIOUS
<1> QED
  BY <1>1, SentFacts DEF Send, Sent

About(e, i) == e.kind \in {"added", "resized", "destroyed"} /\ e.id = i

(* What an event tells is true when it is sent, and every change of a      *)
(* surface or of the shift key is told.                                    *)
LEMMA SendKeepsChannel ==
  ASSUME ChannelInv, NEW e \in Event, Sent(queue, queue', e), OneThread',
         \A i \in Ids :
           /\ going[i] > 0 => going'[i] > 0 \/ (e.kind = "destroyed" /\ e.id = i)
           /\ i \in late => i \in late'
           /\ surfaces[i] # Nothing => surfaces'[i] # Nothing
           /\ surfaces'[i] = surfaces[i] \/ About(e, i)
           /\ surfaces[i] = Nothing =>
                surfaces'[i] = Nothing \/ (e.kind = "added" /\ e.id = i),
         e.kind \in {"added", "resized"} => surfaces'[e.id] = e.size,
         e.kind \in {"added", "resized"} => e.size # Nothing,
         e.kind = "added" => surfaces[e.id] = Nothing,
         e.kind = "destroyed" => surfaces'[e.id] = Nothing \/ e.id \in late',
         ((held' <=> held) /\ (unreported' <=> unreported)) \/ (e.kind = "key" /\ e.key = "shift"),
         e.kind = "key" /\ e.key = "shift" => (e.pressed <=> held')
  PROVE  ChannelInv'
<1>0. PICK n : n = Len(queue) + 1
  OBVIOUS
<1>1. /\ DOMAIN queue' = DOMAIN queue \cup {n} /\ n \in Nat /\ DOMAIN queue \subseteq Nat
      /\ \A k \in DOMAIN queue : k < n /\ queue'[k] = queue[k] /\ queue[k] \in Event
      /\ queue'[n] = e
  BY <1>0 DEF Sent
<1>2. ASSUME NEW k \in DOMAIN queue
      PROVE  EndTold(k)' /\ SizeTold(k)' /\ Alternates(k)' /\ BeginningTold(k)' /\ ShiftTold(k)'
  <2>1. EndTold(k) /\ SizeTold(k) /\ Alternates(k) /\ BeginningTold(k) /\ ShiftTold(k)
    BY DEF ChannelInv
  <2>2. /\ queue'[k] = queue[k] /\ queue[k] \in Event /\ n \in After(k)' /\ n \notin After(k)
        /\ After(k)' = After(k) \cup {n} /\ \A l \in After(k) : queue'[l] = queue[l] /\ l < n
    BY <1>1 DEF After
  <2>9. PICK i : i = queue[k].id
    OBVIOUS
  <2>10. /\ \A l \in After(k) : (IsDestroyed(l, i) => IsDestroyed(l, i)')
                                /\ (IsAbout(l, i) => IsAbout(l, i)')
                                /\ (IsAdded(l, i) => IsAdded(l, i)')
         /\ (e.kind = "destroyed" /\ e.id = i) => IsDestroyed(n, i)'
         /\ About(e, i) => IsAbout(n, i)'
         /\ (e.kind = "added" /\ e.id = i) => IsAdded(n, i)'
    BY <1>1, <2>2 DEF IsDestroyed, IsAbout, IsAdded, About
  <2>11. queue[k].kind \in {"added", "resized", "destroyed"} => i \in Ids
    BY <2>2, <2>9, EventFacts
  <2>12. queue[k].kind \in {"added", "resized"} /\ EndsAfter(k) => EndsAfter(k)'
    <3> SUFFICES ASSUME queue[k].kind \in {"added", "resized"}, EndsAfter(k)
                 PROVE  going'[i] > 0 \/ \E j \in After(k)' : IsDestroyed(j, i)'
      BY <2>2, <2>9 DEF EndsAfter, IsDestroyed
    <3> QED
      BY <2>2, <2>9, <2>10, <2>11 DEF EndsAfter
  <2>3. EndTold(k)'
    BY <2>1, <2>2, <2>9, <2>11, <2>12 DEF EndTold
  <2>4. SizeTold(k)'
    <3> SUFFICES ASSUME queue[k].kind \in {"added", "resized"}
                 PROVE  \/ surfaces'[i] \in {Nothing, queue[k].size}
                        \/ \E l \in After(k)' : IsAbout(l, i)'
      BY <2>2, <2>9 DEF SizeTold, IsAbout
    <3> QED
      BY <2>1, <2>2, <2>9, <2>10, <2>11 DEF SizeTold
  <2>5. Alternates(k)'
    <3> SUFFICES ASSUME queue[k].kind = "added", NEW l \in After(k)', IsAdded(l, i)'
                 PROVE  EndsAfter(k)
      BY <2>2, <2>9, <2>12 DEF Alternates, IsAdded
    <3>1. CASE l \in After(k)
      BY <2>1, <2>2, <2>9, <3>1 DEF Alternates, IsAdded
    <3>2. CASE l = n
      <4>1. e.kind = "added" /\ e.id = i
        BY <1>1, <3>2 DEF IsAdded
      <4> QED
        BY <2>1, <2>9, <4>1 DEF EndTold
    <3> QED
      BY <2>2, <3>1, <3>2
  <2>6. BeginningTold(k)'
    <3> SUFFICES ASSUME queue[k].kind = "destroyed"
                 PROVE  \/ surfaces'[i] = Nothing \/ i \in late'
                        \/ \E l \in After(k)' : IsAdded(l, i)'
      BY <2>2, <2>9 DEF BeginningTold, IsAdded
    <3> QED
      BY <2>1, <2>2, <2>9, <2>10, <2>11 DEF BeginningTold
  <2>7. ShiftTold(k)'
    BY <1>1, <2>1, <2>2 DEF ShiftTold, IsShift
  <2> QED
    BY <2>3, <2>4, <2>5, <2>6, <2>7
<1>3. EndTold(n)' /\ SizeTold(n)' /\ Alternates(n)' /\ BeginningTold(n)' /\ ShiftTold(n)'
  <2>1. After(n)' = {}
    BY <1>1 DEF After
  <2>2. EndTold(n)' /\ SizeTold(n)'
    BY <1>1, EventFacts DEF EndTold, SizeTold
  <2>3. Alternates(n)' /\ BeginningTold(n)' /\ ShiftTold(n)'
    BY <1>1, <2>1 DEF Alternates, BeginningTold, ShiftTold, IsShift
  <2> QED
    BY <2>2, <2>3
<1> QED
  BY <1>1, <1>2, <1>3 DEF ChannelInv

LEMMA SendKeepsMain ==
  ASSUME MainInv, NEW e \in Event, Sent(queue, queue', e),
         UNCHANGED <<main, shown, refused, replaced>>,
         UNCHANGED <<pc, screen>> \/ (pc = "windows" /\ screen' = main.size),
         \A i \in Ids :
           /\ going[i] > 0 => going'[i] > 0 \/ (e.kind = "destroyed" /\ e.id = i)
           /\ surfaces[i] # Nothing => surfaces'[i] # Nothing
           /\ surfaces'[i] = surfaces[i] \/ About(e, i),
         e.kind = "added" => surfaces[e.id] = Nothing
  PROVE  MainInv'
<1>0. PICK n, m : n = Len(queue) + 1 /\ m = main.id
  OBVIOUS
<1>1. /\ DOMAIN queue' = DOMAIN queue \cup {n} /\ n \in Nat /\ DOMAIN queue \subseteq Nat
      /\ \A k \in DOMAIN queue : k < n /\ queue'[k] = queue[k] /\ queue[k] \in Event
      /\ queue'[n] = e
  BY <1>0 DEF Sent
<1> SUFFICES ASSUME pc' \in {"windows", "loop"}
             PROVE  /\ Live(m)' \/ Ending(m)'
                    /\ m \in shown \/ Ending(m)' \/ refused
                    /\ Live(m)' => main.size = surfaces'[m] \/ PendingOf(m)' \/ going'[m] > 0
                    /\ (\E k \in DOMAIN queue' : IsAdded(k, m)') => Ending(m)'
                    /\ pc' = "loop" => screen' = main.size \/ replaced
  BY <1>0 DEF MainInv, Live, Ending, PendingOf, IsAdded, IsDestroyed
<1>2. /\ Live(m) \/ Ending(m)
      /\ m \in shown \/ Ending(m) \/ refused
      /\ Live(m) => main.size = surfaces[m] \/ PendingOf(m) \/ going[m] > 0
      /\ (\E k \in DOMAIN queue : IsAdded(k, m)) => Ending(m)
      /\ pc = "loop" => screen = main.size \/ replaced
  BY <1>0 DEF MainInv
<1>3. \A k \in DOMAIN queue :
        /\ IsDestroyed(k, m)' <=> IsDestroyed(k, m)
        /\ IsAdded(k, m)' <=> IsAdded(k, m)
  BY <1>1 DEF IsDestroyed, IsAdded
<1>4. /\ IsDestroyed(n, m)' <=> (e.kind = "destroyed" /\ e.id = m)
      /\ IsAdded(n, m)' <=> (e.kind = "added" /\ e.id = m)
  BY <1>1 DEF IsDestroyed, IsAdded
<1>5. PendingOf(m) \/ About(e, m) => PendingOf(m)'
  BY <1>1 DEF PendingOf, About
<1>6. Ending(m) => Ending(m)'
  BY <1>1, <1>3, <1>4 DEF Ending
<1>7. Live(m)' \/ Ending(m)'
  BY <1>2, <1>6 DEF Live
<1>8. Live(m)' => main.size = surfaces'[m] \/ PendingOf(m)' \/ going'[m] > 0
  <2> SUFFICES ASSUME Live(m)'
               PROVE  main.size = surfaces'[m] \/ PendingOf(m)' \/ going'[m] > 0
    OBVIOUS
  <2>1. CASE About(e, m)
    BY <1>5, <2>1
  <2>2. CASE ~About(e, m)
    BY <1>2, <1>5, <2>2 DEF Live, About
  <2> QED
    BY <2>1, <2>2
<1>9. ASSUME NEW k \in DOMAIN queue', IsAdded(k, m)'
      PROVE  Ending(m)'
  <2>1. CASE k = n
    BY <1>2, <1>4, <1>6, <1>9, <2>1 DEF Live
  <2>2. CASE k \in DOMAIN queue
    BY <1>2, <1>3, <1>6, <1>9, <2>2
  <2> QED
    BY <1>1, <2>1, <2>2
<1> QED
  BY <1>2, <1>6, <1>7, <1>8, <1>9

LEMMA SendKeepsWait ==
  ASSUME WaitInv, NEW e \in Event, Sent(queue, queue', e), UNCHANGED <<main, overlooked>>,
         UNCHANGED pc \/ (pc = "windows" /\ pc' = "loop"),
         \A i \in Ids :
           /\ surfaces[i] = Nothing => surfaces'[i] = Nothing \/ (e.kind = "added" /\ e.id = i)
           /\ i \in late => i \in late'
  PROVE  WaitInv'
<1>0. PICK n : n = Len(queue) + 1
  OBVIOUS
<1>1. /\ DOMAIN queue' = DOMAIN queue \cup {n}
      /\ \A k \in DOMAIN queue : queue'[k] = queue[k]
      /\ queue'[n] = e
  BY <1>0 DEF Sent
<1> SUFFICES ASSUME pc # "ended", NEW i \in Ids, Live(i)'
             PROVE  \/ i \in overlooked \cup late'
                    \/ \E k \in DOMAIN queue' : IsAdded(k, i)'
                    \/ pc' \in {"windows", "loop"} /\ main.id = i
  BY DEF WaitInv, Known
<1>2. CASE Live(i)
  BY <1>1, <1>2 DEF WaitInv, Known, IsAdded
<1>3. CASE ~Live(i)
  <2>1. e.kind = "added" /\ e.id = i
    BY <1>3 DEF Live
  <2> QED
    BY <1>1, <2>1 DEF IsAdded
<1> QED
  BY <1>2, <1>3

LEMMA SendKeepsInput ==
  ASSUME InputInv, NEW e \in Event, Sent(queue, queue', e),
         UNCHANGED <<pc, listening, shift, belief, crossed, dropped>>,
         \A w \in windows' : w \in windows \/ (e.kind = "window" /\ e.window = w),
         ((held' <=> held) /\ (unreported' <=> unreported)) \/ (e.kind = "key" /\ e.key = "shift"),
         (blocked' <=> blocked) \/ (~blocked' /\ e.kind = "unblocked"),
         pc \in {"first", "windows"} =>
           e.kind \notin {"key", "unblocked"} /\ (blocked' <=> blocked)
  PROVE  InputInv'
<1>0. PICK n : n = Len(queue) + 1
  OBVIOUS
<1>1. /\ DOMAIN queue' = DOMAIN queue \cup {n}
      /\ \A k \in DOMAIN queue : queue'[k] = queue[k]
      /\ queue'[n] = e
  BY <1>0 DEF Sent
<1>2. \A x : Pending(x)' <=> (Pending(x) \/ e.kind = x)
  BY <1>1 DEF Pending
<1>3. \A w : (WindowPending(w) \/ (e.kind = "window" /\ e.window = w)) => WindowPending(w)'
  BY <1>1 DEF WindowPending
<1>4. (\E k \in DOMAIN queue : IsShift(k)) \/ (e.kind = "key" /\ e.key = "shift") =>
        \E k \in DOMAIN queue' : IsShift(k)'
  BY <1>1 DEF IsShift
<1>5. ASSUME pc \in {"first", "windows"}
      PROVE  /\ listening' = {} /\ (held' => unreported') /\ ~shift' /\ ~belief' /\ ~blocked'
             /\ ~Pending("key")' /\ ~Pending("unblocked")'
  BY <1>2, <1>5 DEF InputInv
<1>6. ASSUME pc \in {"loop", "wait"}
      PROVE  /\ \A w \in windows' : w \in listening' \/ "window" \in dropped' \/ WindowPending(w)'
             /\ \/ (shift' <=> held') \/ "key" \in dropped' \/ unreported'
                \/ \E k \in DOMAIN queue' : IsShift(k)'
             /\ belief' /\ ~blocked' => Pending("unblocked")' \/ "unblocked" \in dropped'
             /\ blocked' /\ ~belief' => crossed'
  <2>1. \A w \in windows' : w \in listening' \/ "window" \in dropped' \/ WindowPending(w)'
    BY <1>3, <1>6 DEF InputInv
  <2>2. \/ (shift' <=> held') \/ "key" \in dropped' \/ unreported'
        \/ \E k \in DOMAIN queue' : IsShift(k)'
    BY <1>4, <1>6 DEF InputInv
  <2>3. belief' /\ ~blocked' => Pending("unblocked")' \/ "unblocked" \in dropped'
    BY <1>2, <1>6 DEF InputInv
  <2>4. blocked' /\ ~belief' => crossed'
    BY <1>6 DEF InputInv
  <2> QED
    BY <2>1, <2>2, <2>3, <2>4
<1> QED
  BY <1>5, <1>6 DEF InputInv

(* What reading the first event does to what waits in the channel.         *)
LEMMA ReadPending ==
  ASSUME Shifted(queue, queue')
  PROVE  /\ \A i : (\E k \in DOMAIN queue : IsDestroyed(k, i)) =>
                     IsDestroyed(1, i) \/ \E k \in DOMAIN queue' : IsDestroyed(k, i)'
         /\ \A i : (\E k \in DOMAIN queue : IsAdded(k, i)) =>
                     IsAdded(1, i) \/ \E k \in DOMAIN queue' : IsAdded(k, i)'
         /\ \A i : PendingOf(i) => IsAbout(1, i) \/ PendingOf(i)'
         /\ \A w : WindowPending(w) =>
                     \/ queue[1].kind = "window" /\ queue[1].window = w
                     \/ WindowPending(w)'
         /\ (\E k \in DOMAIN queue : IsShift(k)) =>
              IsShift(1) \/ \E k \in DOMAIN queue' : IsShift(k)'
         /\ \A x : Pending(x) => queue[1].kind = x \/ Pending(x)'
<1>1. \A k \in DOMAIN queue : k # 1 => k - 1 \in DOMAIN queue' /\ queue'[k - 1] = queue[k]
  BY DEF Shifted
<1>2. ASSUME NEW i
      PROVE  (\E k \in DOMAIN queue : IsDestroyed(k, i)) =>
               IsDestroyed(1, i) \/ \E k \in DOMAIN queue' : IsDestroyed(k, i)'
  BY <1>1 DEF IsDestroyed
<1>3. ASSUME NEW i
      PROVE  (\E k \in DOMAIN queue : IsAdded(k, i)) =>
               IsAdded(1, i) \/ \E k \in DOMAIN queue' : IsAdded(k, i)'
  BY <1>1 DEF IsAdded
<1>4. ASSUME NEW i PROVE PendingOf(i) => IsAbout(1, i) \/ PendingOf(i)'
  BY <1>1 DEF PendingOf, IsAbout
<1>5. ASSUME NEW w
      PROVE  WindowPending(w) =>
               \/ queue[1].kind = "window" /\ queue[1].window = w
               \/ WindowPending(w)'
  BY <1>1 DEF WindowPending
<1>6. (\E k \in DOMAIN queue : IsShift(k)) =>
        IsShift(1) \/ \E k \in DOMAIN queue' : IsShift(k)'
  BY <1>1 DEF IsShift
<1>7. ASSUME NEW x PROVE Pending(x) => queue[1].kind = x \/ Pending(x)'
  BY <1>1 DEF Pending
<1> QED
  BY <1>2, <1>3, <1>4, <1>5, <1>6, <1>7

(* What is told of a surface later than by the first event is told by what *)
(* waits after it was read.                                                *)
LEMMA ReadLater ==
  ASSUME Shifted(queue, queue')
  PROVE  /\ \A i : (\E k \in After(1) : IsDestroyed(k, i)) =>
                     \E k \in DOMAIN queue' : IsDestroyed(k, i)'
         /\ \A i : (\E k \in After(1) : IsAdded(k, i)) =>
                     \E k \in DOMAIN queue' : IsAdded(k, i)'
         /\ \A i : (\E k \in After(1) : IsAbout(k, i)) => PendingOf(i)'
         /\ (\E k \in After(1) : IsShift(k)) => \E k \in DOMAIN queue' : IsShift(k)'
<1>1. \A k \in After(1) : k - 1 \in DOMAIN queue' /\ queue'[k - 1] = queue[k]
  BY DEF Shifted, After
<1>2. ASSUME NEW i
      PROVE  (\E k \in After(1) : IsDestroyed(k, i)) =>
               \E k \in DOMAIN queue' : IsDestroyed(k, i)'
  BY <1>1 DEF IsDestroyed
<1>3. ASSUME NEW i
      PROVE  (\E k \in After(1) : IsAdded(k, i)) => \E k \in DOMAIN queue' : IsAdded(k, i)'
  BY <1>1 DEF IsAdded
<1>4. ASSUME NEW i PROVE (\E k \in After(1) : IsAbout(k, i)) => PendingOf(i)'
  BY <1>1 DEF PendingOf, IsAbout
<1>5. (\E k \in After(1) : IsShift(k)) => \E k \in DOMAIN queue' : IsShift(k)'
  BY <1>1 DEF IsShift
<1> QED
  BY <1>2, <1>3, <1>4, <1>5

LEMMA ReadKeepsMain ==
  ASSUME MainInv, ChannelInv, pc = "loop", pc' = "loop", Shifted(queue, queue'),
         UNCHANGED <<surfaces, going>>, main'.id = main.id, ~IsDestroyed(1, main.id),
         \/ main'.size = main.size /\ ~(queue[1].kind = "resized" /\ queue[1].id = main.id)
         \/ queue[1].kind = "resized" /\ queue[1].id = main.id /\ main'.size = queue[1].size,
         UNCHANGED <<shown, refused>> \/ Commit(main.id),
         screen' = main'.size \/ replaced'
  PROVE  MainInv'
<1>0. PICK m : m = main.id
  OBVIOUS
<1> SUFFICES /\ Live(m) \/ Ending(m)'
             /\ m \in shown' \/ Ending(m)' \/ refused'
             /\ Live(m) => main'.size = surfaces[m] \/ PendingOf(m)' \/ going[m] > 0
             /\ (\E k \in DOMAIN queue' : IsAdded(k, m)') => Ending(m)'
  BY <1>0 DEF MainInv, Live, Ending, PendingOf, IsAdded, IsDestroyed
<1>1. /\ Live(m) \/ Ending(m)
      /\ m \in shown \/ Ending(m) \/ refused
      /\ Live(m) => main.size = surfaces[m] \/ PendingOf(m) \/ going[m] > 0
      /\ (\E k \in DOMAIN queue : IsAdded(k, m)) => Ending(m)
  BY <1>0 DEF MainInv
<1>2. 1 \in DOMAIN queue /\ DOMAIN queue \subseteq Nat \ {0} /\ DOMAIN queue' \subseteq Nat \ {0}
  BY DEF Shifted
<1>3. Ending(m) => Ending(m)'
  BY <1>0, ReadPending DEF Ending
<1>4. m \in shown' \/ Ending(m)' \/ refused'
  <2>1. CASE UNCHANGED <<shown, refused>>
    BY <1>1, <1>3, <2>1
  <2>2. CASE Commit(main.id)
    <3>1. CASE Live(m)
      BY <1>0, <2>2, <3>1 DEF Commit, Live
    <3>2. CASE ~Live(m)
      BY <1>1, <1>3, <3>2
    <3> QED
      BY <3>1, <3>2
  <2> QED
    BY <2>1, <2>2
<1>5. Live(m) => main'.size = surfaces[m] \/ PendingOf(m)' \/ going[m] > 0
  <2> SUFFICES ASSUME Live(m)
               PROVE  main'.size = surfaces[m] \/ PendingOf(m)' \/ going[m] > 0
    OBVIOUS
  <2>1. CASE queue[1].kind = "resized" /\ queue[1].id = main.id /\ main'.size = queue[1].size
    <3>1. surfaces[m] \in {Nothing, queue[1].size} \/ \E l \in After(1) : IsAbout(l, m)
      BY <1>0, <1>2, <2>1 DEF ChannelInv, SizeTold
    <3> QED
      BY <2>1, <3>1, ReadLater DEF Live
  <2>2. CASE main'.size = main.size /\ ~(queue[1].kind = "resized" /\ queue[1].id = main.id)
    <3>1. CASE IsAdded(1, m)
      <4>1. Ending(m)'
        BY <1>1, <1>2, <1>3, <3>1
      <4> QED
        BY <4>1 DEF Ending, PendingOf, IsDestroyed
    <3>2. CASE ~IsAdded(1, m)
      <4>1. ~IsAbout(1, m)
        BY <1>0, <2>2, <3>2 DEF IsAbout, IsAdded, IsDestroyed
      <4> QED
        BY <1>1, <2>2, <4>1, ReadPending
    <3> QED
      BY <3>1, <3>2
  <2> QED
    BY <2>1, <2>2
<1>6. ASSUME NEW k \in DOMAIN queue', IsAdded(k, m)'
      PROVE  Ending(m)'
  <2>1. queue'[k] \notin Quiet
    BY <1>6 DEF IsAdded, Quiet
  <2>2. k + 1 \in DOMAIN queue /\ IsAdded(k + 1, m)
    BY <1>6, <2>1 DEF Shifted, IsAdded
  <2> QED
    BY <1>1, <1>3, <2>2
<1> QED
  BY <1>1, <1>3, <1>4, <1>5, <1>6

LEMMA FindKeepsMain ==
  ASSUME ChannelInv, Shifted(queue, queue'), UNCHANGED <<surfaces, going>>,
         queue[1].kind = "added", queue[1] \in Event,
         main'.id = queue[1].id, main'.size = queue[1].size, Commit(queue[1].id),
         pc' = "loop" => replaced'
  PROVE  MainInv'
<1>0. PICK m : m = queue[1].id /\ m \in Ids
  BY EventFacts
<1> SUFFICES /\ Live(m) \/ Ending(m)'
             /\ m \in shown' \/ Ending(m)' \/ refused'
             /\ Live(m) => main'.size = surfaces[m] \/ PendingOf(m)' \/ going[m] > 0
             /\ (\E k \in DOMAIN queue' : IsAdded(k, m)') => Ending(m)'
  BY <1>0 DEF MainInv, Live, Ending, PendingOf, IsAdded, IsDestroyed
<1>1. 1 \in DOMAIN queue /\ DOMAIN queue \subseteq Nat \ {0} /\ DOMAIN queue' \subseteq Nat \ {0}
  BY DEF Shifted
<1>2. EndTold(1) /\ SizeTold(1) /\ Alternates(1)
  BY <1>1 DEF ChannelInv
<1>7. EndsAfter(1) => Ending(m)'
  BY <1>0, ReadLater DEF EndsAfter, Ending
<1>3. Live(m) \/ Ending(m)'
  <2>1. surfaces[m] # Nothing \/ EndsAfter(1)
    BY <1>0, <1>2 DEF EndTold
  <2> QED
    BY <1>0, <1>7, <2>1 DEF Live
<1>4. m \in shown' \/ Ending(m)' \/ refused'
  BY <1>0, <1>3 DEF Commit, Live
<1>5. Live(m) => main'.size = surfaces[m] \/ PendingOf(m)' \/ going[m] > 0
  <2>1. surfaces[m] \in {Nothing, queue[1].size} \/ \E l \in After(1) : IsAbout(l, m)
    BY <1>0, <1>2 DEF SizeTold
  <2> QED
    BY <2>1, ReadLater DEF Live
<1>6. ASSUME NEW k \in DOMAIN queue', IsAdded(k, m)'
      PROVE  Ending(m)'
  <2>1. queue'[k] \notin Quiet
    BY <1>6 DEF IsAdded, Quiet
  <2>2. k + 1 \in DOMAIN queue /\ IsAdded(k + 1, m)
    BY <1>6, <2>1 DEF Shifted, IsAdded
  <2>3. k + 1 \in After(1)
    BY <1>1, <2>2 DEF After
  <2>4. EndsAfter(1)
    BY <1>0, <1>2, <2>2, <2>3 DEF Alternates
  <2> QED
    BY <1>7, <2>4
<1> QED
  BY <1>3, <1>4, <1>5, <1>6

LEMMA ReadKeepsWait ==
  ASSUME WaitInv, ChannelInv, pc # "ended", Shifted(queue, queue'), UNCHANGED <<surfaces, late>>,
         \A i \in Ids : Live(i) /\ (IsAdded(1, i) \/ i \in overlooked) =>
           i \in overlooked' \/ (pc' \in {"windows", "loop"} /\ main'.id = i),
         pc \in {"windows", "loop"} =>
           (pc' \in {"windows", "loop"} /\ main'.id = main.id) \/ IsDestroyed(1, main.id)
  PROVE  WaitInv'
<1> SUFFICES ASSUME NEW i \in Ids, Live(i)
             PROVE  \/ i \in overlooked' \cup late
                    \/ \E k \in DOMAIN queue' : IsAdded(k, i)'
                    \/ pc' \in {"windows", "loop"} /\ main'.id = i
  BY DEF WaitInv, Known, Live
<1>1. Known(i)
  BY DEF WaitInv
<1>2. CASE i \in overlooked \cup late
  BY <1>2
<1>3. CASE \E k \in DOMAIN queue : IsAdded(k, i)
  BY <1>3, ReadPending
<1>4. CASE pc \in {"windows", "loop"} /\ main.id = i
  <2>1. CASE pc' \in {"windows", "loop"} /\ main'.id = main.id
    BY <1>4, <2>1
  <2>2. CASE IsDestroyed(1, i)
    <3>1. 1 \in DOMAIN queue
      BY DEF Shifted
    <3>2. i \in late \/ \E l \in After(1) : IsAdded(l, i)
      BY <2>2, <3>1 DEF ChannelInv, BeginningTold, IsDestroyed, Live
    <3> QED
      BY <3>2, ReadLater
  <2> QED
    BY <1>4, <2>1, <2>2
<1> QED
  BY <1>1, <1>2, <1>3, <1>4 DEF Known

(* What reading an event owes to what is known of the input.               *)
Learns ==
  /\ dropped \subseteq dropped' /\ listening \subseteq listening'
  /\ queue[1].kind = "window" =>
       "window" \in dropped' \/ (queue[1].window \in windows => queue[1].window \in listening')
  /\ "key" \in dropped' \/ (IF IsShift(1) THEN shift' <=> queue[1].pressed ELSE shift' <=> shift)

LEMMA ReadKeepsInput ==
  ASSUME InputInv, ChannelInv, pc \in {"loop", "wait"}, pc' \in {"loop", "wait"},
         Shifted(queue, queue'), UNCHANGED <<windows, held, unreported>>, Learns,
         \/ queue[1].kind # "unblocked" /\ UNCHANGED <<belief, blocked, crossed>>
         \/ belief' /\ ~blocked' => Pending("unblocked")' \/ "unblocked" \in dropped',
         blocked' /\ ~belief' => crossed'
  PROVE  InputInv'
<1>1. \A w \in windows' : w \in listening' \/ "window" \in dropped' \/ WindowPending(w)'
  <2> SUFFICES ASSUME NEW w \in windows
               PROVE  w \in listening' \/ "window" \in dropped' \/ WindowPending(w)'
    OBVIOUS
  <2>1. w \in listening \/ "window" \in dropped \/ WindowPending(w)
    BY DEF InputInv
  <2> QED
    BY <2>1, ReadPending DEF Learns
<1>2. \/ (shift' <=> held) \/ "key" \in dropped' \/ unreported
      \/ \E k \in DOMAIN queue' : IsShift(k)'
  <2>1. \/ (shift <=> held) \/ "key" \in dropped \/ unreported
        \/ \E k \in DOMAIN queue : IsShift(k)
    BY DEF InputInv
  <2>2. CASE IsShift(1)
    <3>1. 1 \in DOMAIN queue
      BY DEF Shifted
    <3>2. (queue[1].pressed <=> held) \/ unreported \/ \E l \in After(1) : IsShift(l)
      BY <2>2, <3>1 DEF ChannelInv, ShiftTold
    <3> QED
      BY <2>2, <3>2, ReadLater DEF Learns
  <2>3. CASE ~IsShift(1)
    BY <2>1, <2>3, ReadPending DEF Learns
  <2> QED
    BY <2>2, <2>3
<1>3. belief' /\ ~blocked' => Pending("unblocked")' \/ "unblocked" \in dropped'
  <2>1. CASE queue[1].kind # "unblocked" /\ UNCHANGED <<belief, blocked, crossed>>
    <3>1. belief /\ ~blocked => Pending("unblocked") \/ "unblocked" \in dropped
      BY DEF InputInv
    <3> QED
      BY <2>1, <3>1, ReadPending DEF Learns
  <2> QED
    BY <2>1
<1> QED
  BY <1>1, <1>2, <1>3 DEF InputInv
-----------------------------------------------------------------------------
(* egui.                                                                   *)

EguiState == [asked : BOOLEAN, again : BOOLEAN, pass : 0..3, out : Seq(Quiet)]

LEMMA RepaintFacts ==
  ASSUME NEW g \in EguiState
  PROVE  SendsRepaint(g) \in EguiState
<1> DEFINE e == [kind |-> "repaint", pass |-> g.pass]
<1>1. e \in Quiet
  BY DEF EguiState, Quiet, Event
<1>2. Append(g.out, e) \in Seq(Quiet)
  BY <1>1 DEF EguiState
<1>3. g = [asked |-> g.asked, again |-> g.again, pass |-> g.pass, out |-> g.out]
  BY DEF EguiState
<1>4. SendsRepaint(g) = [[g EXCEPT !.asked = TRUE] EXCEPT !.out = Append(g.out, e)]
  BY <1>3 DEF SendsRepaint
<1> HIDE DEF e
<1>5. SendsRepaint(g) \in EguiState
  BY <1>2, <1>4 DEF EguiState
<1> QED
  BY <1>5

LEMMA AskFacts ==
  ASSUME NEW g \in EguiState
  PROVE  Asks(g) \in EguiState
BY RepaintFacts DEF Asks, EguiState

LEMMA BeginFacts ==
  ASSUME NEW g \in EguiState
  PROVE  BeginPass(g) \in EguiState
BY RepaintFacts DEF BeginPass, EguiState

LEMMA PassFacts ==
  ASSUME NEW g \in EguiState, NEW h \in Passes(g)
  PROVE  h \in EguiState
<1>1. PICK f \in EguiState : h = [f EXCEPT !.pass = (@ + 1) % 4]
  BY BeginFacts, AskFacts DEF Passes
<1>2. (f.pass + 1) % 4 \in 0..3
  BY DEF EguiState
<1> QED
  BY <1>1, <1>2 DEF EguiState

LEMMA RunFacts ==
  ASSUME NEW g \in EguiState, NEW h \in Runs(g)
  PROVE  h \in EguiState
BY PassFacts DEF Runs

LEMMA EguiFacts ==
  ASSUME RunnerTypeOK
  PROVE  Egui \in EguiState
<1>1. <<>> \in Seq(Quiet)
  OBVIOUS
<1>2. asked \in BOOLEAN /\ again \in BOOLEAN /\ pass \in 0..3
  BY DEF RunnerTypeOK
<1> QED
  BY <1>1, <1>2 DEF Egui, EguiState

(* A request sends a repaint or nothing.                                   *)
LEMMA AskSends ==
  ASSUME RunnerTypeOK
  PROVE  Asks(Egui).out = <<>> \/ \E e \in Quiet : Asks(Egui).out = <<e>>
<1>1. [kind |-> "repaint", pass |-> pass] \in Quiet
  BY DEF RunnerTypeOK, Quiet, Event
<1>2. CASE asked
  BY <1>2 DEF Asks, Egui
<1>3. CASE ~asked
  BY <1>1, <1>3 DEF Asks, Egui, SendsRepaint
<1> QED
  BY <1>2, <1>3
-----------------------------------------------------------------------------
(* What the application does.                                              *)

LEMMA AddKeeps ==
  ASSUME RunnerInv, NEW i \in Ids, NEW s \in Sizes, AddSurface(i, s)
  PROVE  RunnerInv'
<1> DEFINE e == [kind |-> "added", id |-> i, size |-> s]
<1>1. /\ queue \in Seq(Event) /\ e \in Event /\ Send(e)
      /\ surfaces[i] = Nothing /\ s # Nothing /\ (going[i] = 0 \/ i \in Direct9)
      /\ surfaces' = [surfaces EXCEPT ![i] = s]
      /\ surfaces \in [Ids -> Sizes \cup {Nothing}]
      /\ UNCHANGED <<late, unreported>>
      /\ UNCHANGED <<going, held, main, shown, refused, replaced, pc, screen, overlooked,
                     listening, shift, belief, crossed, dropped, windows, blocked>>
  BY DEF RunnerInv, RunnerTypeOK, AddSurface, env, egui, runnerHistory, Event
<1>2. e.kind = "added" /\ e.id = i /\ e.size = s
  OBVIOUS
<1>3. Sent(queue, queue', e)
  BY <1>1, SendFacts
<1> HIDE DEF e
<1>4. \A x \in Ids : surfaces'[x] = IF x = i THEN s ELSE surfaces[x]
  BY <1>1
<1>5. OneThread'
  BY <1>1, <1>4 DEF RunnerInv, ChannelInv, OneThread
<1>6. ChannelInv'
  BY <1>1, <1>2, <1>3, <1>4, <1>5, SendKeepsChannel DEF RunnerInv, About
<1>7. MainInv'
  BY <1>1, <1>2, <1>3, <1>4, SendKeepsMain DEF RunnerInv, About
<1>8. WaitInv'
  BY <1>1, <1>2, <1>3, <1>4, SendKeepsWait DEF RunnerInv
<1>9. InputInv'
  BY <1>1, <1>2, <1>3, SendKeepsInput DEF RunnerInv
<1>10. RunnerTypeOK'
  BY <1>1, <1>3 DEF RunnerInv, RunnerTypeOK, AddSurface, env, egui, runnerHistory, Sent
<1> QED
  BY <1>6, <1>7, <1>8, <1>9, <1>10 DEF RunnerInv

LEMMA ResizeKeeps ==
  ASSUME RunnerInv, NEW i \in Ids, NEW s \in Sizes, ResizeSurface(i, s)
  PROVE  RunnerInv'
<1> DEFINE e == [kind |-> "resized", id |-> i, size |-> s]
<1>1. /\ queue \in Seq(Event) /\ e \in Event /\ Send(e)
      /\ surfaces[i] # Nothing /\ s # Nothing
      /\ surfaces' = [surfaces EXCEPT ![i] = s]
      /\ surfaces \in [Ids -> Sizes \cup {Nothing}]
      /\ UNCHANGED <<late, unreported>>
      /\ UNCHANGED <<going, held, main, shown, refused, replaced, pc, screen, overlooked,
                     listening, shift, belief, crossed, dropped, windows, blocked>>
  BY DEF RunnerInv, RunnerTypeOK, ResizeSurface, env, egui, runnerHistory, Event
<1>2. e.kind = "resized" /\ e.id = i /\ e.size = s
  OBVIOUS
<1>3. Sent(queue, queue', e)
  BY <1>1, SendFacts
<1> HIDE DEF e
<1>4. \A x \in Ids : surfaces'[x] = IF x = i THEN s ELSE surfaces[x]
  BY <1>1
<1>5. OneThread'
  BY <1>1, <1>4 DEF RunnerInv, ChannelInv, OneThread
<1>6. ChannelInv'
  BY <1>1, <1>2, <1>3, <1>4, <1>5, SendKeepsChannel DEF RunnerInv, About
<1>7. MainInv'
  BY <1>1, <1>2, <1>3, <1>4, SendKeepsMain DEF RunnerInv, About
<1>8. WaitInv'
  BY <1>1, <1>2, <1>3, <1>4, SendKeepsWait DEF RunnerInv
<1>9. InputInv'
  BY <1>1, <1>2, <1>3, SendKeepsInput DEF RunnerInv
<1>10. RunnerTypeOK'
  BY <1>1, <1>3 DEF RunnerInv, RunnerTypeOK, ResizeSurface, env, egui, runnerHistory, Sent
<1> QED
  BY <1>6, <1>7, <1>8, <1>9, <1>10 DEF RunnerInv

LEMMA TellKeeps ==
  ASSUME RunnerInv, NEW i \in Ids, TellDestroyed(i)
  PROVE  RunnerInv'
<1> DEFINE e == [kind |-> "destroyed", id |-> i]
<1>1. /\ queue \in Seq(Event) /\ e \in Event /\ Send(e)
      /\ going[i] > 0 /\ going' = [going EXCEPT ![i] = @ - 1] /\ going \in [Ids -> 0..MaxGoing]
      /\ late' = IF surfaces[i] # Nothing THEN late \cup {i} ELSE late
      /\ unreported' = unreported
      /\ UNCHANGED <<surfaces, held, main, shown, refused, replaced, pc, screen, overlooked,
                     listening, shift, belief, crossed, dropped, windows, blocked>>
  BY DEF RunnerInv, RunnerTypeOK, TellDestroyed, env, egui, runnerHistory, Event
<1>2. e.kind = "destroyed" /\ e.id = i
  OBVIOUS
<1>3. Sent(queue, queue', e)
  BY <1>1, SendFacts
<1> HIDE DEF e
<1>4. /\ going' \in [Ids -> 0..MaxGoing] /\ \A x \in Ids : x # i => going'[x] = going[x]
      /\ late \subseteq late' /\ (surfaces[i] = Nothing \/ i \in late')
  BY <1>1
<1>5. OneThread' /\ late' \subseteq Direct9
  <2>1. OneThread /\ late \subseteq Direct9
    BY DEF RunnerInv, ChannelInv, RunnerTypeOK
  <2> QED
    BY <1>1, <1>4, <2>1 DEF OneThread
<1>6. ChannelInv'
  BY <1>1, <1>2, <1>3, <1>4, <1>5, SendKeepsChannel DEF RunnerInv
<1>7. MainInv'
  BY <1>1, <1>2, <1>3, <1>4, SendKeepsMain DEF RunnerInv
<1>8. WaitInv'
  BY <1>1, <1>2, <1>3, <1>4, SendKeepsWait DEF RunnerInv
<1>9. InputInv'
  BY <1>1, <1>2, <1>3, SendKeepsInput DEF RunnerInv
<1>10. RunnerTypeOK'
  BY <1>1, <1>3, <1>4, <1>5 DEF RunnerInv, RunnerTypeOK, TellDestroyed, env, egui,
                            runnerHistory, Sent
<1> QED
  BY <1>6, <1>7, <1>8, <1>9, <1>10 DEF RunnerInv

LEMMA RemoveKeeps ==
  ASSUME RunnerInv, NEW i \in Ids, RemoveSurface(i)
  PROVE  RunnerInv'
<1>1. /\ surfaces' = [surfaces EXCEPT ![i] = Nothing]
      /\ surfaces \in [Ids -> Sizes \cup {Nothing}] /\ going \in [Ids -> 0..MaxGoing]
      /\ going[i] < MaxGoing /\ going' = [going EXCEPT ![i] = @ + 1]
      /\ shown' = shown \ {i} /\ overlooked' = overlooked \ {i} /\ late' = late \ {i}
      /\ UNCHANGED <<queue, held, unreported, main, refused, replaced, pc, screen,
                     listening, shift, belief, crossed, dropped, windows, blocked>>
  BY DEF RunnerInv, RunnerTypeOK, RemoveSurface, env, egui, runnerHistory
<1>2. /\ \A x \in Ids : surfaces'[x] = IF x = i THEN Nothing ELSE surfaces[x]
      /\ going' \in [Ids -> 0..MaxGoing] /\ going'[i] > 0
      /\ \A x \in Ids : going[x] > 0 => going'[x] > 0
      /\ \A x \in Ids : x # i => going'[x] = going[x]
  BY <1>1
<1>3. ChannelInv'
  <2>1. OneThread'
    BY <1>1, <1>2 DEF RunnerInv, ChannelInv, OneThread
  <2>2. ASSUME NEW k \in DOMAIN queue
        PROVE  EndTold(k)' /\ SizeTold(k)' /\ Alternates(k)' /\ BeginningTold(k)' /\ ShiftTold(k)'
    <3>1. EndTold(k) /\ SizeTold(k) /\ Alternates(k) /\ BeginningTold(k) /\ ShiftTold(k)
      BY DEF RunnerInv, ChannelInv
    <3>2. queue[k] \in Event /\ queue' = queue
      BY <1>1 DEF RunnerInv, RunnerTypeOK
    <3>3. After(k)' = After(k)
      BY <3>2 DEF After
    <3>9. queue[k].kind \in {"added", "resized"} /\ EndsAfter(k) => EndsAfter(k)'
      BY <1>2, <3>2, <3>3, EventFacts DEF EndsAfter, IsDestroyed
    <3>4. EndTold(k)'
      <4>1. queue[k].kind \in {"added", "resized"} /\ queue[k].id = i => EndsAfter(k)'
        BY <1>2, <3>2 DEF EndsAfter
      <4> QED
        BY <1>2, <3>1, <3>2, <3>9, <4>1, EventFacts DEF EndTold
    <3>5. SizeTold(k)'
      BY <1>1, <1>2, <3>1, <3>2, <3>3, EventFacts DEF SizeTold, IsAbout
    <3>6. Alternates(k)'
      BY <3>1, <3>2, <3>3, <3>9 DEF Alternates, IsAdded
    <3>7. BeginningTold(k)'
      BY <1>1, <1>2, <3>1, <3>2, <3>3, EventFacts DEF BeginningTold, IsAdded
    <3>8. ShiftTold(k)'
      BY <1>1, <3>1, <3>2, <3>3 DEF ShiftTold, IsShift
    <3> QED
      BY <3>4, <3>5, <3>6, <3>7, <3>8
  <2> QED
    BY <1>1, <2>1, <2>2 DEF ChannelInv
<1>4. \A x : (\E k \in DOMAIN queue : IsAdded(k, x)) => \E k \in DOMAIN queue' : IsAdded(k, x)'
  BY <1>1 DEF IsAdded
<1>5. MainInv'
  <2>1. (\A x : IsDestroyed(x, main.id)' <=> IsDestroyed(x, main.id))
        /\ (\A x : IsAdded(x, main.id)' <=> IsAdded(x, main.id))
        /\ (PendingOf(main.id)' <=> PendingOf(main.id))
    BY <1>1 DEF IsDestroyed, IsAdded, PendingOf
  <2>2. Live(main.id)' => Live(main.id) /\ surfaces'[main.id] = surfaces[main.id]
    BY <1>1, <1>2 DEF Live
  <2>3. Ending(main.id) \/ main.id = i => Ending(main.id)'
    BY <1>1, <1>2, <2>1 DEF Ending
  <2>4. Live(main.id) => Live(main.id)' \/ main.id = i
    BY <1>1, <1>2 DEF Live
  <2>5. pc \in {"windows", "loop"} => main.id \in Ids
    BY DEF RunnerInv, RunnerTypeOK
  <2> QED
    BY <1>1, <1>2, <2>1, <2>2, <2>3, <2>4, <2>5 DEF RunnerInv, MainInv
<1>6. WaitInv'
  BY <1>1, <1>2, <1>4 DEF RunnerInv, WaitInv, Known, Live
<1>7. InputInv'
  BY <1>1 DEF RunnerInv, InputInv, Pending, WindowPending, IsShift
<1>8. RunnerTypeOK'
  BY <1>1, <1>2 DEF RunnerInv, RunnerTypeOK, RemoveSurface, env, egui, runnerHistory
<1> QED
  BY <1>3, <1>5, <1>6, <1>7, <1>8 DEF RunnerInv

(* An event that is not about a surface. *)
LEMMA OtherSent ==
  ASSUME RunnerInv, NEW e \in Event, Sent(queue, queue', e),
         e.kind \notin {"added", "resized", "destroyed"},
         UNCHANGED <<surfaces, going, late, main, shown, refused, replaced, overlooked>>,
         UNCHANGED <<pc, screen>> \/ (pc = "windows" /\ pc' = "loop" /\ screen' = main.size),
         ((held' <=> held) /\ (unreported' <=> unreported)) \/ (e.kind = "key" /\ e.key = "shift"),
         e.kind = "key" /\ e.key = "shift" => (e.pressed <=> held')
  PROVE  ChannelInv' /\ MainInv' /\ WaitInv'
<1>1. OneThread'
  BY DEF RunnerInv, ChannelInv, OneThread
<1>2. ChannelInv'
  BY <1>1, SendKeepsChannel DEF RunnerInv
<1>3. MainInv'
  BY SendKeepsMain DEF RunnerInv
<1>4. WaitInv'
  BY SendKeepsWait DEF RunnerInv
<1> QED
  BY <1>2, <1>3, <1>4

LEMMA AddWindowKeeps ==
  ASSUME RunnerInv, NEW w \in Windows, AddWindow(w)
  PROVE  RunnerInv'
<1> DEFINE e == [kind |-> "window", window |-> w]
<1>1. /\ queue \in Seq(Event) /\ e \in Event /\ Send(e)
      /\ windows' = windows \cup {w}
      /\ UNCHANGED <<late, unreported>>
      /\ UNCHANGED <<surfaces, going, held, main, shown, refused, replaced, pc, screen,
                     overlooked, listening, shift, belief, crossed, dropped, blocked>>
  BY DEF RunnerInv, RunnerTypeOK, AddWindow, env, egui, runnerHistory, Event
<1>2. e.kind = "window" /\ e.window = w
  OBVIOUS
<1>3. Sent(queue, queue', e)
  BY <1>1, SendFacts
<1> HIDE DEF e
<1>4. ChannelInv' /\ MainInv' /\ WaitInv'
  BY <1>1, <1>2, <1>3, OtherSent
<1>5. InputInv'
  BY <1>1, <1>2, <1>3, SendKeepsInput DEF RunnerInv
<1>6. RunnerTypeOK'
  BY <1>1, <1>3 DEF RunnerInv, RunnerTypeOK, AddWindow, env, egui, runnerHistory, Sent
<1> QED
  BY <1>4, <1>5, <1>6 DEF RunnerInv

LEMMA RemoveWindowKeeps ==
  ASSUME RunnerInv, NEW w \in Windows, RemoveWindow(w)
  PROVE  RunnerInv'
<1>1. /\ windows' = windows \ {w} /\ listening' = listening \ {w} /\ windows \subseteq Windows
      /\ UNCHANGED <<late, unreported>>
      /\ UNCHANGED <<surfaces, going, held, main, shown, refused, replaced, pc, screen, queue,
                     overlooked, shift, belief, crossed, dropped, blocked>>
  BY DEF RunnerInv, RunnerTypeOK, RemoveWindow, env, egui, runnerHistory
<1>2. ChannelInv'
  BY <1>1 DEF RunnerInv, ChannelInv, OneThread, EndsAfter, EndTold, SizeTold, Alternates,
              BeginningTold, ShiftTold, After, IsAdded, IsDestroyed, IsAbout, IsShift
<1>3. MainInv'
  BY <1>1 DEF RunnerInv, MainInv, Live, Ending, PendingOf, IsAdded, IsDestroyed
<1>4. WaitInv'
  BY <1>1 DEF RunnerInv, WaitInv, Known, Live, IsAdded
<1>5. InputInv'
  BY <1>1 DEF RunnerInv, InputInv, Pending, WindowPending, IsShift
<1>6. RunnerTypeOK'
  BY <1>1 DEF RunnerInv, RunnerTypeOK, RemoveWindow, env, egui, runnerHistory
<1> QED
  BY <1>2, <1>3, <1>4, <1>5, <1>6 DEF RunnerInv

LEMMA PressKeeps ==
  ASSUME RunnerInv, NEW k \in Keys, NEW down \in BOOLEAN, PressKey(k, down)
  PROVE  RunnerInv'
<1> DEFINE e == [kind |-> "key", key |-> k, pressed |-> down]
<1>1. /\ queue \in Seq(Event) /\ e \in Event /\ Send(e)
      /\ listening # {} \/ blocked
      /\ held' = (IF k = "shift" THEN down ELSE held) /\ late' = late
      /\ unreported' = (unreported /\ k # "shift")
      /\ UNCHANGED <<surfaces, going, windows, main, shown, refused, replaced, pc, screen,
                     overlooked, listening, shift, belief, crossed, dropped, blocked>>
  BY DEF RunnerInv, RunnerTypeOK, PressKey, env, egui, runnerHistory, Event
<1>2. e.kind = "key" /\ e.key = k /\ e.pressed = down
  OBVIOUS
<1>3. Sent(queue, queue', e)
  BY <1>1, SendFacts
<1> HIDE DEF e
<1>4. ChannelInv' /\ MainInv' /\ WaitInv'
  BY <1>1, <1>2, <1>3, OtherSent
<1>5. pc \notin {"first", "windows"}
  BY <1>1 DEF RunnerInv, InputInv
<1>6. InputInv'
  BY <1>1, <1>2, <1>3, <1>5, SendKeepsInput DEF RunnerInv
<1>7. RunnerTypeOK'
  BY <1>1, <1>3 DEF RunnerInv, RunnerTypeOK, PressKey, env, egui, runnerHistory, Sent
<1> QED
  BY <1>4, <1>6, <1>7 DEF RunnerInv

(* A key that is not heard makes the shift key unreported. *)
LEMMA UnheardKeeps ==
  ASSUME RunnerInv, PressUnheard
  PROVE  RunnerInv'
<1>1. /\ held' = ~held /\ unreported' = TRUE
      /\ UNCHANGED <<surfaces, going, windows, late, main, shown, refused, replaced, pc, screen,
                     queue, listening, overlooked, shift, belief, crossed, dropped, blocked>>
  BY DEF PressUnheard, egui, runnerHistory
<1>2. ChannelInv'
  BY <1>1 DEF RunnerInv, ChannelInv, OneThread, EndsAfter, EndTold, SizeTold, Alternates,
              BeginningTold, ShiftTold, After, IsAdded, IsDestroyed, IsAbout, IsShift
<1>3. MainInv'
  BY <1>1 DEF RunnerInv, MainInv, Live, Ending, PendingOf, IsAdded, IsDestroyed
<1>4. WaitInv'
  BY <1>1 DEF RunnerInv, WaitInv, Known, Live, IsAdded
<1>5. InputInv'
  BY <1>1 DEF RunnerInv, InputInv, Pending, WindowPending, IsShift
<1>6. RunnerTypeOK'
  BY <1>1 DEF RunnerInv, RunnerTypeOK, PressUnheard, egui, runnerHistory
<1> QED
  BY <1>2, <1>3, <1>4, <1>5, <1>6 DEF RunnerInv

LEMMA CloseKeeps ==
  ASSUME RunnerInv, CloseWindow
  PROVE  RunnerInv'
<1> DEFINE e == [kind |-> "unblocked"]
<1>1. /\ queue \in Seq(Event) /\ e \in Event /\ Send(e) /\ blocked /\ blocked' = FALSE
      /\ UNCHANGED <<late, unreported>>
      /\ UNCHANGED <<surfaces, going, windows, main, shown, refused, replaced, pc, screen, held,
                     overlooked, listening, shift, belief, crossed, dropped>>
  BY DEF RunnerInv, RunnerTypeOK, CloseWindow, env, egui, runnerHistory, Event
<1>2. e.kind = "unblocked"
  OBVIOUS
<1>3. Sent(queue, queue', e)
  BY <1>1, SendFacts
<1> HIDE DEF e
<1>4. ChannelInv' /\ MainInv' /\ WaitInv'
  BY <1>1, <1>2, <1>3, OtherSent
<1>5. pc \notin {"first", "windows"}
  BY <1>1 DEF RunnerInv, InputInv
<1>6. InputInv'
  BY <1>1, <1>2, <1>3, <1>5, SendKeepsInput DEF RunnerInv
<1>7. RunnerTypeOK'
  BY <1>1, <1>3 DEF RunnerInv, RunnerTypeOK, CloseWindow, env, egui, runnerHistory, Sent
<1> QED
  BY <1>4, <1>6, <1>7 DEF RunnerInv

LEMMA InitWindowsKeeps ==
  ASSUME RunnerInv, InitWindows
  PROVE  RunnerInv'
<1>1. /\ queue \in Seq(Event) /\ pc = "windows" /\ pc' = "loop" /\ screen' = main.size
      /\ listening' = windows /\ queue' = queue \o Asks(Egui).out
      /\ UNCHANGED <<late, unreported>>
      /\ UNCHANGED <<surfaces, going, windows, main, shown, refused, replaced, held, blocked,
                     overlooked, shift, belief, crossed, dropped>>
  BY DEF RunnerInv, RunnerTypeOK, InitWindows, env, runnerHistory
<1>2. InputInv'
  BY <1>1 DEF RunnerInv, InputInv
<1>3. ChannelInv' /\ MainInv' /\ WaitInv' /\ queue' \in Seq(Event)
  <2>1. CASE Asks(Egui).out = <<>>
    <3>1. queue' = queue
      BY <1>1, <2>1
    <3>2. ChannelInv'
      BY <1>1, <3>1 DEF RunnerInv, ChannelInv, OneThread, EndsAfter, EndTold, SizeTold,
                        Alternates, BeginningTold, ShiftTold, After, IsAdded, IsDestroyed,
                        IsAbout, IsShift
    <3>3. MainInv'
      BY <1>1, <3>1 DEF RunnerInv, MainInv, Live, Ending, PendingOf, IsAdded, IsDestroyed
    <3>4. WaitInv'
      BY <1>1, <3>1 DEF RunnerInv, WaitInv, Known, Live, IsAdded
    <3> QED
      BY <1>1, <3>1, <3>2, <3>3, <3>4
  <2>2. CASE \E e \in Quiet : Asks(Egui).out = <<e>>
    <3>1. PICK e \in Quiet : Asks(Egui).out = <<e>>
      BY <2>2
    <3>2. e \in Event /\ e.kind \notin {"added", "resized", "destroyed", "key"}
      BY DEF Quiet
    <3>3. queue' = Append(queue, e)
      BY <1>1, <3>1, <3>2
    <3>4. Sent(queue, queue', e)
      <4>1. \A k \in DOMAIN queue : queue[k] \in Event
        BY <1>1
      <4> QED
        BY <1>1, <3>2, <3>3, <4>1, SentFacts DEF Sent
    <3> QED
      BY <1>1, <3>2, <3>4, OtherSent DEF Sent
  <2> QED
    BY <2>1, <2>2, AskSends DEF RunnerInv
<1>4. asked' \in BOOLEAN /\ again' \in BOOLEAN /\ pass' \in 0..3
  BY EguiFacts, AskFacts DEF RunnerInv, InitWindows, Becomes, EguiState
<1>5. RunnerTypeOK'
  BY <1>1, <1>3, <1>4 DEF RunnerInv, RunnerTypeOK, InitWindows, env, runnerHistory
<1> QED
  BY <1>2, <1>3, <1>5 DEF RunnerInv
-----------------------------------------------------------------------------
(* What the runner does.                                                   *)

EguiTypes == asked \in BOOLEAN /\ again \in BOOLEAN /\ pass \in 0..3

LEMMA HeadFacts ==
  ASSUME RunnerTypeOK, queue # <<>>
  PROVE  Next1 = queue[1] /\ queue[1] \in Event /\ 1 \in DOMAIN queue
<1>1. queue \in Seq(Event)
  BY DEF RunnerTypeOK
<1> QED
  BY <1>1, RestFacts DEF Next1, Shifted

LEMMA TakenFacts ==
  ASSUME RunnerTypeOK, queue # <<>>, queue' = Rest
  PROVE  Shifted(queue, queue')
<1>1. queue \in Seq(Event)
  BY DEF RunnerTypeOK
<1> QED
  BY <1>1, RestFacts DEF Rest

LEMMA HandledFacts ==
  ASSUME RunnerTypeOK, queue # <<>>, HandledThenAsk
  PROVE  Shifted(queue, queue') /\ EguiTypes'
<1>1. queue \in Seq(Event)
  BY DEF RunnerTypeOK
<1>2. Asks(Egui) \in EguiState
  BY EguiFacts, AskFacts
<1>3. Asks(Egui).out \in Seq(Quiet) /\ EguiTypes'
  BY <1>2 DEF EguiState, EguiTypes, HandledThenAsk, Becomes
<1> QED
  BY <1>1, <1>3, ReadFacts DEF HandledThenAsk, Rest

(* Waiting for a surface, the runner throws an event away. *)
LEMMA DiscardKeeps ==
  ASSUME RunnerInv, Discard
  PROVE  RunnerInv'
<1>1. /\ pc \in {"first", "wait"} /\ queue # <<>> /\ Next1.kind # "added" /\ queue' = Rest
      /\ dropped' = IF pc = "wait" /\ Next1.kind \in {"repaint", "window", "key", "unblocked"}
                      THEN dropped \cup {Next1.kind} ELSE dropped
      /\ UNCHANGED <<late, unreported>>
      /\ UNCHANGED <<surfaces, going, windows, held, listening, blocked, pc, main, screen, shown,
                     shift, unseen, belief, overlooked, replaced, refused, crossed, use, asked,
                     again, pass>>
  BY DEF Discard, env, egui
<1>2. /\ Next1 = queue[1] /\ queue[1] \in Event /\ Shifted(queue, queue')
      /\ 1 \in DOMAIN queue
  BY <1>1, HeadFacts, TakenFacts DEF RunnerInv
<1>3. ChannelInv'
  BY <1>1, <1>2, ReadKeepsChannel DEF RunnerInv
<1>4. MainInv'
  BY <1>1 DEF MainInv
<1>5. WaitInv'
  BY <1>1, <1>2, ReadKeepsWait DEF RunnerInv, IsAdded
<1>6. InputInv'
  <2>1. CASE pc = "first"
    <3>1. \A x : Pending(x)' => Pending(x)
      <4>1. queue' = Tail(queue) /\ queue \in Seq(Event)
        BY <1>1 DEF Rest, RunnerInv, RunnerTypeOK
      <4>2. \A k \in DOMAIN queue' : k + 1 \in DOMAIN queue /\ queue'[k] = queue[k + 1]
        BY <1>1, <4>1
      <4> QED
        BY <4>2 DEF Pending
    <3> QED
      BY <1>1, <2>1, <3>1 DEF RunnerInv, InputInv
  <2>2. CASE pc = "wait"
    <3>1. Learns
      BY <1>1, <1>2, <2>2 DEF Learns, IsShift
    <3>2. blocked /\ ~belief => crossed
      BY <2>2 DEF RunnerInv, InputInv
    <3>3. queue[1].kind = "unblocked" => "unblocked" \in dropped'
      BY <1>1, <1>2, <2>2
    <3> QED
      BY <1>1, <1>2, <2>2, <3>1, <3>2, <3>3, ReadKeepsInput DEF RunnerInv
  <2> QED
    BY <1>1, <2>1, <2>2
<1>7. RunnerTypeOK'
  BY <1>1, <1>2 DEF RunnerInv, RunnerTypeOK, Shifted
<1> QED
  BY <1>3, <1>4, <1>5, <1>6, <1>7 DEF RunnerInv

LEMMA FindKeeps ==
  ASSUME RunnerInv, FindSurface
  PROVE  RunnerInv'
<1>1. /\ pc \in {"first", "wait"} /\ queue # <<>> /\ Next1.kind = "added"
      /\ main' = [id |-> Next1.id, size |-> Next1.size] /\ Commit(Next1.id)
      /\ (replaced' <=> pc = "wait") /\ replaced' \in BOOLEAN
      /\ overlooked' = overlooked \ {Next1.id}
      /\ UNCHANGED <<late, unreported>>
      /\ UNCHANGED <<surfaces, going, windows, held, listening, blocked, screen, shift, unseen,
                     belief, dropped, crossed, use>>
  BY DEF FindSurface, env
<1>2. \/ pc = "first" /\ pc' = "windows" /\ queue' = Rest /\ UNCHANGED egui
      \/ pc = "wait" /\ pc' = "loop" /\ HandledThenAsk
  BY <1>1 DEF FindSurface
<1>3. /\ Next1 = queue[1] /\ queue[1] \in Event /\ Shifted(queue, queue') /\ EguiTypes'
      /\ 1 \in DOMAIN queue
  <2>1. EguiTypes
    BY DEF RunnerInv, RunnerTypeOK, EguiTypes
  <2> QED
    BY <1>1, <1>2, <2>1, HeadFacts, TakenFacts, HandledFacts DEF RunnerInv, EguiTypes, egui
<1>4. queue[1].id \in Ids /\ queue[1].size \in Sizes
  BY <1>1, <1>3, EventFacts
<1>5. ChannelInv'
  BY <1>1, <1>3, ReadKeepsChannel DEF RunnerInv
<1>6. MainInv'
  BY <1>1, <1>2, <1>3, FindKeepsMain DEF RunnerInv
<1>7. WaitInv'
  BY <1>1, <1>2, <1>3, ReadKeepsWait DEF RunnerInv, IsAdded
<1>8. InputInv'
  <2>1. CASE pc = "first"
    <3>1. \A x : Pending(x)' => Pending(x)
      <4>1. queue' = Tail(queue) /\ queue \in Seq(Event)
        BY <1>2, <2>1 DEF Rest, RunnerInv, RunnerTypeOK
      <4>2. \A k \in DOMAIN queue' : k + 1 \in DOMAIN queue /\ queue'[k] = queue[k + 1]
        BY <1>1, <4>1
      <4> QED
        BY <4>2 DEF Pending
    <3> QED
      BY <1>1, <1>2, <2>1, <3>1 DEF RunnerInv, InputInv
  <2>2. CASE pc = "wait"
    <3>1. Learns
      BY <1>1, <1>3, <2>2 DEF Learns, IsShift
    <3>2. blocked /\ ~belief => crossed
      BY <2>2 DEF RunnerInv, InputInv
    <3> QED
      BY <1>1, <1>2, <1>3, <2>2, <3>1, <3>2, ReadKeepsInput DEF RunnerInv
  <2> QED
    BY <1>1, <2>1, <2>2
<1>9. RunnerTypeOK'
  <2>1. shown' \subseteq Ids /\ refused' \in BOOLEAN
    BY <1>1, <1>3, <1>4 DEF Commit
  <2>2. main' \in [id : Ids \cup {Nothing}, size : Sizes] /\ main'.id # Nothing
    BY <1>1, <1>3, <1>4
  <2> QED
    BY <1>1, <1>2, <1>3, <2>1, <2>2 DEF RunnerInv, RunnerTypeOK, Shifted, EguiTypes
<1> QED
  BY <1>5, <1>6, <1>7, <1>8, <1>9 DEF RunnerInv

LEMMA IgnoredKeeps ==
  ASSUME RunnerInv, ReadIgnored
  PROVE  RunnerInv'
<1>1. /\ pc = "loop" /\ queue # <<>> /\ queue' = Rest
      /\ Next1.kind = "added" \/ (Next1.kind \in {"resized", "destroyed"} /\ Next1.id # main.id)
      /\ overlooked' = IF Next1.kind = "added" /\ surfaces[Next1.id] # Nothing
                         THEN overlooked \cup {Next1.id} ELSE overlooked
      /\ UNCHANGED <<late, unreported>>
      /\ UNCHANGED <<surfaces, going, windows, held, listening, blocked, pc, main, screen, shown,
                     shift, unseen, belief, dropped, replaced, refused, crossed, use, asked,
                     again, pass>>
  BY DEF ReadIgnored, Ignored, Reads, env, egui
<1>2. /\ Next1 = queue[1] /\ queue[1] \in Event /\ Shifted(queue, queue')
  BY <1>1, HeadFacts, TakenFacts DEF RunnerInv
<1>3. ChannelInv'
  BY <1>1, <1>2, ReadKeepsChannel DEF RunnerInv
<1>4. MainInv'
  <2>1. screen' = main'.size \/ replaced'
    BY <1>1 DEF RunnerInv, MainInv
  <2>2. ~IsDestroyed(1, main.id)
    BY <1>1, <1>2 DEF IsDestroyed
  <2> QED
    BY <1>1, <1>2, <2>1, <2>2, ReadKeepsMain DEF RunnerInv
<1>5. WaitInv'
  BY <1>1, <1>2, ReadKeepsWait DEF RunnerInv, IsAdded, Live
<1>6. InputInv'
  <2>1. Learns
    BY <1>1, <1>2 DEF Learns, IsShift
  <2>2. blocked /\ ~belief => crossed
    BY <1>1 DEF RunnerInv, InputInv
  <2> QED
    BY <1>1, <1>2, <2>1, <2>2, ReadKeepsInput DEF RunnerInv
<1>7. RunnerTypeOK'
  <2>1. Next1.kind = "added" => Next1.id \in Ids
    BY <1>2, EventFacts
  <2> QED
    BY <1>1, <1>2, <2>1 DEF RunnerInv, RunnerTypeOK, Shifted
<1> QED
  BY <1>3, <1>4, <1>5, <1>6, <1>7 DEF RunnerInv

LEMMA ResizedKeeps ==
  ASSUME RunnerInv, ReadResized
  PROVE  RunnerInv'
<1>1. /\ pc = "loop" /\ queue # <<>> /\ HandledThenAsk
      /\ Next1.kind = "resized" /\ Next1.id = main.id
      /\ main' = [main EXCEPT !.size = Next1.size]
      /\ UNCHANGED <<shown, refused>> \/ Commit(main.id)
      /\ screen' = Next1.size /\ replaced' = FALSE
      /\ UNCHANGED <<late, unreported>>
      /\ UNCHANGED <<surfaces, going, windows, held, listening, blocked, pc, shift, unseen,
                     belief, dropped, overlooked, crossed, use>>
  BY DEF ReadResized, Reads, env
<1>2. /\ Next1 = queue[1] /\ queue[1] \in Event /\ Shifted(queue, queue') /\ EguiTypes'
  BY <1>1, HeadFacts, HandledFacts DEF RunnerInv
<1>3. queue[1].id \in Ids /\ queue[1].size \in Sizes
  BY <1>1, <1>2, EventFacts
<1>4. main'.id = main.id /\ main'.size = queue[1].size
      /\ main' \in [id : Ids \cup {Nothing}, size : Sizes] /\ main.id = queue[1].id
  BY <1>1, <1>2, <1>3 DEF RunnerInv, RunnerTypeOK
<1>5. ChannelInv'
  BY <1>1, <1>2, ReadKeepsChannel DEF RunnerInv
<1>6. MainInv'
  <2>1. ~IsDestroyed(1, main.id)
    BY <1>1, <1>2 DEF IsDestroyed
  <2> QED
    BY <1>1, <1>2, <1>4, <2>1, ReadKeepsMain DEF RunnerInv
<1>7. WaitInv'
  BY <1>1, <1>2, <1>4, ReadKeepsWait DEF RunnerInv, IsAdded
<1>8. InputInv'
  <2>1. Learns
    BY <1>1, <1>2 DEF Learns, IsShift
  <2>2. blocked /\ ~belief => crossed
    BY <1>1 DEF RunnerInv, InputInv
  <2> QED
    BY <1>1, <1>2, <2>1, <2>2, ReadKeepsInput DEF RunnerInv
<1>9. RunnerTypeOK'
  <2>1. shown' \subseteq Ids /\ refused' \in BOOLEAN
    <3>1. shown \subseteq Ids /\ refused \in BOOLEAN
      BY DEF RunnerInv, RunnerTypeOK
    <3> QED
      BY <1>1, <1>2, <1>3, <3>1 DEF Commit
  <2> QED
    BY <1>1, <1>2, <1>3, <1>4, <2>1 DEF RunnerInv, RunnerTypeOK, Shifted, EguiTypes
<1> QED
  BY <1>5, <1>6, <1>7, <1>8, <1>9 DEF RunnerInv

LEMMA DestroyedKeeps ==
  ASSUME RunnerInv, ReadDestroyed
  PROVE  RunnerInv'
<1>1. /\ pc = "loop" /\ queue # <<>> /\ queue' = Rest /\ pc' = "wait"
      /\ Next1.kind = "destroyed" /\ Next1.id = main.id
      /\ UNCHANGED <<late, unreported>>
      /\ UNCHANGED <<surfaces, going, windows, held, listening, blocked, main, screen, shown,
                     shift, unseen, belief, dropped, overlooked, replaced, refused, crossed, use,
                     asked, again, pass>>
  BY DEF ReadDestroyed, Reads, env, egui, runnerHistory
<1>2. /\ Next1 = queue[1] /\ queue[1] \in Event /\ Shifted(queue, queue')
  BY <1>1, HeadFacts, TakenFacts DEF RunnerInv
<1>3. ChannelInv'
  BY <1>1, <1>2, ReadKeepsChannel DEF RunnerInv
<1>4. MainInv'
  BY <1>1 DEF MainInv
<1>5. WaitInv'
  BY <1>1, <1>2, ReadKeepsWait DEF RunnerInv, IsAdded, IsDestroyed
<1>6. InputInv'
  <2>1. Learns
    BY <1>1, <1>2 DEF Learns, IsShift
  <2>2. blocked /\ ~belief => crossed
    BY <1>1 DEF RunnerInv, InputInv
  <2> QED
    BY <1>1, <1>2, <2>1, <2>2, ReadKeepsInput DEF RunnerInv
<1>7. RunnerTypeOK'
  BY <1>1, <1>2 DEF RunnerInv, RunnerTypeOK, Shifted
<1> QED
  BY <1>3, <1>4, <1>5, <1>6, <1>7 DEF RunnerInv

(* An event that is not about a surface is read in the loop. *)
LEMMA OtherRead ==
  ASSUME RunnerInv, pc = "loop", UNCHANGED pc, Shifted(queue, queue'),
         queue[1].kind \notin {"added", "resized", "destroyed"},
         UNCHANGED <<surfaces, going, late, unreported, held, main, screen, shown, overlooked,
                     replaced, refused>>
  PROVE  ChannelInv' /\ MainInv' /\ WaitInv'
<1>1. ChannelInv'
  BY ReadKeepsChannel DEF RunnerInv
<1>2. MainInv'
  <2>1. screen' = main'.size \/ replaced'
    BY DEF RunnerInv, MainInv
  <2>2. ~IsDestroyed(1, main.id)
    BY DEF IsDestroyed
  <2> QED
    BY <2>1, <2>2, ReadKeepsMain DEF RunnerInv
<1>3. WaitInv'
  BY ReadKeepsWait DEF RunnerInv, IsAdded
<1> QED
  BY <1>1, <1>2, <1>3

LEMMA WindowKeeps ==
  ASSUME RunnerInv, ReadWindow
  PROVE  RunnerInv'
<1>1. /\ pc = "loop" /\ queue # <<>> /\ queue' = Rest /\ Next1.kind = "window"
      /\ listening' = listening \cup ({Next1.window} \cap windows)
      /\ UNCHANGED <<late, unreported>>
      /\ UNCHANGED <<surfaces, going, windows, held, blocked, pc, main, screen, shown,
                     shift, unseen, belief, dropped, overlooked, replaced, refused, crossed, use,
                     asked, again, pass>>
  BY DEF ReadWindow, Reads, env, egui, runnerHistory
<1>2. /\ Next1 = queue[1] /\ queue[1] \in Event /\ Shifted(queue, queue')
  BY <1>1, HeadFacts, TakenFacts DEF RunnerInv
<1>3. ChannelInv' /\ MainInv' /\ WaitInv'
  BY <1>1, <1>2, OtherRead
<1>4. InputInv'
  <2>1. Learns
    BY <1>1, <1>2 DEF Learns, IsShift
  <2>2. blocked /\ ~belief => crossed
    BY <1>1 DEF RunnerInv, InputInv
  <2> QED
    BY <1>1, <1>2, <2>1, <2>2, ReadKeepsInput DEF RunnerInv
<1>5. RunnerTypeOK'
  BY <1>1, <1>2 DEF RunnerInv, RunnerTypeOK, Shifted
<1> QED
  BY <1>3, <1>4, <1>5 DEF RunnerInv

LEMMA KeyKeeps ==
  ASSUME RunnerInv, ReadKey
  PROVE  RunnerInv'
<1>1. /\ pc = "loop" /\ queue # <<>> /\ HandledThenAsk /\ Next1.kind = "key"
      /\ UpdateModifiers(ConvKey(Next1.key), Next1.pressed) /\ unseen' \in BOOLEAN
      /\ UNCHANGED <<late, unreported>>
      /\ UNCHANGED <<surfaces, going, windows, held, listening, blocked, pc, main, screen, shown,
                     belief, dropped, overlooked, replaced, refused, crossed, use>>
  BY DEF ReadKey, Reads, env, runnerHistory
<1>2. /\ Next1 = queue[1] /\ queue[1] \in Event /\ Shifted(queue, queue') /\ EguiTypes'
  BY <1>1, HeadFacts, HandledFacts DEF RunnerInv
<1>3. queue[1].key \in Keys /\ queue[1].pressed \in BOOLEAN
  BY <1>1, <1>2, EventFacts
<1>4. ChannelInv' /\ MainInv' /\ WaitInv'
  BY <1>1, <1>2, OtherRead
<1>5. shift' = IF queue[1].key = "shift" THEN queue[1].pressed ELSE shift
  BY <1>1, <1>2, <1>3 DEF UpdateModifiers, ConvKey, Keys
<1>6. InputInv'
  <2>1. Learns
    BY <1>1, <1>2, <1>5 DEF Learns, IsShift
  <2>2. blocked /\ ~belief => crossed
    BY <1>1 DEF RunnerInv, InputInv
  <2> QED
    BY <1>1, <1>2, <2>1, <2>2, ReadKeepsInput DEF RunnerInv
<1>7. RunnerTypeOK'
  BY <1>1, <1>2, <1>3, <1>5 DEF RunnerInv, RunnerTypeOK, Shifted, EguiTypes
<1> QED
  BY <1>4, <1>6, <1>7 DEF RunnerInv

LEMMA UnblockedKeeps ==
  ASSUME RunnerInv, ReadUnblocked
  PROVE  RunnerInv'
<1>1. /\ pc = "loop" /\ queue # <<>> /\ HandledThenAsk /\ Next1.kind = "unblocked"
      /\ belief' = FALSE /\ (crossed' <=> (crossed \/ (belief /\ blocked))) /\ crossed' \in BOOLEAN
      /\ UNCHANGED <<late, unreported>>
      /\ UNCHANGED <<surfaces, going, windows, held, listening, blocked, pc, main, screen, shown,
                     shift, unseen, dropped, overlooked, replaced, refused, use>>
  BY DEF ReadUnblocked, Reads, env
<1>2. /\ Next1 = queue[1] /\ queue[1] \in Event /\ Shifted(queue, queue') /\ EguiTypes'
  BY <1>1, HeadFacts, HandledFacts DEF RunnerInv
<1>3. ChannelInv' /\ MainInv' /\ WaitInv'
  BY <1>1, <1>2, OtherRead
<1>4. InputInv'
  <2>1. Learns
    BY <1>1, <1>2 DEF Learns, IsShift
  <2>2. blocked /\ ~belief => crossed
    BY <1>1 DEF RunnerInv, InputInv
  <2> QED
    BY <1>1, <1>2, <2>1, <2>2, ReadKeepsInput DEF RunnerInv
<1>5. RunnerTypeOK'
  BY <1>1, <1>2 DEF RunnerInv, RunnerTypeOK, Shifted, EguiTypes
<1> QED
  BY <1>3, <1>4, <1>5 DEF RunnerInv

LEMMA SkipKeeps ==
  ASSUME RunnerInv, SkipRepaint
  PROVE  RunnerInv'
<1>1. /\ pc = "loop" /\ queue # <<>> /\ queue' = Rest /\ Next1.kind = "repaint"
      /\ UNCHANGED <<late, unreported>>
      /\ UNCHANGED <<surfaces, going, windows, held, listening, blocked, pc, main, screen, shown,
                     shift, unseen, belief, dropped, overlooked, replaced, refused, crossed, use,
                     asked, again, pass>>
  BY DEF SkipRepaint, Reads, env, egui, runnerHistory
<1>2. /\ Next1 = queue[1] /\ queue[1] \in Event /\ Shifted(queue, queue')
  BY <1>1, HeadFacts, TakenFacts DEF RunnerInv
<1>3. ChannelInv' /\ MainInv' /\ WaitInv'
  BY <1>1, <1>2, OtherRead
<1>4. InputInv'
  <2>1. Learns
    BY <1>1, <1>2 DEF Learns, IsShift
  <2>2. blocked /\ ~belief => crossed
    BY <1>1 DEF RunnerInv, InputInv
  <2> QED
    BY <1>1, <1>2, <2>1, <2>2, ReadKeepsInput DEF RunnerInv
<1>5. RunnerTypeOK'
  BY <1>1, <1>2 DEF RunnerInv, RunnerTypeOK, Shifted
<1> QED
  BY <1>3, <1>4, <1>5 DEF RunnerInv

LEMMA RepaintKeeps ==
  ASSUME RunnerInv, Repaint
  PROVE  RunnerInv'
<1>1. /\ pc = "loop" /\ queue # <<>> /\ Next1.kind = "repaint" /\ unseen' = FALSE
      /\ UNCHANGED <<late, unreported>>
      /\ UNCHANGED <<surfaces, going, windows, held, listening, pc, main, screen, shown,
                     shift, dropped, overlooked, replaced, refused, crossed, use>>
  BY DEF Repaint, Reads, env, runnerHistory
<1>2. PICK g \in Runs(Egui), sent \in {<<>>, <<[kind |-> "unblocked"]>>} :
        Becomes(g) /\ Blocking(sent) /\ queue' = Rest \o g.out \o sent
  BY DEF Repaint
<1>3. g.out \in Seq(Quiet) /\ EguiTypes'
  <2>1. g \in EguiState
    BY EguiFacts, RunFacts DEF RunnerInv
  <2> QED
    BY <1>2, <2>1 DEF EguiState, EguiTypes, Becomes
<1>4. sent \in Seq(Quiet)
  <2>1. [kind |-> "unblocked"] \in Quiet
    BY DEF Quiet, Event
  <2>2. CASE sent = <<>>
    BY <2>2
  <2>3. CASE sent = <<[kind |-> "unblocked"]>>
    BY <2>1, <2>3
  <2> QED
    BY <2>2, <2>3
<1>5. Next1 = queue[1] /\ queue[1] \in Event /\ Shifted(queue, queue')
  <2>1. queue \in Seq(Event)
    BY DEF RunnerInv, RunnerTypeOK
  <2>2. g.out \in Seq(Event) /\ sent \in Seq(Event) /\ Tail(queue) \in Seq(Event)
    BY <1>1, <1>3, <1>4, <2>1 DEF Quiet
  <2>3. Tail(queue) \o g.out \o sent = Tail(queue) \o (g.out \o sent)
    BY <2>2, EventsJoin
  <2>4. g.out \o sent \in Seq(Quiet)
    BY <1>3, <1>4
  <2> QED
    BY <1>1, <1>2, <2>1, <2>3, <2>4, ReadFacts, HeadFacts DEF Rest, RunnerInv
<1>6. ChannelInv' /\ MainInv' /\ WaitInv'
  BY <1>1, <1>5, OtherRead
<1>7. InputInv'
  <2>1. Learns
    BY <1>1, <1>5 DEF Learns, IsShift
  <2>2. blocked /\ ~belief => crossed
    BY <1>1 DEF RunnerInv, InputInv
  <2>3. \/ UNCHANGED <<belief, blocked>>
        \/ belief' = TRUE /\ blocked' = TRUE
        \/ belief' = FALSE /\ blocked' = FALSE
    BY <1>2 DEF Blocking
  <2> QED
    BY <1>1, <1>5, <2>1, <2>2, <2>3, ReadKeepsInput DEF RunnerInv
<1>8. RunnerTypeOK'
  <2>1. belief' \in BOOLEAN /\ blocked' \in BOOLEAN
    <3>1. belief \in BOOLEAN /\ blocked \in BOOLEAN
      BY DEF RunnerInv, RunnerTypeOK
    <3> QED
      BY <1>2, <3>1 DEF Blocking
  <2> QED
    BY <1>1, <1>3, <1>5, <2>1 DEF RunnerInv, RunnerTypeOK, Shifted, EguiTypes
<1> QED
  BY <1>6, <1>7, <1>8 DEF RunnerInv

(* When the runner has ended, only the channel is still of interest. *)
LEMMA FailsKeep ==
  ASSUME RunnerInv, Fails
  PROVE  RunnerInv'
<1>1. /\ queue # <<>> /\ queue' = Rest /\ pc' = "ended"
      /\ UNCHANGED <<late, unreported>>
      /\ UNCHANGED <<surfaces, going, windows, held, listening, blocked, main, screen, shown,
                     shift, unseen, belief, dropped, overlooked, replaced, refused, crossed, use,
                     asked, again, pass>>
  BY DEF Fails, FindFails, ResizeFails, RenderFails, Reads, env, egui, runnerHistory
<1>2. Shifted(queue, queue')
  BY <1>1, TakenFacts DEF RunnerInv
<1>3. ChannelInv'
  BY <1>1, <1>2, ReadKeepsChannel DEF RunnerInv
<1>4. MainInv' /\ WaitInv' /\ InputInv'
  BY <1>1 DEF MainInv, WaitInv, InputInv
<1>5. RunnerTypeOK'
  BY <1>1, <1>2 DEF RunnerInv, RunnerTypeOK, Shifted
<1> QED
  BY <1>3, <1>4, <1>5 DEF RunnerInv
-----------------------------------------------------------------------------
(* The theorems.                                                           *)

LEMMA RunnerStarts == RunnerInit => RunnerInv
<1> SUFFICES ASSUME RunnerInit PROVE RunnerInv
  OBVIOUS
<1>1. RunnerTypeOK
  <2>1. /\ {held, blocked, shift, unseen, belief, asked, again, replaced, refused, crossed,
            unreported} \subseteq BOOLEAN
        /\ main \in [id : Ids \cup {Nothing}, size : Sizes] /\ screen \in Sizes
        /\ surfaces \in [Ids -> Sizes \cup {Nothing}]
    BY DEF RunnerInit
  <2>2. /\ use \in Cases /\ going = [x \in Ids |-> 0] /\ shown = {} /\ overlooked = {} /\ late = {}
        /\ windows = {} /\ listening = {} /\ queue \in Seq(Event) /\ pc = "first" /\ pass = 0
    BY DEF RunnerInit
  <2>3. dropped \subseteq {"repaint", "window", "key", "unblocked"}
    BY DEF RunnerInit
  <2> QED
    BY <2>1, <2>2, <2>3 DEF RunnerTypeOK
<1>2. ChannelInv /\ MainInv /\ WaitInv
  BY DEF RunnerInit, ChannelInv, OneThread, MainInv, WaitInv, Live
<1>3. InputInv
  BY DEF RunnerInit, InputInv, Pending
<1> QED
  BY <1>1, <1>2, <1>3 DEF RunnerInv

LEMMA RunnerSteps == RunnerInv /\ [RunnerNext]_runnerVars => RunnerInv'
<1> SUFFICES ASSUME RunnerInv, [RunnerNext]_runnerVars PROVE RunnerInv'
  OBVIOUS
<1>1. CASE App
  <2>1. use.ids \subseteq Ids /\ use.sizes \subseteq Sizes /\ use.windows \subseteq Windows
        /\ use.keys \subseteq Keys
    BY DEF RunnerInv, RunnerTypeOK
  <2> QED
    BY <1>1, <2>1, AddKeeps, ResizeKeeps, RemoveKeeps, TellKeeps, AddWindowKeeps,
       RemoveWindowKeeps, PressKeeps, UnheardKeeps, CloseKeeps DEF App
<1>2. CASE Runner
  BY <1>2, DiscardKeeps, FindKeeps, InitWindowsKeeps, IgnoredKeeps, ResizedKeeps, DestroyedKeeps,
     WindowKeeps, KeyKeeps, UnblockedKeeps, SkipKeeps, RepaintKeeps DEF Runner
<1>3. CASE Fails
  BY <1>3, FailsKeep
<1>4. CASE UNCHANGED runnerVars
  <2>1. UNCHANGED <<late, unreported, surfaces, going, windows, held, listening, blocked, queue,
                    pc, main, screen, shown, shift, unseen, belief, dropped, overlooked,
                    replaced, refused, crossed, use, asked, again, pass>>
    BY <1>4 DEF runnerVars, env, egui, runnerHistory
  <2>2. RunnerTypeOK'
    BY <2>1 DEF RunnerInv, RunnerTypeOK
  <2>3. ChannelInv'
    BY <2>1 DEF RunnerInv, ChannelInv, OneThread, EndsAfter, EndTold, SizeTold, Alternates,
                BeginningTold, ShiftTold, After, IsAdded, IsDestroyed, IsAbout, IsShift
  <2>4. MainInv' /\ WaitInv'
    BY <2>1 DEF RunnerInv, MainInv, WaitInv, Known, Live, Ending, PendingOf, IsAdded, IsDestroyed
  <2>5. InputInv'
    BY <2>1 DEF RunnerInv, InputInv, Pending, WindowPending, IsShift
  <2> QED
    BY <2>2, <2>3, <2>4, <2>5 DEF RunnerInv
<1> QED
  BY <1>1, <1>2, <1>3, <1>4 DEF RunnerNext

LEMMA RunnerStands == RunnerSpec => []RunnerInv
BY RunnerStarts, RunnerSteps, PTL DEF RunnerSpec

(* With every event read, the runner is on a surface there is, and renders *)
(* at its size to the texture that it shows (overlay_event,                *)
(* next_main_surface), whatever surfaces come, go and give out their ids   *)
(* again, and in whatever order, clean-ups of Direct3D 9 that run into     *)
(* each other and into presents included; but for surfaces that came while *)
(* it was on another and those announced before a late Destroyed.          *)
THEOREM RunnerDrawsOnMain == RunnerSpec => []DrawsOnMain
<1>1. RunnerInv => DrawsOnMain
  <2> SUFFICES ASSUME RunnerInv PROVE DrawsOnMain
    OBVIOUS
  <2>1. \A i \in Ids : (\E k \in DOMAIN queue : IsAdded(k, i)) => PendingOf(i)
    BY DEF IsAdded, PendingOf
  <2>2. \A i : Ending(i) => (i \in Ids /\ going[i] > 0) \/ PendingOf(i)
    BY DEF Ending, IsDestroyed, PendingOf
  <2>3. MainFollows
    <3> SUFFICES ASSUME pc \in {"first", "loop", "wait"},
                        \A i \in Ids : going[i] = 0 /\ ~PendingOf(i)
                 PROVE  \/ pc = "loop" /\ Live(main.id)
                        \/ \A i \in Ids : Live(i) => i \in overlooked \cup late
      BY DEF MainFollows
    <3>1. CASE pc = "loop"
      <4>1. main.id \in Ids
        BY <3>1 DEF RunnerInv, RunnerTypeOK
      <4> QED
        BY <2>2, <3>1, <4>1 DEF RunnerInv, MainInv
    <3>2. CASE pc \in {"first", "wait"}
      BY <2>1, <3>2 DEF RunnerInv, WaitInv, Known
    <3> QED
      BY <3>1, <3>2
  <2>4. RendersWhatIsShown
    BY <2>2 DEF RendersWhatIsShown, RunnerInv, MainInv
  <2>5. SizesAgree
    BY DEF SizesAgree, RunnerInv, MainInv
  <2> QED
    BY <2>3, <2>4, <2>5 DEF DrawsOnMain, RunnerInv
<1> QED
  BY <1>1, RunnerStands, PTL

(* What the runner and the application know of windows, keys and blocking  *)
(* is true once the events about it were read, but for what                *)
(* next_main_surface threw away, a shift key that changed out of hearing   *)
(* and has sent nothing since, and an end of blocking that crossed a new   *)
(* block_input.                                                            *)
THEOREM RunnerInputAgrees == RunnerSpec => []InputAgrees
<1>1. RunnerInv => InputAgrees
  <2> SUFFICES ASSUME RunnerInv PROVE InputAgrees
    OBVIOUS
  <2>1. AllListened
    BY DEF AllListened, RunnerInv, InputInv, WindowPending
  <2>2. ModifiersAgree
    <3>1. (\E k \in DOMAIN queue : IsShift(k)) => Pending("key")
      BY DEF IsShift, Pending
    <3>2. shift \in BOOLEAN /\ held \in BOOLEAN
      BY DEF RunnerInv, RunnerTypeOK
    <3> QED
      BY <3>1, <3>2 DEF ModifiersAgree, RunnerInv, InputInv
  <2>3. BlockingKnown
    <3>1. belief \in BOOLEAN /\ blocked \in BOOLEAN
      BY DEF RunnerInv, RunnerTypeOK
    <3> QED
      BY <3>1 DEF BlockingKnown, RunnerInv, InputInv
  <2> QED
    BY <2>1, <2>2, <2>3 DEF InputAgrees
<1> QED
  BY <1>1, RunnerStands, PTL
=============================================================================

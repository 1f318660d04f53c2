-------------------------- MODULE DoomInputProofs --------------------------
(* The input code, for every size of the ring and every keyboard whose     *)
(* codes find room in it: D_PostEvent never fills the ring, no key is      *)
(* taken to be down that is not, and every key is heard once, in order and *)
(* as it was typed.                                                        *)
EXTENDS DoomInput, Iteration, SequenceTheorems, FiniteSetTheorems

LEMMA InitRoom == Init => TypeOK /\ Room
BY InputConstants DEF Init, TypeOK, Room, Occupied, Queue!ShiftKeys

(* Putting in takes one more slot, taking out gives one back.              *)
LEMMA OnePosted ==
  ASSUME TypeOK, Occupied < MAXEVENTS - 1, eventhead' = Following(eventhead),
         eventtail' = eventtail
  PROVE  /\ Following(eventhead) # eventtail /\ eventhead' \in 0..MAXEVENTS-1
         /\ Occupied' = Occupied + 1
BY InputConstants DEF TypeOK, Occupied, Following

LEMMA OneTaken ==
  ASSUME TypeOK, eventhead # eventtail, eventtail' = Following(eventtail),
         eventhead' = eventhead
  PROVE  eventtail' \in 0..MAXEVENTS-1
BY InputConstants DEF TypeOK, Following

LEMMA TypeRoom ==
  ASSUME TypeOK, Room, NEW c \in ScanCodes, Type(c)
  PROVE  TypeOK' /\ Room'
<1>1. PICK b \in BOOLEAN : keyboard' = Append(keyboard, [code |-> c, pressed |-> b])
  BY DEF Type
<1>2. /\ keyboard' \in Seq([code : ScanCodes, pressed : BOOLEAN])
      /\ Len(keyboard') = Len(keyboard) + 1
  BY <1>1 DEF TypeOK
<1>3. down' \subseteq ScanCodes /\ repeats' \in 0..MaxRepeats
  BY InputConstants DEF Type, TypeOK, Queue!Pushed, Queue!LetGo
<1>4. /\ Len(keyboard) < KbSize /\ (pc = "get" => late < Quick)
      /\ late' = IF pc = "get" THEN late + 1 ELSE late
      /\ pc' = pc /\ eventhead' = eventhead /\ eventtail' = eventtail
  BY DEF Type
<1>5. Len(keyboard) \in Nat
  BY DEF TypeOK
<1>6. TypeOK'
  BY <1>2, <1>3, <1>4, <1>5, InputConstants DEF TypeOK
<1>7. Occupied' = Occupied
  BY <1>4 DEF Occupied
<1>8. Occupied \in Int
  BY InputConstants DEF TypeOK, Occupied
<1> QED BY <1>2, <1>4, <1>5, <1>6, <1>7, <1>8, InputConstants DEF Room, TypeOK

(* What is taken from the keyboard is one code less there.                 *)
LEMMA OneRead ==
  ASSUME TypeOK, keyboard # <<>>, keyboard' = Tail(keyboard)
  PROVE  /\ keyboard' \in Seq([code : ScanCodes, pressed : BOOLEAN])
         /\ Len(keyboard') = Len(keyboard) - 1 /\ Len(keyboard) \in Nat \ {0}
<1>1. /\ keyboard \in Seq([code : ScanCodes, pressed : BOOLEAN])
      /\ Len(keyboard) \in Nat
  BY DEF TypeOK
<1> QED BY <1>1, HeadTailProperties, EmptySeq

LEMMA GetKeyRoom ==
  ASSUME TypeOK, Room, GetKey
  PROVE  TypeOK' /\ Room'
<1>1. /\ pc = "get" /\ keyboard # <<>> /\ keyboard' = Tail(keyboard)
      /\ pc' \in {"get", "process"} /\ eventhead' = Following(eventhead)
      /\ eventtail' = eventtail /\ late' = late /\ down' = down /\ repeats' = repeats
  BY DEF GetKey, Posts, GoesOn, D_PostEvent
<1>2. /\ keyboard' \in Seq([code : ScanCodes, pressed : BOOLEAN])
      /\ Len(keyboard') = Len(keyboard) - 1 /\ Len(keyboard) \in Nat \ {0}
  BY <1>1, OneRead
<1>3. Occupied + Len(keyboard) <= KbSize + late /\ late <= Quick /\ Occupied \in Int
  BY <1>1, InputConstants DEF Room, TypeOK, Occupied
<1>4. Occupied < MAXEVENTS - 1
  BY <1>2, <1>3, InputConstants DEF TypeOK
<1>5. eventhead' \in 0..MAXEVENTS-1 /\ Occupied' = Occupied + 1
  BY <1>1, <1>4, OnePosted
<1>6. TypeOK'
  BY <1>1, <1>2, <1>5, InputConstants DEF TypeOK
<1> QED BY <1>1, <1>2, <1>3, <1>5, <1>6, InputConstants DEF Room, TypeOK

LEMMA NoKeyToGetRoom ==
  ASSUME TypeOK, Room, NoKeyToGet
  PROVE  TypeOK' /\ Room'
<1>1. /\ keyboard' \in Seq([code : ScanCodes, pressed : BOOLEAN])
      /\ Len(keyboard') <= KbSize
  <2>1. CASE keyboard = <<>>
    BY <2>1 DEF NoKeyToGet, TypeOK
  <2>2. CASE keyboard # <<>>
    <3>1. keyboard' = Tail(keyboard)
      BY <2>2 DEF NoKeyToGet
    <3> QED BY <2>2, <3>1, OneRead, InputConstants DEF TypeOK
  <2> QED BY <2>1, <2>2
<1> QED BY <1>1 DEF NoKeyToGet, TypeOK, Room

LEMMA StepRoom == TypeOK /\ Room /\ [Next]_vars => TypeOK' /\ Room'
<1> SUFFICES ASSUME TypeOK, Room, [Next]_vars PROVE TypeOK' /\ Room'
  OBVIOUS
<1>1. CASE I_StartTic
  <2>1. Occupied = 0 /\ Occupied' = Occupied /\ Len(keyboard) <= KbSize
    BY <1>1 DEF I_StartTic, Room, Occupied, TypeOK
  <2> QED BY <1>1, <2>1, InputConstants DEF I_StartTic, TypeOK, Room
<1>2. CASE D_PopEvent
  <2>1. eventtail' \in 0..MAXEVENTS-1
    BY <1>2, OneTaken DEF D_PopEvent
  <2>2. pc' = "process"
    BY <1>2 DEF D_PopEvent, Again
  <2> QED BY <1>2, <2>1, <2>2 DEF D_PopEvent, TypeOK, Room
<1>3. CASE Processed
  BY <1>3, InputConstants DEF Processed, TypeOK, Room, Occupied
<1>4. CASE UNCHANGED vars
  BY <1>4 DEF vars, TypeOK, Room, Occupied
<1> QED
  BY <1>1, <1>2, <1>3, <1>4, TypeRoom, GetKeyRoom, NoKeyToGetRoom
     DEF Next, BuildNewTic

(* Whoever reads a code has a slot to put its event in.                    *)
THEOREM RingNeverFull == Spec => []NeverFull
<1>1. TypeOK /\ Room => NeverFull
  <2> SUFFICES ASSUME TypeOK, Room, pc = "get", keyboard # <<>>
               PROVE  Following(eventhead) # eventtail
    BY DEF NeverFull
  <2>1. Len(keyboard) \in Nat \ {0}
    BY DEF TypeOK
  <2>2. Occupied < MAXEVENTS - 1
    BY <2>1, InputConstants DEF TypeOK, Room, Occupied
  <2> QED BY <2>2, InputConstants DEF Occupied, Following, TypeOK
<1> QED BY <1>1, InitRoom, StepRoom, PTL DEF Spec

-----------------------------------------------------------------------------
(* No key is taken to be down that is not.  What counts is the last thing  *)
(* that will be heard of a key: the last code of it that waits in profanOS, *)
(* or if there is none, its last event in the ring, or what is known.      *)

(* The slot of the i-th event in the ring.                                 *)
At(i) == (eventtail + i - 1) % MAXEVENTS

Typed(k, i) == KeyOf[keyboard[i].code] = k
LastTyped(k) ==
  \E i \in 1 .. Len(keyboard) :
    /\ Typed(k, i) /\ keyboard[i].pressed
    /\ \A j \in i + 1 .. Len(keyboard) : ~Typed(k, j)
NotTyped(k) == \A i \in 1 .. Len(keyboard) : ~Typed(k, i)

Posted(k, i) == events[At(i)].key = k
LastPosted(k) ==
  \E i \in 1 .. Occupied :
    /\ Posted(k, i) /\ events[At(i)].type = "keydown"
    /\ \A j \in i + 1 .. Occupied : ~Posted(k, j)
NotPosted(k) == \A i \in 1 .. Occupied : ~Posted(k, i)

(* The key will be taken to be down, by the ring alone and in the end.     *)
Pending(k) == LastPosted(k) \/ (NotPosted(k) /\ k \in known)
Believed(k) == LastTyped(k) \/ (NotTyped(k) /\ Pending(k))

Held(k) == \E c \in down : KeyOf[c] = k
Honest ==
  /\ \A k : k # NoKey /\ Believed(k) => Held(k)
  /\ NoKey \notin known
  /\ \A i \in 1 .. Occupied : ~Posted(NoKey, i)
  /\ events = [i \in 0 .. MAXEVENTS - 1 |-> events[i]]

InputInv == TypeOK /\ Room /\ Honest

(* Counting on from a slot of the ring, once around at most.               *)
LEMMA AroundTheRing ==
  ASSUME NEW m \in Nat \ {0}, NEW t \in 0 .. m - 1, NEW i \in 0 .. m
  PROVE  (t + i) % m = IF t + i < m THEN t + i ELSE t + i - m
<1> DEFINE a == t + i
           q == a \div m
<1>1. a \in Nat /\ q \in Int /\ a % m \in 0 .. m - 1 /\ a = m * q + (a % m) /\ a < 2 * m
  OBVIOUS
<1>2. CASE q <= -1
  <2>1. m * q <= -m
    BY <1>1, <1>2
  <2> QED
    BY <1>1, <2>1
<1>3. CASE q >= 2
  <2>1. m * q >= 2 * m
    BY <1>1, <1>3
  <2> QED
    BY <1>1, <2>1
<1>4. CASE q = 0
  <2>1. m * q = 0
    BY <1>4
  <2> QED
    BY <1>1, <2>1
<1>5. CASE q = 1
  <2>1. m * q = m
    BY <1>5
  <2> QED
    BY <1>1, <2>1
<1> QED
  BY <1>1, <1>2, <1>3, <1>4, <1>5

(* The slots of the events, and those that come free and into use.         *)
LEMMA Slots ==
  ASSUME TypeOK
  PROVE  /\ Occupied \in 0 .. MAXEVENTS - 1
         /\ \A i \in 1 .. Occupied + 1 : At(i) \in 0 .. MAXEVENTS - 1
         /\ At(1) = eventtail /\ At(Occupied + 1) = eventhead
         /\ \A i, j \in 1 .. Occupied + 1 : At(i) = At(j) => i = j
<1> USE InputConstants
<1>1. /\ MAXEVENTS \in Nat \ {0} /\ eventtail \in 0 .. MAXEVENTS - 1
      /\ eventhead \in 0 .. MAXEVENTS - 1
  BY DEF TypeOK
<1>2. Occupied \in 0 .. MAXEVENTS - 1
  BY <1>1 DEF Occupied
<1>3. ASSUME NEW i \in 1 .. Occupied + 1
      PROVE  At(i) = IF eventtail + i - 1 < MAXEVENTS THEN eventtail + i - 1
                     ELSE eventtail + i - 1 - MAXEVENTS
  <2>1. i - 1 \in 0 .. MAXEVENTS /\ eventtail + i - 1 = eventtail + (i - 1)
    BY <1>1, <1>2
  <2>2. (eventtail + (i - 1)) % MAXEVENTS =
          IF eventtail + (i - 1) < MAXEVENTS THEN eventtail + (i - 1)
          ELSE eventtail + (i - 1) - MAXEVENTS
    BY <1>1, <2>1, AroundTheRing
  <2> QED
    BY <2>1, <2>2 DEF At
<1>4. \A i \in 1 .. Occupied + 1 : At(i) \in 0 .. MAXEVENTS - 1
  BY <1>1, <1>2, <1>3
<1>5. At(1) = eventtail
  BY <1>1, <1>2, <1>3
<1>6. At(Occupied + 1) = eventhead
  <2>1. Occupied + 1 \in 1 .. Occupied + 1
    BY <1>2
  <2>2. At(Occupied + 1) = IF eventtail + Occupied < MAXEVENTS THEN eventtail + Occupied
                           ELSE eventtail + Occupied - MAXEVENTS
    BY <1>1, <1>2, <1>3, <2>1
  <2> QED
    BY <1>1, <2>2 DEF Occupied
<1>7. ASSUME NEW i \in 1 .. Occupied + 1, NEW j \in 1 .. Occupied + 1, At(i) = At(j)
      PROVE  i = j
  BY <1>1, <1>2, <1>3, <1>7
<1> QED
  BY <1>2, <1>4, <1>5, <1>6, <1>7

LEMMA HonestInit == Init => Honest
<1> SUFFICES ASSUME Init PROVE Honest
  OBVIOUS
<1>1. Len(keyboard) = 0 /\ Occupied = 0 /\ known = {}
  BY DEF Init, Occupied
<1>2. events = [i \in 0 .. MAXEVENTS - 1 |-> events[i]]
  BY DEF Init
<1>3. \A k : ~Believed(k)
  BY <1>1 DEF Believed, LastTyped, Pending, LastPosted
<1> QED
  BY <1>1, <1>2, <1>3 DEF Honest

(* What happens at the keyboard leaves the ring alone.                     *)
LEMMA SameRing ==
  ASSUME UNCHANGED <<known, events, eventhead, eventtail>>
  PROVE  /\ \A k : Pending(k)' = Pending(k)
         /\ (Honest => NoKey \notin known' /\ (\A i \in 1 .. Occupied' : ~Posted(NoKey, i)')
                       /\ events' = [i \in 0 .. MAXEVENTS - 1 |-> events'[i]])
BY DEF Pending, LastPosted, NotPosted, Posted, At, Occupied, Honest

(* A code that is typed is the last of its key, and of no other.           *)
LEMMA TypedLast ==
  ASSUME TypeOK, NEW c \in ScanCodes, NEW b \in BOOLEAN,
         keyboard' = Append(keyboard, [code |-> c, pressed |-> b])
  PROVE  /\ LastTyped(KeyOf[c])' = b /\ ~NotTyped(KeyOf[c])'
         /\ \A k : k # KeyOf[c] => /\ LastTyped(k)' = LastTyped(k)
                                   /\ NotTyped(k)' = NotTyped(k)
<1>0. PICK n \in Nat : n = Len(keyboard)
  BY DEF TypeOK
<1>1. /\ n \in Nat /\ Len(keyboard') = n + 1 /\ Len(keyboard) = n
      /\ \A i \in 1 .. n : keyboard'[i] = keyboard[i]
      /\ keyboard'[n + 1] = [code |-> c, pressed |-> b]
  BY <1>0 DEF TypeOK
<1>2. \A k, i : i \in 1 .. n => (Typed(k, i)' <=> Typed(k, i))
  BY <1>1 DEF Typed
<1>3. \A k : Typed(k, n + 1)' <=> k = KeyOf[c]
  BY <1>1 DEF Typed
<1>4. LastTyped(KeyOf[c])' = b
  <2>1. CASE b
    <3>1. n + 1 \in 1 .. n + 1 /\ Typed(KeyOf[c], n + 1)' /\ keyboard'[n + 1].pressed
      BY <1>1, <1>3, <2>1
    <3>2. \A j \in (n + 1) + 1 .. n + 1 : ~Typed(KeyOf[c], j)'
      BY <1>1
    <3>3. LastTyped(KeyOf[c])'
      BY <1>1, <3>1, <3>2 DEF LastTyped
    <3> QED
      BY <2>1, <3>3 DEF LastTyped
  <2>2. CASE ~b
    <3> SUFFICES ASSUME LastTyped(KeyOf[c])' PROVE FALSE
      BY <2>2 DEF LastTyped
    <3>1. PICK i \in 1 .. n + 1 : /\ keyboard'[i].pressed
                                  /\ \A j \in i + 1 .. n + 1 : ~Typed(KeyOf[c], j)'
      BY <1>1 DEF LastTyped
    <3>2. i = n + 1
      BY <1>1, <1>3, <3>1
    <3> QED
      BY <1>1, <2>2, <3>1, <3>2
  <2> QED
    BY <2>1, <2>2
<1>5. ~NotTyped(KeyOf[c])'
  <2>1. n + 1 \in 1 .. n + 1
    BY <1>1
  <2> QED
    BY <1>1, <1>3, <2>1 DEF NotTyped
<1>6. ASSUME NEW k, k # KeyOf[c]
      PROVE  LastTyped(k)' = LastTyped(k) /\ NotTyped(k)' = NotTyped(k)
  <2>1. ~Typed(k, n + 1)'
    BY <1>3, <1>6
  <2>2. NotTyped(k)' <=> NotTyped(k)
    BY <1>1, <1>2, <2>1 DEF NotTyped
  <2>3. ASSUME LastTyped(k)' PROVE LastTyped(k)
    <3>1. PICK i \in 1 .. n + 1 : /\ Typed(k, i)' /\ keyboard'[i].pressed
                                  /\ \A j \in i + 1 .. n + 1 : ~Typed(k, j)'
      BY <1>1, <2>3 DEF LastTyped
    <3>2. i \in 1 .. n
      BY <1>1, <2>1, <3>1
    <3>3. Typed(k, i) /\ keyboard[i].pressed
      BY <1>1, <1>2, <3>1, <3>2
    <3>4. \A j \in i + 1 .. n : ~Typed(k, j)
      BY <1>1, <1>2, <3>1
    <3> QED
      BY <1>0, <3>2, <3>3, <3>4 DEF LastTyped
  <2>4. ASSUME LastTyped(k) PROVE LastTyped(k)'
    <3>1. PICK i \in 1 .. n : /\ Typed(k, i) /\ keyboard[i].pressed
                              /\ \A j \in i + 1 .. n : ~Typed(k, j)
      BY <1>0, <2>4 DEF LastTyped
    <3>2. Typed(k, i)' /\ keyboard'[i].pressed /\ i \in 1 .. n + 1
      BY <1>1, <1>2, <3>1
    <3>3. \A j \in i + 1 .. n + 1 : ~Typed(k, j)'
      BY <1>1, <1>2, <2>1, <3>1
    <3> QED
      BY <1>1, <3>2, <3>3 DEF LastTyped
  <2> QED
    BY <2>2, <2>3, <2>4 DEF LastTyped, NotTyped
<1> QED
  BY <1>4, <1>5, <1>6

LEMMA TypeHonest ==
  ASSUME InputInv, NEW c \in ScanCodes, Type(c)
  PROVE  Honest'
<1>1. UNCHANGED <<known, events, eventhead, eventtail>> /\ TypeOK /\ Honest
  BY DEF Type, InputInv
<1>2. \A k : k # KeyOf[c] /\ Held(k) => Held(k)'
  BY DEF Type, Held, Queue!Pushed, Queue!LetGo
<1>3. PICK b \in BOOLEAN : /\ keyboard' = Append(keyboard, [code |-> c, pressed |-> b])
                           /\ b => down' = down \cup {c}
  BY DEF Type, Queue!Pushed
<1>4. /\ LastTyped(KeyOf[c])' = b /\ ~NotTyped(KeyOf[c])'
      /\ \A k : k # KeyOf[c] => LastTyped(k)' = LastTyped(k) /\ NotTyped(k)' = NotTyped(k)
  BY <1>1, <1>3, TypedLast
<1>5. \A k : Pending(k)' = Pending(k)
  BY <1>1, SameRing
<1>6. ASSUME NEW k, k # NoKey, Believed(k)' PROVE Held(k)'
  <2>1. CASE k = KeyOf[c]
    <3>1. b
      BY <1>4, <1>6, <2>1 DEF Believed
    <3> QED
      BY <1>3, <2>1, <3>1 DEF Held
  <2>2. CASE k # KeyOf[c]
    <3>1. Believed(k)
      BY <1>4, <1>5, <1>6, <2>2 DEF Believed
    <3> QED
      BY <1>1, <1>2, <1>6, <2>2, <3>1 DEF Honest
  <2> QED
    BY <2>1, <2>2
<1> QED
  BY <1>1, <1>6, SameRing DEF Honest

(* A code that is read was the last of its key if no other of it waits.    *)
LEMMA ReadFirst ==
  ASSUME TypeOK, keyboard # <<>>, keyboard' = Tail(keyboard), NEW k
  PROVE  /\ LastTyped(k) <=> \/ LastTyped(k)'
                             \/ NotTyped(k)' /\ KeyOf[Head(keyboard).code] = k /\ Head(keyboard).pressed
         /\ NotTyped(k) <=> NotTyped(k)' /\ KeyOf[Head(keyboard).code] # k
<1>0. PICK n \in Nat \ {0} : n = Len(keyboard)
  BY OneRead
<1>1. /\ Len(keyboard) = n /\ Len(keyboard') = n - 1 /\ Head(keyboard) = keyboard[1]
      /\ \A i \in 1 .. n - 1 : keyboard'[i] = keyboard[i + 1]
  <2>1. keyboard \in Seq([code : ScanCodes, pressed : BOOLEAN])
    BY DEF TypeOK
  <2> QED
    BY <1>0, <2>1
<1>2. \A i \in 1 .. n - 1 : Typed(k, i)' <=> Typed(k, i + 1)
  BY <1>1 DEF Typed
<1>3. Typed(k, 1) <=> KeyOf[Head(keyboard).code] = k
  BY <1>1 DEF Typed
<1>4. \A i \in 2 .. n : i - 1 \in 1 .. n - 1 /\ (i - 1) + 1 = i
  OBVIOUS
<1>5. \A i \in 2 .. n : Typed(k, i) <=> Typed(k, i - 1)'
  <2> TAKE i \in 2 .. n
  <2>1. i - 1 \in 1 .. n - 1 /\ (i - 1) + 1 = i
    BY <1>4
  <2>2. PICK h \in 1 .. n - 1 : h = i - 1 /\ h + 1 = i
    BY <2>1
  <2>3. Typed(k, h)' <=> Typed(k, i)
    BY <1>2, <2>2
  <2> QED
    BY <2>2, <2>3
<1>6. NotTyped(k) <=> NotTyped(k)' /\ KeyOf[Head(keyboard).code] # k
  <2>1. ASSUME NotTyped(k) PROVE NotTyped(k)' /\ ~Typed(k, 1)
    BY <1>1, <1>2, <2>1 DEF NotTyped
  <2>2. ASSUME NotTyped(k)', ~Typed(k, 1) PROVE NotTyped(k)
    <3> SUFFICES ASSUME NEW i \in 1 .. n PROVE ~Typed(k, i)
      BY <1>1 DEF NotTyped
    <3>1. CASE i = 1
      BY <2>2, <3>1
    <3>2. CASE i \in 2 .. n
      <4>1. PICK h \in 1 .. n - 1 : h = i - 1
        BY <3>2
      <4>2. ~Typed(k, h)'
        BY <1>1, <2>2, <4>1 DEF NotTyped
      <4> QED
        BY <1>5, <3>2, <4>1, <4>2
    <3> QED
      BY <3>1, <3>2
  <2> QED
    BY <1>3, <2>1, <2>2
<1>7. ASSUME LastTyped(k)' PROVE LastTyped(k)
  <2>1. PICK i \in 1 .. n - 1 : /\ Typed(k, i)' /\ keyboard'[i].pressed
                                /\ \A j \in i + 1 .. n - 1 : ~Typed(k, j)'
    BY <1>1, <1>7 DEF LastTyped
  <2>2. PICK h \in 2 .. n : h = i + 1
    OBVIOUS
  <2>3. Typed(k, h) /\ keyboard[h].pressed
    BY <1>1, <1>2, <2>1, <2>2
  <2>4. \A j \in h + 1 .. n : ~Typed(k, j)
    <3> TAKE j \in h + 1 .. n
    <3>1. PICK g \in i + 1 .. n - 1 : g = j - 1
      BY <2>2
    <3>2. ~Typed(k, g)'
      BY <2>1, <3>1
    <3>3. j \in 2 .. n
      BY <2>2
    <3> QED
      BY <1>5, <3>1, <3>2, <3>3
  <2> QED
    BY <1>1, <2>2, <2>3, <2>4 DEF LastTyped
<1>8. ASSUME NotTyped(k)', KeyOf[Head(keyboard).code] = k, Head(keyboard).pressed PROVE LastTyped(k)
  <2>1. Typed(k, 1) /\ keyboard[1].pressed /\ 1 \in 1 .. n
    BY <1>1, <1>3, <1>8
  <2>2. \A j \in 1 + 1 .. n : ~Typed(k, j)
    <3> TAKE j \in 1 + 1 .. n
    <3>1. PICK g \in 1 .. n - 1 : g = j - 1
      OBVIOUS
    <3>2. ~Typed(k, g)'
      BY <1>1, <1>8, <3>1 DEF NotTyped
    <3> QED
      BY <1>5, <3>1, <3>2
  <2> QED
    BY <1>1, <2>1, <2>2 DEF LastTyped
<1>9. ASSUME LastTyped(k)
      PROVE  \/ LastTyped(k)'
             \/ NotTyped(k)' /\ KeyOf[Head(keyboard).code] = k /\ Head(keyboard).pressed
  <2>1. PICK i \in 1 .. n : /\ Typed(k, i) /\ keyboard[i].pressed
                            /\ \A j \in i + 1 .. n : ~Typed(k, j)
    BY <1>1, <1>9 DEF LastTyped
  <2>2. CASE i = 1
    <3>1. \A j \in 1 .. n - 1 : ~Typed(k, j)'
      BY <1>2, <2>1, <2>2
    <3>2. NotTyped(k)'
      BY <1>1, <3>1 DEF NotTyped
    <3> QED
      BY <1>1, <1>3, <2>1, <2>2, <3>2
  <2>3. CASE i \in 2 .. n
    <3>1. PICK h \in 1 .. n - 1 : h = i - 1 /\ h + 1 = i
      BY <2>3
    <3>2. Typed(k, h)' /\ keyboard'[h].pressed
      BY <1>1, <1>2, <2>1, <3>1
    <3>3. \A j \in h + 1 .. n - 1 : ~Typed(k, j)'
      <4> TAKE j \in h + 1 .. n - 1
      <4>1. j \in 1 .. n - 1 /\ j + 1 \in i + 1 .. n
        BY <3>1
      <4> QED
        BY <1>2, <2>1, <4>1
    <3>4. LastTyped(k)'
      BY <1>1, <3>1, <3>2, <3>3 DEF LastTyped
    <3> QED
      BY <3>4
  <2> QED
    BY <2>2, <2>3
<1> QED
  BY <1>6, <1>7, <1>8, <1>9

(* Posting leaves the other events where they are.                         *)
LEMMA PostedSlots ==
  ASSUME TypeOK, events = [i \in 0 .. MAXEVENTS - 1 |-> events[i]], NEW e,
         Occupied < MAXEVENTS - 1, D_PostEvent(e), eventtail' = eventtail,
         NEW n \in Nat, n = Occupied
  PROVE  /\ Occupied' = n + 1
         /\ \A i \in 1 .. n : events'[At(i)] = events[At(i)]
         /\ events'[At(n + 1)] = e
<1>1. Occupied = n /\ Occupied' = n + 1
  BY OnePosted DEF D_PostEvent
<1>3. \A i \in 1 .. n : events'[At(i)] = events[At(i)]
  <2> TAKE i \in 1 .. n
  <2>1. i \in 1 .. n + 1 /\ n + 1 \in 1 .. n + 1 /\ i # n + 1
    OBVIOUS
  <2>2. At(i) # eventhead /\ At(i) \in 0 .. MAXEVENTS - 1
    BY <2>1, Slots
  <2> QED
    BY <2>2 DEF D_PostEvent
<1>4. events'[At(n + 1)] = e
  <2>1. n + 1 \in 1 .. n + 1
    OBVIOUS
  <2>2. At(n + 1) = eventhead /\ At(n + 1) \in 0 .. MAXEVENTS - 1
    BY <2>1, Slots
  <2> QED
    BY <2>2 DEF D_PostEvent
<1> QED
  BY <1>1, <1>3, <1>4

(* An event that is posted is the last of its key, and of no other.        *)
LEMMA PostedLast ==
  ASSUME TypeOK, events = [i \in 0 .. MAXEVENTS - 1 |-> events[i]], NEW e,
         Occupied < MAXEVENTS - 1, D_PostEvent(e), eventtail' = eventtail
  PROVE  /\ LastPosted(e.key)' <=> e.type = "keydown"
         /\ ~NotPosted(e.key)'
         /\ \A k : k # e.key => /\ LastPosted(k)' = LastPosted(k)
                                /\ NotPosted(k)' = NotPosted(k)
         /\ \A i \in 1 .. Occupied' : Posted(NoKey, i)' => e.key = NoKey \/ Posted(NoKey, i)
         /\ events' = [i \in 0 .. MAXEVENTS - 1 |-> events'[i]]
<1>0. PICK n \in Nat : n = Occupied
  BY Slots
<1>1. Occupied = n /\ Occupied' = n + 1
  BY <1>0, PostedSlots
<1>2. \A i : At(i)' = At(i)
  BY DEF At
<1>3. \A i \in 1 .. n : events'[At(i)] = events[At(i)]
  BY <1>0, PostedSlots
<1>4. events'[At(n + 1)] = e
  BY <1>0, PostedSlots
<1>5. events' = [i \in 0 .. MAXEVENTS - 1 |-> events'[i]]
  BY DEF D_PostEvent
<1>6. /\ \A k : \A i \in 1 .. n : Posted(k, i)' <=> Posted(k, i)
      /\ \A k : Posted(k, n + 1)' <=> e.key = k
  BY <1>2, <1>3, <1>4 DEF Posted
<1>7. n + 1 \in 1 .. n + 1 /\ \A i \in 1 .. n + 1 : i \in 1 .. n \/ i = n + 1
  OBVIOUS
<1>8. \A i \in 1 .. Occupied' : Posted(NoKey, i)' => e.key = NoKey \/ Posted(NoKey, i)
  BY <1>1, <1>6, <1>7
<1>9. ~NotPosted(e.key)'
  BY <1>1, <1>6, <1>7 DEF NotPosted
<1>10. LastPosted(e.key)' <=> e.type = "keydown"
  <2>1. ASSUME e.type = "keydown" PROVE LastPosted(e.key)'
    <3>1. Posted(e.key, n + 1)' /\ events'[At(n + 1)'].type = "keydown"
      BY <1>2, <1>4, <1>6, <2>1
    <3>2. \A j \in (n + 1) + 1 .. n + 1 : ~Posted(e.key, j)'
      OBVIOUS
    <3> QED
      BY <1>1, <1>7, <3>1, <3>2 DEF LastPosted
  <2>2. ASSUME LastPosted(e.key)' PROVE e.type = "keydown"
    <3>1. PICK i \in 1 .. n + 1 : /\ events'[At(i)'].type = "keydown"
                                  /\ \A j \in i + 1 .. n + 1 : ~Posted(e.key, j)'
      BY <1>1, <2>2 DEF LastPosted
    <3>2. i = n + 1
      <4>1. i \in 1 .. n => n + 1 \in i + 1 .. n + 1
        OBVIOUS
      <4> QED
        BY <1>6, <1>7, <3>1, <4>1
    <3> QED
      BY <1>2, <1>4, <3>1, <3>2
  <2> QED
    BY <2>1, <2>2
<1>11. ASSUME NEW k, k # e.key
       PROVE  LastPosted(k)' = LastPosted(k) /\ NotPosted(k)' = NotPosted(k)
  <2>1. ~Posted(k, n + 1)'
    BY <1>6, <1>11
  <2>2. NotPosted(k)' <=> NotPosted(k)
    <3>1. ASSUME NotPosted(k)' PROVE NotPosted(k)
      <4>1. \A i \in 1 .. n : i \in 1 .. n + 1
        OBVIOUS
      <4> QED
        BY <1>1, <1>6, <3>1, <4>1 DEF NotPosted
    <3>2. ASSUME NotPosted(k) PROVE NotPosted(k)'
      BY <1>1, <1>6, <1>7, <2>1, <3>2 DEF NotPosted
    <3> QED
      BY <3>1, <3>2
  <2>3. ASSUME LastPosted(k)' PROVE LastPosted(k)
    <3>1. PICK i \in 1 .. n + 1 : /\ Posted(k, i)' /\ events'[At(i)'].type = "keydown"
                                  /\ \A j \in i + 1 .. n + 1 : ~Posted(k, j)'
      BY <1>1, <2>3 DEF LastPosted
    <3>2. i \in 1 .. n
      BY <1>7, <2>1, <3>1
    <3>3. Posted(k, i) /\ events[At(i)].type = "keydown"
      BY <1>2, <1>3, <1>6, <3>1, <3>2
    <3>4. \A j \in i + 1 .. n : ~Posted(k, j)
      <4> TAKE j \in i + 1 .. n
      <4>1. j \in 1 .. n /\ j \in i + 1 .. n + 1
        BY <3>2
      <4> QED
        BY <1>6, <3>1, <4>1
    <3> QED
      BY <1>1, <3>2, <3>3, <3>4 DEF LastPosted
  <2>4. ASSUME LastPosted(k) PROVE LastPosted(k)'
    <3>1. PICK i \in 1 .. n : /\ Posted(k, i) /\ events[At(i)].type = "keydown"
                              /\ \A j \in i + 1 .. n : ~Posted(k, j)
      BY <1>1, <2>4 DEF LastPosted
    <3>2. Posted(k, i)' /\ events'[At(i)'].type = "keydown"
      BY <1>2, <1>3, <1>6, <3>1
    <3>4. i \in 1 .. n + 1
      OBVIOUS
    <3>3. \A j \in i + 1 .. n + 1 : ~Posted(k, j)'
      <4> TAKE j \in i + 1 .. n + 1
      <4>1. j = n + 1 \/ (j \in 1 .. n /\ j \in i + 1 .. n)
        OBVIOUS
      <4> QED
        BY <1>6, <2>1, <3>1, <4>1
    <3> QED
      BY <1>1, <3>2, <3>3, <3>4 DEF LastPosted
  <2> QED
    BY <2>2, <2>3, <2>4 DEF LastPosted, NotPosted
<1> QED
  BY <1>5, <1>8, <1>9, <1>10, <1>11

(* Taking the first event leaves the others where they are.                *)
LEMMA TakenSlots ==
  ASSUME TypeOK, Honest, D_PopEvent
  PROVE  \E n \in 1 .. MAXEVENTS - 1 :
           /\ Occupied = n /\ Occupied' = n - 1
           /\ \A i \in 1 .. n - 1 : events'[At(i)'] = events[At(i + 1)]
<1>1. /\ eventtail # eventhead /\ eventtail' = Following(eventtail) /\ eventhead' = eventhead
      /\ events' = [events EXCEPT ![eventtail] = NoEvent]
  BY DEF D_PopEvent
<1>2. /\ eventtail \in 0 .. MAXEVENTS - 1 /\ eventhead \in 0 .. MAXEVENTS - 1
      /\ MAXEVENTS \in Nat \ {0} /\ eventtail' \in 0 .. MAXEVENTS - 1
  BY <1>1, OneTaken, InputConstants DEF TypeOK
<1>0. PICK n \in 1 .. MAXEVENTS - 1 : n = Occupied
  <2>1. Occupied \in 0 .. MAXEVENTS - 1
    BY Slots
  <2>2. Occupied # 0
    BY <1>1, <1>2 DEF Occupied
  <2>3. Occupied \in 1 .. MAXEVENTS - 1
    BY <1>2, <2>1, <2>2
  <2> QED
    BY <2>3
<1>3. Occupied = n /\ Occupied' = n - 1
  BY <1>0, <1>1, <1>2 DEF Occupied, Following
<1>4. ASSUME NEW i \in 1 .. n - 1
      PROVE  At(i)' = At(i + 1)
  <2>1. /\ i - 1 \in 0 .. MAXEVENTS /\ i \in 0 .. MAXEVENTS
        /\ eventtail' + i - 1 = eventtail' + (i - 1) /\ eventtail + (i + 1) - 1 = eventtail + i
    BY <1>2
  <2>2. (eventtail' + (i - 1)) % MAXEVENTS =
          IF eventtail' + (i - 1) < MAXEVENTS THEN eventtail' + (i - 1)
          ELSE eventtail' + (i - 1) - MAXEVENTS
    BY <1>2, <2>1, AroundTheRing
  <2>3. (eventtail + i) % MAXEVENTS =
          IF eventtail + i < MAXEVENTS THEN eventtail + i ELSE eventtail + i - MAXEVENTS
    BY <1>2, <2>1, AroundTheRing
  <2>4. At(i)' = (eventtail' + (i - 1)) % MAXEVENTS /\ At(i + 1) = (eventtail + i) % MAXEVENTS
    BY <2>1 DEF At
  <2> QED
    BY <1>1, <1>2, <2>2, <2>3, <2>4 DEF Following
<1>5. ASSUME NEW i \in 1 .. n - 1
      PROVE  events'[At(i)'] = events[At(i + 1)]
  <2>1. i + 1 \in 1 .. n + 1 /\ 1 \in 1 .. n + 1 /\ i + 1 # 1
    OBVIOUS
  <2>2. At(i + 1) # eventtail /\ At(i + 1) \in 0 .. MAXEVENTS - 1
    BY <1>0, <2>1, Slots
  <2> QED
    BY <1>1, <1>4, <2>2 DEF Honest
<1> QED
  BY <1>3, <1>5

(* The event that is taken was the last of its key if the ring has no      *)
(* other; so what is pending of each key stays as it was.                  *)
LEMMA TakenFirst ==
  ASSUME TypeOK, Honest, D_PopEvent, NEW k
  PROVE  /\ Pending(k)' => Pending(k)
         /\ NoKey \notin known'
         /\ \A i \in 1 .. Occupied' : ~Posted(NoKey, i)'
         /\ events' = [i \in 0 .. MAXEVENTS - 1 |-> events'[i]]
<1> DEFINE e == events[eventtail]
<1>1. /\ eventtail # eventhead /\ eventtail' = Following(eventtail) /\ eventhead' = eventhead
      /\ events' = [events EXCEPT ![eventtail] = NoEvent]
      /\ known' = IF e.type = "keydown" THEN known \cup {e.key} ELSE known \ {e.key}
  BY DEF D_PopEvent
<1>0. PICK n \in 1 .. MAXEVENTS - 1 :
        /\ Occupied = n /\ Occupied' = n - 1
        /\ \A i \in 1 .. n - 1 : events'[At(i)'] = events[At(i + 1)]
  BY TakenSlots
<1>2. MAXEVENTS \in Nat \ {0}
  BY InputConstants
<1>3. Occupied = n /\ Occupied' = n - 1
  BY <1>0
<1>5. ASSUME NEW i \in 1 .. n - 1
      PROVE  events'[At(i)'] = events[At(i + 1)]
  BY <1>0
<1>6. \A g : \A i \in 1 .. n - 1 : Posted(g, i)' <=> Posted(g, i + 1)
  BY <1>5 DEF Posted
<1>7. \A g : Posted(g, 1) <=> e.key = g
  BY Slots DEF Posted
<1>8. \A i \in 1 .. n - 1 : ~Posted(NoKey, i)'
  <2> TAKE i \in 1 .. n - 1
  <2>1. i + 1 \in 1 .. n
    OBVIOUS
  <2> QED
    BY <1>3, <1>6, <2>1 DEF Honest
<1>9. e.key # NoKey
  <2>1. 1 \in 1 .. n
    OBVIOUS
  <2> QED
    BY <1>3, <1>7, <2>1 DEF Honest
<1>10. NoKey \notin known'
  BY <1>1, <1>9 DEF Honest
<1>11. events' = [i \in 0 .. MAXEVENTS - 1 |-> events'[i]]
  BY <1>1 DEF Honest
<1>12. ASSUME NotPosted(k)', e.key # k
       PROVE  NotPosted(k)
  <2> SUFFICES ASSUME NEW i \in 1 .. n PROVE ~Posted(k, i)
    BY <1>3 DEF NotPosted
  <2>1. CASE i = 1
    BY <1>7, <1>12, <2>1
  <2>2. CASE i # 1
    <3>1. PICK h \in 1 .. n - 1 : h + 1 = i
      <4>1. i - 1 \in 1 .. n - 1 /\ (i - 1) + 1 = i
        BY <2>2
      <4> QED
        BY <4>1
    <3> QED
      BY <1>3, <1>6, <1>12, <3>1 DEF NotPosted
  <2> QED
    BY <2>1, <2>2
<1>13. ASSUME LastPosted(k)'
       PROVE  LastPosted(k)
  <2>1. PICK i \in 1 .. n - 1 : /\ Posted(k, i)' /\ events'[At(i)'].type = "keydown"
                                /\ \A j \in i + 1 .. n - 1 : ~Posted(k, j)'
    BY <1>3, <1>13 DEF LastPosted
  <2>2. PICK h \in 2 .. n : h = i + 1
    OBVIOUS
  <2>3. Posted(k, h) /\ events[At(h)].type = "keydown"
    BY <1>5, <1>6, <2>1, <2>2
  <2>4. \A j \in h + 1 .. n : ~Posted(k, j)
    <3> TAKE j \in h + 1 .. n
    <3>1. PICK g \in i + 1 .. n - 1 : g + 1 = j
      <4>1. j - 1 \in i + 1 .. n - 1 /\ (j - 1) + 1 = j
        BY <2>2
      <4> QED
        BY <4>1
    <3>2. g \in 1 .. n - 1
      OBVIOUS
    <3> QED
      BY <1>6, <2>1, <3>1, <3>2
  <2>5. h \in 1 .. n
    OBVIOUS
  <2> QED
    BY <1>3, <2>3, <2>4, <2>5 DEF LastPosted
<1>14. ASSUME NotPosted(k)', e.key = k, e.type = "keydown"
       PROVE  LastPosted(k)
  <2>1. Posted(k, 1) /\ events[At(1)].type = "keydown" /\ 1 \in 1 .. n
    BY <1>7, <1>14, Slots
  <2>2. \A j \in 1 + 1 .. n : ~Posted(k, j)
    <3> TAKE j \in 1 + 1 .. n
    <3>1. PICK g \in 1 .. n - 1 : g + 1 = j
      <4>1. j - 1 \in 1 .. n - 1 /\ (j - 1) + 1 = j
        OBVIOUS
      <4> QED
        BY <4>1
    <3> QED
      BY <1>3, <1>6, <1>14, <3>1 DEF NotPosted
  <2> QED
    BY <1>3, <2>1, <2>2 DEF LastPosted
<1>15. ASSUME NotPosted(k)', k \in known' PROVE Pending(k)
  <2>1. CASE e.key = k
    <3>1. e.type = "keydown"
      BY <1>1, <1>15, <2>1
    <3> QED
      BY <1>14, <1>15, <2>1, <3>1 DEF Pending
  <2>2. CASE e.key # k
    <3>1. NotPosted(k)
      BY <1>12, <1>15, <2>2
    <3>2. k \in known
      BY <1>1, <1>15, <2>2
    <3> QED
      BY <3>1, <3>2 DEF Pending
  <2> QED
    BY <2>1, <2>2
<1> QED
  BY <1>3, <1>8, <1>10, <1>11, <1>13, <1>15 DEF Pending

LEMMA RoomToPost ==
  ASSUME InputInv, pc = "get", keyboard # <<>>
  PROVE  Occupied < MAXEVENTS - 1
<1>1. Len(keyboard) \in Nat \ {0} /\ TypeOK /\ Room
  BY OneRead DEF InputInv
<1> QED
  BY <1>1, InputConstants, Slots DEF Room, TypeOK

LEMMA GetKeyHonest ==
  ASSUME InputInv, GetKey
  PROVE  Honest'
<1>k. PICK k1 : k1 = Head(keyboard)
  OBVIOUS
<1>e. PICK e : e = EventOf(k1, shiftdown')
  OBVIOUS
<1>1. /\ TypeOK /\ Room /\ Honest /\ pc = "get" /\ keyboard # <<>> /\ keyboard' = Tail(keyboard)
      /\ KeyOf[k1.code] # NoKey /\ D_PostEvent(e)
      /\ UNCHANGED <<eventtail, known, down>>
  BY <1>k, <1>e DEF GetKey, Posts, InputInv
<1>2. Occupied < MAXEVENTS - 1
  BY <1>1, RoomToPost
<1>3. e.key = KeyOf[k1.code] /\ (e.type = "keydown" <=> k1.pressed)
  BY <1>e DEF EventOf
<1>4. /\ LastPosted(e.key)' <=> e.type = "keydown"
      /\ ~NotPosted(e.key)'
      /\ \A k : k # e.key => LastPosted(k)' = LastPosted(k) /\ NotPosted(k)' = NotPosted(k)
      /\ \A i \in 1 .. Occupied' : Posted(NoKey, i)' => e.key = NoKey \/ Posted(NoKey, i)
      /\ events' = [i \in 0 .. MAXEVENTS - 1 |-> events'[i]]
  BY <1>1, <1>2, PostedLast DEF Honest
<1>5. ASSUME NEW k, k # NoKey, Believed(k)' PROVE Held(k)'
  <2>1. /\ LastTyped(k) <=> LastTyped(k)' \/ (NotTyped(k)' /\ KeyOf[k1.code] = k /\ k1.pressed)
        /\ NotTyped(k) <=> NotTyped(k)' /\ KeyOf[k1.code] # k
    BY <1>1, <1>k, ReadFirst
  <2>2. Believed(k)
    <3>1. CASE LastTyped(k)'
      BY <2>1, <3>1 DEF Believed
    <3>2. CASE NotTyped(k)' /\ Pending(k)' /\ k = e.key
      <4>1. k1.pressed
        BY <1>3, <1>4, <3>2 DEF Pending
      <4> QED
        BY <1>3, <2>1, <3>2, <4>1 DEF Believed
    <3>3. CASE NotTyped(k)' /\ Pending(k)' /\ k # e.key
      <4>1. Pending(k)
        BY <1>1, <1>4, <3>3 DEF Pending
      <4> QED
        BY <1>3, <2>1, <3>3, <4>1 DEF Believed
    <3> QED
      BY <1>5, <3>1, <3>2, <3>3 DEF Believed
  <2>3. Held(k)
    BY <1>1, <1>5, <2>2 DEF Honest
  <2> QED
    BY <1>1, <2>3 DEF Held
<1>6. \A i \in 1 .. Occupied' : ~Posted(NoKey, i)'
  <2> SUFFICES ASSUME NEW i \in 1 .. Occupied', Posted(NoKey, i)' PROVE FALSE
    OBVIOUS
  <2>1. Posted(NoKey, i)
    BY <1>1, <1>3, <1>4
  <2>2. Occupied' = Occupied + 1 /\ Occupied \in Nat
    BY <1>1, <1>2, OnePosted, Slots DEF D_PostEvent
  <2>3. i \in 1 .. Occupied \/ i = Occupied + 1
    BY <2>2
  <2>4. CASE i = Occupied + 1
    <3>1. events'[At(i)'] = e
      <4>1. At(i)' = eventhead /\ eventhead \in 0 .. MAXEVENTS - 1
        BY <1>1, <2>4, Slots DEF At, TypeOK
      <4> QED
        BY <1>1, <4>1 DEF D_PostEvent, Honest
    <3> QED
      BY <1>1, <1>3, <3>1 DEF Posted
  <2> QED
    BY <1>1, <2>1, <2>3, <2>4 DEF Honest
<1> QED
  BY <1>1, <1>4, <1>5, <1>6 DEF Honest

LEMMA HonestStep ==
  ASSUME InputInv, [Next]_vars
  PROVE  Honest'
<1> TypeOK /\ Honest
  BY DEF InputInv
<1>1. CASE UNCHANGED <<down, known, keyboard, events, eventhead, eventtail>>
  <2>1. \A k : /\ LastTyped(k)' = LastTyped(k) /\ NotTyped(k)' = NotTyped(k)
               /\ Pending(k)' = Pending(k) /\ Held(k)' = Held(k)
    BY <1>1, SameRing DEF LastTyped, NotTyped, Typed, Held
  <2>2. \A k : Believed(k)' = Believed(k)
    BY <2>1 DEF Believed
  <2> QED
    BY <1>1, <2>1, <2>2, SameRing DEF Honest
<1>2. CASE NoKeyToGet /\ keyboard # <<>>
  <2>1. /\ UNCHANGED <<down, known, events, eventhead, eventtail>> /\ keyboard' = Tail(keyboard)
        /\ KeyOf[Head(keyboard).code] = NoKey
    BY <1>2 DEF NoKeyToGet
  <2>2. ASSUME NEW k, k # NoKey, Believed(k)' PROVE Held(k)'
    <3>1. LastTyped(k)' => LastTyped(k)
      BY <1>2, <2>1, ReadFirst
    <3>2. NotTyped(k)' => NotTyped(k)
      BY <1>2, <2>1, <2>2, ReadFirst
    <3>3. Pending(k)' = Pending(k)
      BY <2>1, SameRing
    <3>4. Believed(k)
      BY <2>2, <3>1, <3>2, <3>3 DEF Believed
    <3> QED
      BY <2>1, <2>2, <3>4 DEF Honest, Held
  <2> QED
    BY <2>1, <2>2, SameRing DEF Honest
<1>3. CASE D_PopEvent
  <2>1. UNCHANGED <<down, keyboard>>
    BY <1>3 DEF D_PopEvent
  <2>2. ASSUME NEW k, k # NoKey, Believed(k)' PROVE Held(k)'
    <3>1. LastTyped(k)' = LastTyped(k) /\ NotTyped(k)' = NotTyped(k)
      BY <2>1 DEF LastTyped, NotTyped, Typed
    <3>2. Pending(k)' => Pending(k)
      BY <1>3, TakenFirst
    <3>3. Believed(k)
      BY <2>2, <3>1, <3>2 DEF Believed
    <3> QED
      BY <2>1, <2>2, <3>3 DEF Honest, Held
  <2> QED
    BY <1>3, <2>2, TakenFirst DEF Honest
<1>4. CASE \E c \in ScanCodes : Type(c)
  BY <1>4, TypeHonest
<1>5. CASE GetKey
  BY <1>5, GetKeyHonest
<1> QED
  BY <1>1, <1>2, <1>3, <1>4, <1>5
  DEF Next, BuildNewTic, vars, I_StartTic, Processed, NoKeyToGet

LEMMA InputAlways == Spec => []InputInv
<1>1. Init => InputInv
  BY InitRoom, HonestInit DEF InputInv
<1>2. InputInv /\ [Next]_vars => InputInv'
  BY StepRoom, HonestStep DEF InputInv
<1> QED
  BY <1>1, <1>2, PTL DEF Spec

(* When all codes are read and all events taken, no key is believed to be  *)
(* down that is not, for any keyboard, any map of its codes to the keys of *)
(* Doom and any ring.                                                      *)
THEOREM NothingSticks == Spec => []NoneStuck
<1>1. InputInv => NoneStuck
  <2> SUFFICES ASSUME InputInv, keyboard = <<>>, eventhead = eventtail, NEW k \in known
               PROVE  k \in {KeyOf[c] : c \in down}
    BY DEF NoneStuck
  <2>1. Len(keyboard) = 0 /\ Occupied = 0
    BY InputConstants DEF InputInv, TypeOK, Occupied
  <2>2. Believed(k) /\ k # NoKey
    BY <2>1 DEF Believed, NotTyped, Pending, NotPosted, InputInv, Honest
  <2>3. Held(k)
    BY <2>2 DEF InputInv, Honest
  <2> QED
    BY <2>3 DEF Held
<1> QED
  BY <1>1, InputAlways, PTL

-----------------------------------------------------------------------------
(* The keyboard, I_GetEvent and the ring as one queue                      *)

Codes == [code : ScanCodes, pressed : BOOLEAN]
Heard == [type : {"keydown", "keyup"}, key : {KeyOf[c] : c \in ScanCodes}, shifted : BOOLEAN]
Accs  == [shift : Int, seq : Seq(Heard)]

LEMMA EventHeard ==
  ASSUME NEW k \in Codes, NEW n \in Int
  PROVE  /\ EventOf(k, n) \in Heard /\ Change(k) \in Int
         /\ EventOf(k, n).key = KeyOf[k.code] /\ (EventOf(k, n).type = "keydown" <=> k.pressed)
BY DEF EventOf, Change, Heard, Codes

LEMMA ReadsTyped ==
  ASSUME NEW acc \in Accs, NEW k \in Codes
  PROVE  Reads(acc, k) \in Accs
<1>1. acc.shift \in Int /\ acc.seq \in Seq(Heard)
  BY DEF Accs
<1>2. CASE KeyOf[k.code] = NoKey
  BY <1>2 DEF Reads
<1>3. CASE KeyOf[k.code] # NoKey
  <2> DEFINE n == acc.shift + Change(k)
  <2>1. n \in Int
    BY <1>1, EventHeard
  <2>2. Reads(acc, k) = [shift |-> n, seq |-> Append(acc.seq, EventOf(k, n))]
    BY <1>3 DEF Reads
  <2> HIDE DEF n
  <2>3. Append(acc.seq, EventOf(k, n)) \in Seq(Heard)
    BY <1>1, <2>1, EventHeard, AppendProperties
  <2> QED BY <2>1, <2>2, <2>3 DEF Accs
<1> QED BY <1>2, <1>3

(* What ReadsAll goes through.                                             *)
Rounds(g, acc, q, n) == g[0] = acc /\ \A i \in 1 .. n : g[i] = Reads(g[i - 1], q[i])

LEMMA ReadsRounds ==
  ASSUME NEW acc \in Accs, NEW q \in Seq(Codes), NEW n \in Nat, n = Len(q)
  PROVE  \E g \in [0 .. n -> Accs] : Rounds(g, acc, q, n) /\ ReadsAll(acc, q) = g[n]
<1> DEFINE F == [x \in (1 .. n) \X Accs |-> Reads(x[2], q[x[1]])]
           after[i \in 0 .. n] == IF i = 0 THEN acc ELSE Reads(after[i - 1], q[i])
<1>1. \A i \in 1 .. n : q[i] \in Codes
  BY ElementOfSeq
<1>2. F \in [(1 .. n) \X Accs -> Accs]
  BY <1>1, ReadsTyped
<1>3. \A a \in Accs, i \in 1 .. n : F[<<i, a>>] = Reads(a, q[i])
  OBVIOUS
<1> HIDE DEF F
<1>4. PICK g \in [0 .. n -> Accs] : IsRun(g, acc, F, n)
  BY <1>2, Recursion
<1>5. \A i \in 0 .. n : g[i] = IF i = 0 THEN acc ELSE Reads(g[i - 1], q[i])
  <2> TAKE i \in 0 .. n
  <2>1. CASE i = 0
    BY <1>4, <2>1 DEF IsRun
  <2>2. CASE i \in 1 .. n
    <3>1. i - 1 \in 0 .. n /\ g[i - 1] \in Accs /\ i # 0
      BY <2>2
    <3>2. g[i] = F[<<i, g[i - 1]>>]
      BY <1>4, <2>2 DEF IsRun
    <3> QED BY <1>3, <2>2, <3>1, <3>2
  <2> QED BY <2>1, <2>2
<1>6. g = [i \in 0 .. n |-> IF i = 0 THEN acc ELSE Reads(g[i - 1], q[i])]
  BY <1>5
<1>7. after = [i \in 0 .. n |-> IF i = 0 THEN acc ELSE Reads(after[i - 1], q[i])]
  BY <1>6
<1>8. ReadsAll(acc, q) = after[n]
  BY DEF ReadsAll
<1> HIDE DEF after
<1>9. Rounds(after, acc, q, n)
  BY <1>7 DEF Rounds
<1>10. after \in [0 .. n -> Accs]
  <2> DEFINE G == Nat \X Accs
  <2>1. <<0, after[0]>> \in G
    BY <1>9 DEF Rounds
  <2>2. \A i \in 1 .. n : <<i - 1, after[i - 1]>> \in G => <<i, after[i]>> \in G
    BY <1>1, <1>9, ReadsTyped DEF Rounds
  <2> HIDE DEF G
  <2>3. \A i \in 0 .. n : <<i, after[i]>> \in G
    BY <2>1, <2>2, KeptByEach
  <2>4. \A i \in 0 .. n : after[i] \in Accs
    BY <2>3 DEF G
  <2>5. after = [i \in 0 .. n |-> after[i]]
    BY <1>7
  <2> QED BY <2>4, <2>5
<1> QED BY <1>8, <1>9, <1>10

LEMMA AppendInFront ==
  ASSUME NEW p \in Seq(Heard), NEW s \in Seq(Heard), NEW e \in Heard
  PROVE  Append(p \o s, e) = p \o Append(s, e)
<1>1. p \o s \in Seq(Heard) /\ <<e>> \in Seq(Heard)
  BY ConcatProperties
<1>2. Append(p \o s, e) = (p \o s) \o <<e>> /\ Append(s, e) = s \o <<e>>
  BY <1>1, AppendIsConcat
<1>3. (p \o s) \o <<e>> = p \o (s \o <<e>>)
  BY <1>1, ConcatAssociative
<1> QED BY <1>2, <1>3

LEMMA ConcatHeadTail ==
  ASSUME NEW p \in Seq(Heard), NEW s \in Seq(Heard), p # <<>>
  PROVE  p \o s # <<>> /\ Head(p \o s) = Head(p) /\ Tail(p \o s) = Tail(p) \o s
<1>1. PICK n \in Nat \ {0} : n = Len(p)
  BY EmptySeq
<1>2. PICK m \in Nat : m = Len(s)
  BY LenProperties
<1>3. /\ p \o s \in Seq(Heard) /\ Len(p \o s) = n + m
      /\ \A i \in 1 .. n + m : (p \o s)[i] = IF i <= n THEN p[i] ELSE s[i - n]
  BY <1>1, <1>2, ConcatProperties
<1>4. p \o s # <<>>
  BY <1>3, EmptySeq
<1>5. Head(p \o s) = Head(p)
  <2>1. Head(p \o s) = (p \o s)[1]
    BY <1>3, <1>4
  <2>2. Head(p) = p[1]
    BY <1>1
  <2>3. 1 \in 1 .. n + m /\ 1 <= n
    BY <1>1, <1>2
  <2>4. (p \o s)[1] = p[1]
    BY <1>3, <2>3
  <2> QED BY <2>1, <2>2, <2>4
<1>l. PICK l \in Nat : n = l + 1
  <2>1. n - 1 \in Nat /\ n = (n - 1) + 1
    OBVIOUS
  <2> QED BY <2>1
<1>t. PICK t \in Seq(Heard) : t = Tail(p) /\ Len(t) = l /\ \A i \in 1 .. l : t[i] = p[i + 1]
  <2>1. Len(Tail(p)) = l
    <3>1. Len(Tail(p)) = n - 1
      BY <1>1, HeadTailProperties
    <3> QED BY <1>l, <3>1
  <2> QED BY <2>1, HeadTailProperties
<1>6. /\ Tail(p \o s) \in Seq(Heard) /\ Len(Tail(p \o s)) = l + m
      /\ \A i \in 1 .. l + m : Tail(p \o s)[i] = (p \o s)[i + 1]
  <2>1. Len(Tail(p \o s)) = l + m
    BY <1>3, <1>4, <1>l, HeadTailProperties
  <2> QED BY <1>3, <1>4, <2>1, HeadTailProperties
<1>7. /\ t \o s \in Seq(Heard) /\ Len(t \o s) = l + m
      /\ \A i \in 1 .. l + m : (t \o s)[i] = IF i <= l THEN t[i] ELSE s[i - l]
  <2>1. /\ t \o s \in Seq(Heard) /\ Len(t \o s) = Len(t) + Len(s)
        /\ \A i \in 1 .. Len(t) + Len(s) :
             (t \o s)[i] = IF i <= Len(t) THEN t[i] ELSE s[i - Len(t)]
    BY ConcatProperties
  <2> QED BY <1>2, <1>t, <2>1
<1>8. ASSUME NEW i \in 1 .. l + m PROVE Tail(p \o s)[i] = (t \o s)[i]
  <2>1. i + 1 \in 1 .. n + m /\ (i + 1) - n = i - l /\ (i + 1 <= n <=> i <= l)
    BY <1>l
  <2>2. Tail(p \o s)[i] = IF i <= l THEN p[i + 1] ELSE s[i - l]
    BY <1>3, <1>6, <2>1
  <2>3. i <= l => i \in 1 .. l
    OBVIOUS
  <2> QED BY <1>7, <1>t, <2>2, <2>3
<1>9. Tail(p \o s) = t \o s
  BY <1>6, <1>7, <1>8, SeqEqual
<1> QED BY <1>4, <1>5, <1>9, <1>t

(* Two ways through the same codes, one of which has p in front.           *)
Alike(g, h, q, n) == \A i \in 1 .. n : g[i] = Reads(g[i - 1], q[i]) /\ h[i] = Reads(h[i - 1], q[i])
Behind(a, p, b) == a.shift = b.shift /\ a.seq = p \o b.seq
LEMMA InFront ==
  ASSUME NEW n \in Nat, NEW q, NEW g, NEW h, NEW p \in Seq(Heard),
         \A i \in 1 .. n : q[i] \in Codes,
         \A i \in 0 .. n : g[i] \in Accs /\ h[i] \in Accs,
         Alike(g, h, q, n), Behind(g[0], p, h[0])
  PROVE  Behind(g[n], p, h[n])
<1> USE DEF Behind
<1> DEFINE T == {i \in Nat : i <= n => g[i].shift = h[i].shift /\ g[i].seq = p \o h[i].seq}
<1>1. 0 \in T
  OBVIOUS
<1>2. ASSUME NEW i \in T PROVE i + 1 \in T
  <2> SUFFICES ASSUME i + 1 <= n
               PROVE  g[i + 1].shift = h[i + 1].shift /\ g[i + 1].seq = p \o h[i + 1].seq
    OBVIOUS
  <2>1. i + 1 \in 1 .. n /\ (i + 1) - 1 = i /\ i \in 0 .. n
    OBVIOUS
  <2>2. PICK k \in Codes : k = q[i + 1]
    BY <2>1
  <2>3. g[i + 1] = Reads(g[i], k) /\ h[i + 1] = Reads(h[i], k)
    BY <2>1, <2>2 DEF Alike
  <2>4. g[i].shift = h[i].shift /\ g[i].seq = p \o h[i].seq
    BY <2>1
  <2>5. CASE KeyOf[k.code] = NoKey
    BY <2>3, <2>4, <2>5 DEF Reads
  <2>6. CASE KeyOf[k.code] # NoKey
    <3> DEFINE m == h[i].shift + Change(k)
               e == EventOf(k, m)
    <3>1. h[i].seq \in Seq(Heard) /\ m \in Int /\ e \in Heard
      BY <2>1, EventHeard DEF Accs
    <3>2. g[i + 1] = [shift |-> m, seq |-> Append(p \o h[i].seq, e)]
      BY <2>3, <2>4, <2>6 DEF Reads
    <3>3. h[i + 1] = [shift |-> m, seq |-> Append(h[i].seq, e)]
      BY <2>3, <2>6 DEF Reads
    <3> HIDE DEF m, e
    <3>4. Append(p \o h[i].seq, e) = p \o Append(h[i].seq, e)
      BY <3>1, AppendInFront
    <3>5. g[i + 1].shift = m /\ g[i + 1].seq = Append(p \o h[i].seq, e)
      BY <3>2
    <3>6. h[i + 1].shift = m /\ h[i + 1].seq = Append(h[i].seq, e)
      BY <3>3
    <3> QED BY <3>4, <3>5, <3>6
  <2> QED BY <2>5, <2>6
<1>3. T \in SUBSET Nat
  OBVIOUS
<1> HIDE DEF T
<1>4. T = Nat
  BY <1>1, <1>2, <1>3, SetInduction
<1>5. n \in T /\ n <= n
  BY <1>4
<1> QED BY <1>5 DEF T

(* The events of codes do not depend on what was posted before them.       *)
LEMMA ReadsBehind ==
  ASSUME NEW a \in Accs, NEW b \in Accs, NEW p \in Seq(Heard), NEW q \in Seq(Codes),
         Behind(a, p, b)
  PROVE  /\ ReadsAll(a, q) \in Accs /\ ReadsAll(b, q) \in Accs
         /\ Behind(ReadsAll(a, q), p, ReadsAll(b, q))
<1>0. PICK n \in Nat : n = Len(q)
  BY LenProperties
<1>1. \A i \in 1 .. n : q[i] \in Codes
  BY <1>0, ElementOfSeq
<1>2. PICK g \in [0 .. n -> Accs] : Rounds(g, a, q, n) /\ ReadsAll(a, q) = g[n]
  BY <1>0, ReadsRounds
<1>3. PICK h \in [0 .. n -> Accs] : Rounds(h, b, q, n) /\ ReadsAll(b, q) = h[n]
  BY <1>0, ReadsRounds
<1>4. \A i \in 0 .. n : g[i] \in Accs /\ h[i] \in Accs
  OBVIOUS
<1>5. Alike(g, h, q, n)
  BY <1>2, <1>3 DEF Rounds, Alike
<1>6. Behind(g[0], p, h[0])
  BY <1>2, <1>3 DEF Rounds
<1>7. Behind(g[n], p, h[n])
  BY <1>1, <1>4, <1>5, <1>6, InFront
<1>8. n \in 0 .. n
  OBVIOUS
<1> QED BY <1>2, <1>3, <1>4, <1>7, <1>8

(* Ways that begin alike and go on alike are the same.                     *)
LEMMA SameRounds ==
  ASSUME NEW n \in Nat, NEW g, NEW h, NEW q, g[0] = h[0], Alike(g, h, q, n)
  PROVE  g[n] = h[n]
<1> DEFINE f == [i \in 0 .. n |-> <<g[i], h[i]>>]
           S == {<<g[i], g[i]>> : i \in 0 .. n}
<1>1. f[0] \in S
  OBVIOUS
<1>2. ASSUME NEW i \in 1 .. n, f[i - 1] \in S PROVE f[i] \in S
  <2>1. i - 1 \in 0 .. n /\ i \in 0 .. n
    OBVIOUS
  <2>2. g[i - 1] = h[i - 1]
    BY <1>2, <2>1
  <2>3. g[i] = h[i]
    BY <2>2 DEF Alike
  <2> QED BY <2>1, <2>3
<1> SUFFICES f[n] \in S
  OBVIOUS
<1> HIDE DEF f, S
<1> QED BY <1>1, <1>2, StaysIn

LEMMA ReadsLast ==
  ASSUME NEW acc \in Accs, NEW q \in Seq(Codes), NEW k \in Codes
  PROVE  ReadsAll(acc, Append(q, k)) = Reads(ReadsAll(acc, q), k)
<1>0. PICK n \in Nat : n = Len(q)
  BY LenProperties
<1>1. /\ Append(q, k) \in Seq(Codes) /\ Len(Append(q, k)) = n + 1
      /\ \A i \in 1 .. n : Append(q, k)[i] = q[i]
      /\ Append(q, k)[n + 1] = k
  BY <1>0, AppendProperties
<1>2. PICK g \in [0 .. n -> Accs] : Rounds(g, acc, q, n) /\ ReadsAll(acc, q) = g[n]
  BY <1>0, ReadsRounds
<1>3. PICK h \in [0 .. n + 1 -> Accs] :
        Rounds(h, acc, Append(q, k), n + 1) /\ ReadsAll(acc, Append(q, k)) = h[n + 1]
  <2>1. n + 1 \in Nat
    OBVIOUS
  <2> QED BY <1>1, <2>1, ReadsRounds
<1>4. g[n] = h[n]
  <2>1. g[0] = h[0]
    BY <1>2, <1>3 DEF Rounds
  <2>2. Alike(g, h, q, n)
    <3> SUFFICES ASSUME NEW i \in 1 .. n
                 PROVE  g[i] = Reads(g[i - 1], q[i]) /\ h[i] = Reads(h[i - 1], q[i])
      BY DEF Alike
    <3>1. i \in 1 .. n + 1
      OBVIOUS
    <3>2. h[i] = Reads(h[i - 1], Append(q, k)[i])
      BY <1>3, <3>1 DEF Rounds
    <3> QED BY <1>1, <1>2, <3>2 DEF Rounds
  <2> QED BY <2>1, <2>2, SameRounds
<1>5. h[n + 1] = Reads(h[n], k)
  <2>1. n + 1 \in 1 .. n + 1 /\ (n + 1) - 1 = n
    OBVIOUS
  <2>2. h[n + 1] = Reads(h[(n + 1) - 1], Append(q, k)[n + 1])
    BY <1>3, <2>1 DEF Rounds
  <2> QED BY <1>1, <2>1, <2>2
<1> QED BY <1>2, <1>3, <1>4, <1>5

LEMMA ReadsFirst ==
  ASSUME NEW acc \in Accs, NEW q \in Seq(Codes), q # <<>>
  PROVE  ReadsAll(acc, q) = ReadsAll(Reads(acc, Head(q)), Tail(q))
<1>0. PICK n \in Nat : n + 1 = Len(q)
  <2>1. Len(q) \in Nat \ {0}
    BY EmptySeq
  <2>2. Len(q) - 1 \in Nat /\ (Len(q) - 1) + 1 = Len(q)
    BY <2>1
  <2> QED BY <2>2
<1>1. /\ Head(q) \in Codes /\ Head(q) = q[1] /\ Tail(q) \in Seq(Codes) /\ Len(Tail(q)) = n
      /\ \A i \in 1 .. n : Tail(q)[i] = q[i + 1]
  <2>1. Len(Tail(q)) = n
    BY <1>0, HeadTailProperties
  <2>2. Head(q) = q[1]
    OBVIOUS
  <2> QED BY <2>1, <2>2, HeadTailProperties
<1>2. PICK g \in [0 .. n + 1 -> Accs] : Rounds(g, acc, q, n + 1) /\ ReadsAll(acc, q) = g[n + 1]
  <2>1. n + 1 \in Nat
    OBVIOUS
  <2> QED BY <1>0, <2>1, ReadsRounds
<1>3. Reads(acc, Head(q)) \in Accs
  BY <1>1, ReadsTyped
<1>4. PICK h \in [0 .. n -> Accs] : /\ Rounds(h, Reads(acc, Head(q)), Tail(q), n)
                                    /\ ReadsAll(Reads(acc, Head(q)), Tail(q)) = h[n]
  BY <1>1, <1>3, ReadsRounds
<1> DEFINE f == [i \in 0 .. n |-> g[i + 1]]
<1>5. f[0] = h[0]
  <2>1. 1 \in 1 .. n + 1 /\ 0 + 1 = 1 /\ 0 \in 0 .. n /\ 1 - 1 = 0
    OBVIOUS
  <2>2. g[1] = Reads(acc, q[1])
    BY <1>2, <2>1 DEF Rounds
  <2> QED BY <1>1, <1>4, <2>1, <2>2 DEF Rounds
<1>6. Alike(f, h, Tail(q), n)
  <2> SUFFICES ASSUME NEW i \in 1 .. n
               PROVE  f[i] = Reads(f[i - 1], Tail(q)[i]) /\ h[i] = Reads(h[i - 1], Tail(q)[i])
    BY DEF Alike
  <2>1. i + 1 \in 1 .. n + 1 /\ (i + 1) - 1 = i /\ i - 1 \in 0 .. n /\ (i - 1) + 1 = i /\ i \in 0 .. n
    OBVIOUS
  <2>2. g[i + 1] = Reads(g[i], q[i + 1])
    BY <1>2, <2>1 DEF Rounds
  <2>3. f[i] = g[i + 1] /\ f[i - 1] = g[i]
    BY <2>1
  <2> QED BY <1>1, <1>4, <2>2, <2>3 DEF Rounds
<1>7. f[n] = g[n + 1]
  OBVIOUS
<1> HIDE DEF f
<1>8. f[n] = h[n]
  BY <1>5, <1>6, SameRounds
<1> QED BY <1>2, <1>4, <1>7, <1>8

LEMMA ReadsNone ==
  ASSUME NEW acc \in Accs
  PROVE  ReadsAll(acc, <<>>) = acc
<1>1. <<>> \in Seq(Codes) /\ Len(<<>>) = 0
  BY EmptySeq
<1>2. PICK g \in [0 .. 0 -> Accs] : Rounds(g, acc, <<>>, 0) /\ ReadsAll(acc, <<>>) = g[0]
  BY <1>1, ReadsRounds
<1> QED BY <1>2 DEF Rounds

-----------------------------------------------------------------------------
(* The refinement.  What is heard late is told from what was typed by the  *)
(* count of shift presses: it is the number of shift keys that are down,   *)
(* and of the repetitions, which are counted for ever.                     *)
Start == [shift |-> shiftdown, seq |-> <<>>]
Outstanding == ReadsAll(Start, keyboard).shift
RingTyped == \A i \in 1 .. Occupied : events[At(i)] \in Heard
Counted == Outstanding = Cardinality(down \cap Queue!ShiftKeys) + repeats
QueueInv == InputInv /\ shiftdown \in Int /\ RingTyped /\ Counted

LEMMA StartTyped ==
  ASSUME QueueInv
  PROVE  /\ Start \in Accs /\ keyboard \in Seq(Codes) /\ ReadsAll(Start, keyboard) \in Accs
         /\ Unread = ReadsAll(Start, keyboard).seq /\ Unread \in Seq(Heard) /\ Outstanding \in Int
<1>1. Start \in Accs
  BY EmptySeq DEF QueueInv, Start, Accs
<1>2. keyboard \in Seq(Codes)
  BY DEF QueueInv, InputInv, TypeOK, Codes
<1>3. ReadsAll(Start, keyboard) \in Accs
  <2>1. Start.seq = <<>> \o Start.seq /\ <<>> \in Seq(Heard)
    BY <1>1, EmptySeq, ConcatEmptySeq DEF Accs
  <2> QED BY <1>1, <1>2, <2>1, ReadsBehind DEF Behind
<1>4. Unread = ReadsAll(Start, keyboard).seq
  BY DEF Unread, Start
<1> QED BY <1>1, <1>2, <1>3, <1>4 DEF Accs, Outstanding

LEMMA RingSequence ==
  ASSUME TypeOK, RingTyped
  PROVE  /\ InRing \in Seq(Heard) /\ Len(InRing) = Occupied
         /\ \A i \in 1 .. Occupied : InRing[i] = events[At(i)]
<1>1. Occupied \in Nat
  BY Slots
<1>2. InRing = [i \in 1 .. Occupied |-> events[At(i)]]
  BY DEF InRing, At
<1>3. InRing \in [1 .. Occupied -> Heard]
  BY <1>2 DEF RingTyped
<1>4. InRing \in Seq(Heard) /\ Len(InRing) = Occupied
  BY <1>1, <1>3
<1> QED BY <1>2, <1>4

LEMMA ShiftKeysFinite == IsFiniteSet(down \cap Queue!ShiftKeys) /\ Cardinality(down \cap Queue!ShiftKeys) \in Nat
<1>1. down \cap Queue!ShiftKeys \subseteq ScanCodes
  BY DEF Queue!ShiftKeys
<1> QED BY <1>1, InputConstants, FS_Subset, FS_CardinalityType

LEMMA ChangeIs ==
  ASSUME NEW k, k.pressed \in BOOLEAN
  PROVE  Change(k) = IF KeyOf[k.code] # Shift THEN 0 ELSE IF k.pressed THEN 1 ELSE -1
BY DEF Change

LEMMA EventIs ==
  ASSUME NEW k, NEW n \in Int, k.pressed \in BOOLEAN
  PROVE  EventOf(k, n) = IF k.pressed THEN Queue!Keydown(KeyOf[k.code], n > 0)
                         ELSE Queue!Keyup(KeyOf[k.code])
BY DEF EventOf, Queue!Keydown, Queue!Keyup

(* A change at the keyboard is counted when its code is read.              *)
LEMMA TypeCounted ==
  ASSUME QueueInv, NEW c \in ScanCodes, NEW k, k.code = c, k.pressed \in BOOLEAN,
         k.pressed => Queue!Pushed(c), ~k.pressed => Queue!LetGo(c)
  PROVE  Cardinality(down' \cap Queue!ShiftKeys) + repeats' =
           Cardinality(down \cap Queue!ShiftKeys) + repeats + Change(k)
<1>1. PICK held : held = down \cap Queue!ShiftKeys
  OBVIOUS
<1>2. PICK next : next = down' \cap Queue!ShiftKeys
  OBVIOUS
<1>3. PICK a \in Nat : a = Cardinality(held)
  BY <1>1, ShiftKeysFinite
<1>4. PICK b : b = Cardinality(next)
  OBVIOUS
<1>5. PICK d : d = Change(k)
  OBVIOUS
<1>6. d = IF KeyOf[c] # Shift THEN 0 ELSE IF k.pressed THEN 1 ELSE -1
  BY <1>5, ChangeIs
<1>7. IsFiniteSet(held) /\ repeats \in Nat
  BY <1>1, ShiftKeysFinite DEF QueueInv, InputInv, TypeOK
<1>8. c \in Queue!ShiftKeys <=> KeyOf[c] = Shift
  BY DEF Queue!ShiftKeys
<1> SUFFICES b + repeats' = a + repeats + d
  BY <1>1, <1>2, <1>3, <1>4, <1>5
<1>9. CASE KeyOf[c] # Shift
  <2>1. repeats' = repeats /\ (down' = down \cup {c} \/ down' = down \ {c})
    BY <1>9 DEF Queue!Pushed, Queue!LetGo
  <2>2. next = held
    BY <1>1, <1>2, <1>8, <1>9, <2>1
  <2>3. b = a /\ d = 0
    BY <1>3, <1>4, <1>6, <1>9, <2>2
  <2> QED BY <1>7, <2>1, <2>3
<1>10. CASE KeyOf[c] = Shift /\ k.pressed /\ c \in down
  <2>1. repeats' = repeats + 1 /\ down' = down
    BY <1>10 DEF Queue!Pushed
  <2>2. next = held
    BY <1>1, <1>2, <2>1
  <2>3. b = a /\ d = 1
    BY <1>3, <1>4, <1>6, <1>10, <2>2
  <2> QED BY <1>7, <2>1, <2>3
<1>11. CASE KeyOf[c] = Shift /\ k.pressed /\ c \notin down
  <2>1. repeats' = repeats /\ down' = down \cup {c}
    BY <1>11 DEF Queue!Pushed
  <2>2. next = held \cup {c} /\ c \notin held
    BY <1>1, <1>2, <1>8, <1>11, <2>1
  <2>3. b = a + 1
    BY <1>3, <1>4, <1>7, <2>2, FS_AddElement
  <2>4. d = 1
    BY <1>6, <1>11
  <2> QED BY <1>7, <2>1, <2>3, <2>4
<1>12. CASE KeyOf[c] = Shift /\ ~k.pressed
  <2>1. repeats' = repeats /\ c \in down /\ down' = down \ {c}
    BY <1>12 DEF Queue!LetGo
  <2>2. next = held \ {c} /\ c \in held
    BY <1>1, <1>2, <1>8, <1>12, <2>1
  <2>3. b = a - 1
    BY <1>3, <1>4, <1>7, <2>2, FS_RemoveElement
  <2>4. d = -1
    BY <1>6, <1>12
  <2> QED BY <1>7, <2>1, <2>3, <2>4
<1> QED BY <1>9, <1>10, <1>11, <1>12

(* A key that is typed will be heard, behind all that waits.               *)
LEMMA TypeHeard ==
  ASSUME QueueInv, NEW c \in ScanCodes, Type(c)
  PROVE  shiftdown' \in Int /\ RingTyped' /\ Counted' /\ Queue!Type(c)
<1>1. /\ UNCHANGED <<shiftdown, known, events, eventhead, eventtail>> /\ TypeOK /\ RingTyped
      /\ shiftdown \in Int
  BY DEF Type, QueueInv, InputInv
<1>2. PICK k \in Codes : /\ k.pressed => Queue!Pushed(c)
                         /\ ~k.pressed => Queue!LetGo(c)
                         /\ k.code = c /\ keyboard' = Append(keyboard, k)
  <2>1. CASE Queue!Pushed(c) /\ keyboard' = Append(keyboard, [code |-> c, pressed |-> TRUE])
    BY <2>1 DEF Codes
  <2>2. CASE Queue!LetGo(c) /\ keyboard' = Append(keyboard, [code |-> c, pressed |-> FALSE])
    BY <2>2 DEF Codes
  <2> QED BY <2>1, <2>2 DEF Type
<1>3. k \in Codes /\ k.code = c /\ k.pressed \in BOOLEAN
  BY <1>2 DEF Codes
<1>4. Start' = Start /\ Occupied' = Occupied /\ \A i : At(i)' = At(i)
  BY <1>1 DEF Start, Occupied, At
<1>5. RingTyped' /\ InRing' = InRing
  <2>1. InRing' = InRing
    BY <1>1, <1>4 DEF InRing
  <2> QED BY <1>1, <1>4, <2>1 DEF RingTyped
<1>6. ReadsAll(Start, keyboard)' = Reads(ReadsAll(Start, keyboard), k)
  BY <1>2, <1>3, <1>4, StartTyped, ReadsLast
<1>7. Cardinality(down' \cap Queue!ShiftKeys) + repeats' = Outstanding + Change(k)
  BY <1>2, <1>3, TypeCounted DEF QueueInv, Counted
<1>8. CASE KeyOf[c] = NoKey
  <2>1. ReadsAll(Start, keyboard)' = ReadsAll(Start, keyboard) /\ Change(k) = 0
    BY <1>3, <1>6, <1>8, InputConstants, ChangeIs DEF Reads
  <2>2. Counted'
    BY <1>7, <2>1, StartTyped DEF Counted, Outstanding, Queue!ShiftKeys
  <2>3. Unread' = Unread
    BY <2>1 DEF Unread, Start
  <2>4. Queue!Type(c)
    <3>1. InRing' \o Unread' = InRing \o Unread /\ known' = known
      BY <1>1, <1>5, <2>3
    <3>2. CASE k.pressed
      <4>1. PICK s \in BOOLEAN : s = Queue!Capitals
        BY DEF Queue!Capitals
      <4>2. Queue!MayBe(s)
        BY <4>1 DEF Queue!MayBe
      <4> QED BY <1>2, <1>8, <3>1, <3>2, <4>2 DEF Queue!Type
    <3>3. CASE ~k.pressed
      BY <1>2, <1>8, <3>1, <3>3 DEF Queue!Type
    <3> QED BY <3>2, <3>3
  <2> QED BY <1>1, <1>5, <2>2, <2>4
<1>9. CASE KeyOf[c] # NoKey
  <2> DEFINE n == Outstanding + Change(k)
             e == EventOf(k, n)
  <2>1. ReadsAll(Start, keyboard)' = [shift |-> n, seq |-> Append(Unread, e)]
    BY <1>3, <1>6, <1>9, StartTyped DEF Reads, Outstanding
  <2>2. n \in Int /\ e \in Heard
    BY <1>3, StartTyped, EventHeard
  <2>3. Counted'
    BY <1>7, <2>1 DEF Counted, Outstanding, Queue!ShiftKeys
  <2>4. Unread' = Append(Unread, e)
    BY <2>1 DEF Unread, Start
  <2>5. Queue!MayBe(n > 0)
    <3>1. n = Cardinality(down' \cap Queue!ShiftKeys) + repeats'
      BY <1>7
    <3>2. repeats' \in Nat
      BY <1>2 DEF QueueInv, InputInv, TypeOK, Queue!Pushed, Queue!LetGo
    <3>3. IsFiniteSet(down' \cap Queue!ShiftKeys)
      <4>1. down' \cap Queue!ShiftKeys \subseteq ScanCodes
        BY DEF Queue!ShiftKeys
      <4> QED BY <4>1, InputConstants, FS_Subset
    <3>4. /\ Cardinality(down' \cap Queue!ShiftKeys) \in Nat
          /\ Cardinality(down' \cap Queue!ShiftKeys) = 0 <=> down' \cap Queue!ShiftKeys = {}
      BY <3>3, FS_CardinalityType, FS_EmptySet
    <3> HIDE DEF n
    <3>5. (n > 0) = Queue!Capitals \/ repeats' > 0
      BY <3>1, <3>2, <3>4 DEF Queue!Capitals
    <3>6. repeats' > 0 => n > 0
      BY <3>1, <3>2, <3>4
    <3> QED BY <3>5, <3>6 DEF Queue!MayBe
  <2>6. e = IF k.pressed THEN Queue!Keydown(KeyOf[c], n > 0) ELSE Queue!Keyup(KeyOf[c])
    BY <1>3, <2>2, EventIs
  <2> DEFINE s == n > 0
  <2>11. s \in BOOLEAN /\ Queue!MayBe(s)
    BY <2>2, <2>5
  <2>12. e = IF k.pressed THEN Queue!Keydown(KeyOf[c], s) ELSE Queue!Keyup(KeyOf[c])
    BY <2>6
  <2> HIDE DEF n, e, s
  <2>7. InRing' \o Unread' = Append(InRing \o Unread, e)
    BY <1>1, <1>5, <2>2, <2>4, StartTyped, RingSequence, AppendInFront
  <2>8. Queue!Type(c)
    <3>1. CASE k.pressed
      <4>1. Queue!Pushed(c) /\ InRing' \o Unread'
              = Append(InRing \o Unread, Queue!Keydown(KeyOf[c], s))
        BY <1>2, <2>7, <2>12, <3>1
      <4> QED BY <1>1, <1>9, <2>11, <4>1 DEF Queue!Type
    <3>2. CASE ~k.pressed
      BY <1>1, <1>2, <1>9, <2>7, <2>12, <3>2 DEF Queue!Type
    <3> QED BY <3>1, <3>2
  <2> QED BY <1>1, <1>5, <2>3, <2>8
<1> QED BY <1>8, <1>9

(* A release, or a press, that is read waits in the ring as it did before. *)
LEMMA GetKeyHeard ==
  ASSUME QueueInv, GetKey
  PROVE  shiftdown' \in Int /\ RingTyped' /\ Counted' /\ UNCHANGED Queue!queueVars
<1> DEFINE k == Head(keyboard)
           e == EventOf(k, shiftdown')
<1>1. /\ UNCHANGED <<down, repeats, known, eventtail>> /\ keyboard' = Tail(keyboard)
      /\ keyboard # <<>> /\ KeyOf[k.code] # NoKey /\ shiftdown' = shiftdown + Change(k)
      /\ D_PostEvent(e)
  BY DEF GetKey, Posts
<1>2. Start \in Accs /\ keyboard \in Seq(Codes) /\ k \in Codes /\ keyboard' \in Seq(Codes)
  BY <1>1, StartTyped, HeadTailProperties
<1>3. shiftdown' \in Int /\ e \in Heard
  <2>1. shiftdown' \in Int
    BY <1>1, <1>2, EventHeard DEF QueueInv
  <2> QED BY <1>2, <2>1, EventHeard
<1>4. Start' \in Accs /\ Start'.shift = shiftdown' /\ Start'.seq = <<>>
  BY <1>3, EmptySeq DEF Start, Accs
<1>5. PICK r \in Accs : r = Reads(Start, k)
  BY <1>2, ReadsTyped
<1>6. r.shift = shiftdown' /\ r.seq = <<e>>
  <2>1. r = [shift |-> shiftdown', seq |-> Append(<<>>, e)]
    BY <1>1, <1>5 DEF Reads, Start
  <2> QED BY <2>1
<1>7. <<e>> \in Seq(Heard) /\ Behind(r, <<e>>, Start')
  <2>1. <<e>> \in Seq(Heard)
    BY <1>3
  <2>2. <<e>> \o <<>> = <<e>>
    BY <2>1, ConcatEmptySeq
  <2> QED BY <1>4, <1>6, <2>1, <2>2 DEF Behind
<1>8. /\ ReadsAll(Start, keyboard) = ReadsAll(r, keyboard')
      /\ ReadsAll(r, keyboard') \in Accs /\ ReadsAll(Start', keyboard') \in Accs
      /\ Behind(ReadsAll(r, keyboard'), <<e>>, ReadsAll(Start', keyboard'))
  <2>1. ReadsAll(Start, keyboard) = ReadsAll(r, keyboard')
    BY <1>1, <1>2, <1>5, ReadsFirst
  <2> QED BY <1>2, <1>4, <1>5, <1>7, <2>1, ReadsBehind
<1> HIDE DEF k, e
<1>9. /\ Unread = <<e>> \o Unread' /\ Unread' \in Seq(Heard) /\ Outstanding' = Outstanding
  <2>1. Unread = ReadsAll(Start, keyboard).seq /\ Unread' = ReadsAll(Start', keyboard').seq
    BY DEF Unread, Start
  <2>2. Outstanding = ReadsAll(Start, keyboard).shift
        /\ Outstanding' = ReadsAll(Start', keyboard').shift
    BY DEF Outstanding
  <2> QED BY <1>8, <2>1, <2>2 DEF Behind, Accs
<1>10. Counted'
  BY <1>1, <1>9 DEF QueueInv, Counted, Queue!ShiftKeys
<1>11. PICK n \in Nat : n = Occupied
  BY Slots DEF QueueInv, InputInv
<1>12. /\ Occupied' = n + 1 /\ \A i \in 1 .. n : events'[At(i)] = events[At(i)]
       /\ events'[At(n + 1)] = e
  <2>1. Occupied < MAXEVENTS - 1
    BY RoomToPost DEF QueueInv, GetKey
  <2> QED BY <1>1, <1>11, <2>1, PostedSlots DEF QueueInv, InputInv, Honest
<1>13. \A i : At(i)' = At(i)
  BY <1>1 DEF At
<1>14. TypeOK /\ RingTyped /\ TypeOK'
  BY StepRoom DEF QueueInv, InputInv, Next, BuildNewTic
<1>15. RingTyped'
  <2> SUFFICES ASSUME NEW i \in 1 .. n + 1 PROVE events'[At(i)] \in Heard
    BY <1>12, <1>13 DEF RingTyped
  <2>1. CASE i \in 1 .. n
    BY <1>11, <1>12, <1>14, <2>1 DEF RingTyped
  <2>2. CASE i = n + 1
    BY <1>3, <1>12, <2>2
  <2> QED BY <2>1, <2>2
<1>16. /\ InRing \in Seq(Heard) /\ Len(InRing) = n
       /\ \A i \in 1 .. n : InRing[i] = events[At(i)]
  BY <1>11, <1>14, RingSequence
<1>17. /\ InRing' \in Seq(Heard) /\ Len(InRing') = n + 1
       /\ \A i \in 1 .. n + 1 : InRing'[i] = events'[At(i)]
  <2>1. InRing' = [i \in 1 .. n + 1 |-> events'[At(i)]]
    BY <1>12, <1>13 DEF InRing, At
  <2>2. \A i \in 1 .. n + 1 : events'[At(i)] \in Heard
    BY <1>12, <1>13, <1>15 DEF RingTyped
  <2> QED BY <2>1, <2>2
<1>18. InRing' = Append(InRing, e)
  <2>1. /\ Append(InRing, e) \in Seq(Heard) /\ Len(Append(InRing, e)) = n + 1
        /\ \A i \in 1 .. n : Append(InRing, e)[i] = InRing[i]
        /\ Append(InRing, e)[n + 1] = e
    BY <1>3, <1>16, AppendProperties
  <2>2. \A i \in 1 .. n + 1 : InRing'[i] = Append(InRing, e)[i]
    <3> TAKE i \in 1 .. n + 1
    <3>1. i \in 1 .. n \/ i = n + 1
      OBVIOUS
    <3>2. CASE i \in 1 .. n
      BY <1>12, <1>16, <1>17, <2>1, <3>2
    <3>3. CASE i = n + 1
      BY <1>12, <1>17, <2>1, <3>3
    <3> QED BY ONLY <3>1, <3>2, <3>3
  <2> QED BY <1>17, <2>1, <2>2, SeqEqual
<1>19. InRing' \o Unread' = InRing \o Unread
  <2>1. InRing' = InRing \o <<e>>
    BY <1>3, <1>16, <1>18, AppendIsConcat
  <2> QED BY <1>7, <1>9, <1>16, <2>1, ConcatAssociative
<1> QED BY <1>1, <1>3, <1>10, <1>15, <1>19 DEF Queue!queueVars

(* A code without a key stands for no event.                               *)
LEMMA NoKeyHeard ==
  ASSUME QueueInv, NoKeyToGet
  PROVE  shiftdown' \in Int /\ RingTyped' /\ Counted' /\ UNCHANGED Queue!queueVars
<1>1. /\ UNCHANGED <<down, repeats, known, shiftdown, events, eventhead, eventtail>>
      /\ shiftdown \in Int /\ RingTyped /\ Counted
  BY DEF NoKeyToGet, QueueInv
<1>2. Start' = Start /\ Occupied' = Occupied /\ \A i : At(i)' = At(i)
  BY <1>1 DEF Start, Occupied, At
<1>3. InRing' = InRing /\ RingTyped'
  BY <1>1, <1>2 DEF InRing, RingTyped
<1>4. ReadsAll(Start, keyboard') = ReadsAll(Start, keyboard)
  <2>1. CASE keyboard = <<>>
    BY <2>1 DEF NoKeyToGet
  <2>2. CASE keyboard # <<>>
    <3>1. keyboard' = Tail(keyboard) /\ KeyOf[Head(keyboard).code] = NoKey
      BY <2>2 DEF NoKeyToGet
    <3>2. Reads(Start, Head(keyboard)) = Start
      BY <3>1 DEF Reads
    <3> QED BY <2>2, <3>1, <3>2, StartTyped, ReadsFirst
  <2> QED BY <2>1, <2>2
<1>5. Unread' = Unread /\ Outstanding' = Outstanding
  <2>1. Unread = ReadsAll(Start, keyboard).seq /\ Unread' = ReadsAll(Start', keyboard').seq
    BY DEF Unread, Start
  <2> QED BY <1>2, <1>4, <2>1 DEF Outstanding
<1> QED BY <1>1, <1>3, <1>5 DEF Counted, Queue!ShiftKeys, Queue!queueVars

(* What the responders take is the event at the head of the ring.          *)
LEMMA PopHeard ==
  ASSUME QueueInv, D_PopEvent
  PROVE  shiftdown' \in Int /\ RingTyped' /\ Counted' /\ Queue!Hear
<1>1. /\ UNCHANGED <<down, repeats, keyboard, shiftdown>>
      /\ TypeOK /\ Honest /\ RingTyped /\ shiftdown \in Int /\ Counted
  BY DEF D_PopEvent, QueueInv, InputInv
<1>2. PICK n \in 1 .. MAXEVENTS - 1 :
        /\ Occupied = n /\ Occupied' = n - 1
        /\ \A i \in 1 .. n - 1 : events'[At(i)'] = events[At(i + 1)]
  BY <1>1, TakenSlots
<1>3. MAXEVENTS \in Nat /\ n \in Nat \ {0}
  BY <1>2, InputConstants
<1>4. RingTyped'
  <2> SUFFICES ASSUME NEW i \in 1 .. n - 1 PROVE events'[At(i)'] \in Heard
    BY <1>2 DEF RingTyped
  <2>1. i + 1 \in 1 .. n
    BY <1>3
  <2> QED BY <1>1, <1>2, <2>1 DEF RingTyped
<1>5. /\ InRing \in Seq(Heard) /\ Len(InRing) = n
      /\ \A i \in 1 .. n : InRing[i] = events[At(i)]
  BY <1>1, <1>2, RingSequence
<1>6. /\ InRing' \in Seq(Heard) /\ Len(InRing') = n - 1
      /\ \A i \in 1 .. n - 1 : InRing'[i] = events'[At(i)']
  <2>1. InRing' = [i \in 1 .. n - 1 |-> events'[At(i)']]
    BY <1>2 DEF InRing, At
  <2>2. \A i \in 1 .. n - 1 : events'[At(i)'] \in Heard
    BY <1>2, <1>4 DEF RingTyped
  <2>3. n - 1 \in Nat
    BY <1>3
  <2> QED BY <2>1, <2>2, <2>3
<1>7. InRing # <<>>
  BY <1>3, <1>5, EmptySeq
<1>8. InRing' = Tail(InRing)
  <2>1. /\ Tail(InRing) \in Seq(Heard) /\ Len(Tail(InRing)) = n - 1
        /\ \A i \in 1 .. n - 1 : Tail(InRing)[i] = InRing[i + 1]
    BY <1>5, <1>7, HeadTailProperties
  <2>2. \A i \in 1 .. n - 1 : InRing'[i] = Tail(InRing)[i]
    <3> TAKE i \in 1 .. n - 1
    <3>1. i + 1 \in 1 .. n
      BY <1>3
    <3> QED BY <1>2, <1>5, <1>6, <2>1, <3>1
  <2> QED BY <1>6, <2>1, <2>2, SeqEqual
<1>9. Head(InRing) = events[eventtail]
  <2>1. 1 \in 1 .. n /\ At(1) = eventtail
    BY <1>1, <1>3, Slots
  <2>2. Head(InRing) = InRing[1]
    BY <1>5, <1>7
  <2> QED BY <1>5, <2>1, <2>2
<1>10. Unread' = Unread /\ Outstanding' = Outstanding /\ Unread \in Seq(Heard)
  BY <1>1, StartTyped DEF Unread, Outstanding, Start
<1>11. /\ InRing \o Unread # <<>> /\ Head(InRing \o Unread) = events[eventtail]
       /\ InRing' \o Unread' = Tail(InRing \o Unread)
  <2>1. PICK s \in Seq(Heard) : s = Unread
    BY <1>10
  <2>2. PICK p \in Seq(Heard) : p = InRing
    BY <1>5
  <2>3. p # <<>> => p \o s # <<>> /\ Head(p \o s) = Head(p) /\ Tail(p \o s) = Tail(p) \o s
    BY ConcatHeadTail
  <2> QED BY <1>7, <1>8, <1>9, <1>10, <2>1, <2>2, <2>3
<1>12. known' = Queue!After(events[eventtail])
  BY DEF D_PopEvent, Queue!After
<1>13. Queue!Hear
  BY <1>1, <1>11, <1>12 DEF Queue!Hear, Queue!After
<1>14. Counted'
  BY <1>1, <1>10 DEF Counted, Queue!ShiftKeys
<1> QED BY <1>1, <1>4, <1>13, <1>14

(* The invariant, and what each step is to the player.                     *)
LEMMA QueueBegins == Init => QueueInv /\ Queue!QueueInit
<1> SUFFICES ASSUME Init PROVE QueueInv /\ Queue!QueueInit
  OBVIOUS
<1>1. InputInv
  BY InitRoom, HonestInit DEF InputInv
<1>2. shiftdown = 0 /\ keyboard = <<>> /\ Occupied = 0 /\ repeats = 0
      /\ down \in SUBSET (ScanCodes \ Queue!ShiftKeys)
  BY DEF Init, Occupied
<1>3. Start \in Accs /\ Start = [shift |-> 0, seq |-> <<>>]
  BY <1>2, EmptySeq DEF Start, Accs
<1>4. ReadsAll(Start, keyboard) = Start
  BY <1>2, <1>3, ReadsNone
<1>5. Unread = <<>> /\ Outstanding = 0
  BY <1>3, <1>4 DEF Unread, Outstanding, Start
<1>6. InRing = <<>>
  <2>1. InRing = [i \in 1 .. 0 |-> events[At(i)]]
    BY <1>2 DEF InRing, At
  <2> QED BY <2>1
<1>7. down \cap Queue!ShiftKeys = {} /\ Cardinality(down \cap Queue!ShiftKeys) = 0
  BY <1>2, FS_EmptySet
<1>8. Counted
  BY <1>2, <1>5, <1>7 DEF Counted
<1>9. RingTyped
  BY <1>2 DEF RingTyped
<1>10. InRing \o Unread = <<>>
  BY <1>5, <1>6, EmptySeq, ConcatEmptySeq
<1>11. Queue!QueueInit
  BY <1>2, <1>10 DEF Queue!QueueInit, Init
<1> QED BY <1>1, <1>2, <1>8, <1>9, <1>11 DEF QueueInv

LEMMA QueueStep ==
  ASSUME QueueInv, [Next]_vars
  PROVE  QueueInv' /\ [Queue!QueueNext]_(Queue!queueVars)
<1>0. InputInv'
  BY StepRoom, HonestStep DEF QueueInv, InputInv
<1>1. CASE UNCHANGED <<down, repeats, known, keyboard, shiftdown, events, eventhead, eventtail>>
  <2>1. Start' = Start /\ Occupied' = Occupied /\ \A i : At(i)' = At(i)
    BY <1>1 DEF Start, Occupied, At
  <2>2. InRing' = InRing /\ Unread' = Unread /\ Outstanding' = Outstanding
    BY <1>1, <2>1 DEF InRing, Unread, Outstanding
  <2>3. RingTyped' /\ Counted' /\ shiftdown' \in Int
    BY <1>1, <2>1, <2>2 DEF QueueInv, RingTyped, Counted, Queue!ShiftKeys
  <2> QED BY <1>0, <1>1, <2>2, <2>3 DEF QueueInv, Queue!queueVars
<1>2. CASE GetKey
  BY <1>0, <1>2, GetKeyHeard DEF QueueInv
<1>3. CASE NoKeyToGet
  BY <1>0, <1>3, NoKeyHeard DEF QueueInv
<1>4. CASE D_PopEvent
  BY <1>0, <1>4, PopHeard DEF QueueInv, Queue!QueueNext
<1>5. CASE \E c \in ScanCodes : Type(c)
  BY <1>0, <1>5, TypeHeard DEF QueueInv, Queue!QueueNext
<1> QED BY <1>1, <1>2, <1>3, <1>4, <1>5 DEF Next, BuildNewTic, vars, I_StartTic, Processed

(* Every key is heard once, in the order of typing and as it was typed: a  *)
(* step of the input code is a step of the queue of KeyQueue, or none.     *)
(* This is all of ImplementsQueue but that each key is heard in the end.   *)
THEOREM HeardAsTyped == Spec => Queue!QueueInit /\ [][Queue!QueueNext]_(Queue!queueVars)
<1>1. Spec => []QueueInv
  BY QueueBegins, QueueStep, PTL DEF Spec
<1>2. QueueInv /\ [Next]_vars => [Queue!QueueNext]_(Queue!queueVars)
  BY QueueStep
<1> QED BY <1>1, <1>2, QueueBegins, PTL DEF Spec
=============================================================================

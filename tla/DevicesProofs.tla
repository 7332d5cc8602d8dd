-------------------------- MODULE DevicesProofs --------------------------
(***************************************************************************)
(* Keyboard, Ticks, Console and Boot, for every value of their constants:  *)
(* buffers of any size, any number of cores, processes, messages and       *)
(* characters.  The parts share no variable, so that a step of MCNext is a *)
(* step of one of them and leaves the others as they are.                  *)
(***************************************************************************)
EXTENDS MCDevices, SequenceTheorems, FiniteSetTheorems, TLAPS

-----------------------------------------------------------------------------
(* Keyboard: the ring buffer. *)

(* The ring from index f up to index e of buffer b: Contents is           *)
(* Ring(buffer, front, end).                                               *)
Ring(b, f, e) == [h \in 1..((e - f + Size) % Size) |-> b[(f + h - 1) % Size]]

(* What a slot of the buffer holds. *)
Values == Key \cup {NoKey}

(* An index that has left the buffer at most once, and how far e is ahead of f. *)
Wrap(x) == IF x < Size THEN x ELSE x - Size
Ahead(f, e) == IF f <= e THEN e - f ELSE e - f + Size

(* What the remainder is for the indices that occur. *)
LEMMA Remainder ==
  ASSUME Size \in Nat, Size >= 2, NEW x \in Nat, x < 2 * Size
  PROVE  x % Size = Wrap(x)
BY SMT DEF Wrap

(* The ring is a sequence of what the buffer holds. *)
LEMMA RingSeq ==
  ASSUME Size \in Nat, Size >= 2, NEW b \in [Slots -> Values], NEW f \in Slots, NEW e \in Slots
  PROVE  /\ Ring(b, f, e) \in Seq(Values)
         /\ Len(Ring(b, f, e)) = Ahead(f, e)
         /\ \A h \in 1..Len(Ring(b, f, e)) :
              Ring(b, f, e)[h] = b[Wrap(f + h - 1)]
<1> DEFINE n == (e - f + Size) % Size
           g(h) == b[(f + h - 1) % Size]
<1>1. n = Ahead(f, e)
  <2>1. e - f + Size \in Nat /\ e - f + Size < 2 * Size
    BY DEF Slots, Wrap, Ahead
  <2>2. n = Wrap(e - f + Size)
    BY <2>1, Remainder
  <2> QED
    BY <2>2 DEF Slots, Wrap, Ahead
<1>2. n \in Nat /\ n < Size
  BY <1>1 DEF Slots, Wrap, Ahead
<1>3. ASSUME NEW h \in 1..n
      PROVE  g(h) = b[Wrap(f + h - 1)] /\ g(h) \in Values
  <2>1. f + h - 1 \in Nat /\ f + h - 1 < 2 * Size
    BY <1>2 DEF Slots, Wrap, Ahead
  <2>2. (f + h - 1) % Size = Wrap(f + h - 1)
    BY <2>1, Remainder
  <2>3. (f + h - 1) % Size \in Slots
    BY <2>1, <2>2 DEF Slots, Wrap, Ahead
  <2> QED
    BY <2>2, <2>3
<1>4. Ring(b, f, e) = [h \in 1..n |-> g(h)]
  BY DEF Ring
<1> HIDE DEF n, g
<1>5. [h \in 1..n |-> g(h)] \in Seq(Values) /\ Len([h \in 1..n |-> g(h)]) = n
  BY <1>2, <1>3
<1> QED
  BY <1>1, <1>3, <1>4, <1>5

(* write_key_buffer on a full buffer, and on one with room. *)
LEMMA RingWrite ==
  ASSUME Size \in Nat, Size >= 2, NEW b \in [Slots -> Values], NEW f \in Slots, NEW e \in Slots, NEW k \in Values
  PROVE  /\ (e + 1) % Size \in Slots
         /\ (e + 1) % Size = f => Len(Ring(b, f, e)) = Size - 1
         /\ (e + 1) % Size # f =>
              /\ Len(Ring(b, f, e)) < Size - 1
              /\ Ring([b EXCEPT ![e] = k], f, (e + 1) % Size) = Append(Ring(b, f, e), k)
<1> DEFINE r == Ring(b, f, e)
<1>0. (e + 1) % Size = Wrap(e + 1) /\ Wrap(e + 1) \in Slots
  <2>1. e + 1 \in Nat /\ e + 1 < 2 * Size
    BY DEF Slots, Wrap
  <2>2. (e + 1) % Size = Wrap(e + 1)
    BY <2>1, Remainder
  <2> QED
    BY <2>1, <2>2 DEF Slots, Wrap
<1>1. PICK d \in Slots : d = (e + 1) % Size /\ d = Wrap(e + 1)
  BY <1>0
<1>3. /\ r \in Seq(Values) /\ Len(r) = Ahead(f, e)
      /\ \A h \in 1..Len(r) : r[h] = b[Wrap(f + h - 1)]
  BY RingSeq
<1>c. PICK c \in [Slots -> Values] : c = [b EXCEPT ![e] = k]
  OBVIOUS
<1> DEFINE s == Ring(c, f, d)
<1>4. /\ s \in Seq(Values) /\ Len(s) = Ahead(f, d)
      /\ \A h \in 1..Len(s) : s[h] = c[Wrap(f + h - 1)]
  BY RingSeq
<1> HIDE DEF r, s
<1>5. d = f => Len(r) = Size - 1
  BY <1>1, <1>3 DEF Slots, Wrap, Ahead
<1>6. ASSUME d # f PROVE Len(r) < Size - 1 /\ s = Append(r, k)
  <2>0. Ahead(f, e) < Size - 1 /\ Ahead(f, d) = Ahead(f, e) + 1
    BY <1>1, <1>6 DEF Slots, Wrap, Ahead
  <2>1. Len(r) < Size - 1 /\ Len(s) = Len(r) + 1
    BY <1>3, <1>4, <2>0
  <2>2. Append(r, k) \in Seq(Values) /\ Len(Append(r, k)) = Len(r) + 1
    BY <1>3
  <2>3. ASSUME NEW h \in 1..Len(r) PROVE s[h] = r[h]
    <3> DEFINE j == Wrap(f + h - 1)
    <3>1. j \in Slots /\ j # e
      BY <1>3, <2>1 DEF Slots, Wrap, Ahead
    <3> QED
      BY <1>3, <1>4, <1>c, <2>1, <3>1
  <2>4. s[Len(r) + 1] = k
    <3> DEFINE j == Wrap(f + (Len(r) + 1) - 1)
    <3>1. j = e
      BY <1>3, <2>1 DEF Slots, Wrap, Ahead
    <3> QED
      BY <1>3, <1>4, <1>c, <2>1, <3>1
  <2>5. \A h \in 1..Len(s) : s[h] = Append(r, k)[h]
    BY <1>3, <2>1, <2>3, <2>4
  <2> QED
    BY <1>4, <2>1, <2>2, <2>5, SeqEqual
<1> QED
  BY <1>1, <1>c, <1>5, <1>6 DEF r, s

(* read_key_buffer on a buffer that holds keys, and on an empty one. *)
LEMMA RingRead ==
  ASSUME Size \in Nat, Size >= 2, NEW b \in [Slots -> Values], NEW f \in Slots, NEW e \in Slots
  PROVE  /\ (f + 1) % Size \in Slots
         /\ f = e => Ring(b, f, e) = <<>>
         /\ f # e => /\ Ring(b, f, e) # <<>>
                     /\ Head(Ring(b, f, e)) = b[f]
                     /\ Tail(Ring(b, f, e)) = Ring(b, (f + 1) % Size, e)
<1> DEFINE r == Ring(b, f, e)
<1>0. (f + 1) % Size = Wrap(f + 1) /\ Wrap(f + 1) \in Slots
  <2>1. f + 1 \in Nat /\ f + 1 < 2 * Size
    BY DEF Slots, Wrap
  <2>2. (f + 1) % Size = Wrap(f + 1)
    BY <2>1, Remainder
  <2> QED
    BY <2>1, <2>2 DEF Slots, Wrap
<1>1. PICK d \in Slots : d = (f + 1) % Size /\ d = Wrap(f + 1)
  BY <1>0
<1>3. /\ r \in Seq(Values) /\ Len(r) = Ahead(f, e)
      /\ \A h \in 1..Len(r) : r[h] = b[Wrap(f + h - 1)]
  BY RingSeq
<1> DEFINE s == Ring(b, d, e)
<1>4. /\ s \in Seq(Values) /\ Len(s) = Ahead(d, e)
      /\ \A h \in 1..Len(s) : s[h] = b[Wrap(d + h - 1)]
  BY RingSeq
<1> HIDE DEF r, s
<1>5. f = e => r = <<>>
  <2>1. f = e => Len(r) = 0
    BY <1>3 DEF Slots, Wrap, Ahead
  <2> QED
    BY <1>3, <2>1, EmptySeq
<1>6. ASSUME f # e PROVE r # <<>> /\ Head(r) = b[f] /\ Tail(r) = s
  <2>0. Ahead(f, e) \in Nat \ {0} /\ Ahead(d, e) = Ahead(f, e) - 1
    BY <1>1, <1>6 DEF Slots, Wrap, Ahead
  <2>1. Len(r) > 0 /\ Len(s) = Len(r) - 1
    BY <1>3, <1>4, <2>0
  <2>2. r # <<>>
    BY <1>3, <2>1
  <2>3. r[1] = b[f]
    BY <1>3, <2>1 DEF Slots, Wrap, Ahead
  <2>4. Tail(r) \in Seq(Values) /\ Len(Tail(r)) = Len(r) - 1 /\ \A h \in 1..Len(r) - 1 : Tail(r)[h] = r[h + 1]
    BY <1>3, <2>2, HeadTailProperties
  <2>5. ASSUME NEW h \in 1..Len(s) PROVE Tail(r)[h] = s[h]
    <3> DEFINE j == Wrap(f + (h + 1) - 1)
               m == Wrap(d + h - 1)
    <3>1. j = m
      <4>1. h \in Nat /\ h >= 1 /\ h < Ahead(f, e)
        BY <1>3, <2>0, <2>1
      <4> QED
        BY <1>1, <2>0, <4>1 DEF Slots, Wrap, Ahead
    <3>2. r[h + 1] = b[j] /\ s[h] = b[m] /\ Tail(r)[h] = r[h + 1]
      BY <1>3, <1>4, <2>1, <2>4
    <3> QED
      BY <3>1, <3>2
  <2> QED
    BY <1>3, <1>4, <2>1, <2>2, <2>3, <2>4, <2>5, SeqEqual
<1> QED
  BY <1>1, <1>5, <1>6 DEF r, s
-----------------------------------------------------------------------------
(* A remainder is an index of the buffer. *)
LEMMA RemainderInRange ==
  ASSUME NEW x \in Nat
  PROVE  x % Size \in Slots
BY KeyboardAssumption, SMT DEF Slots

(* The initial state has its type. *)
LEMMA KeyboardInit == Init => TypeOK
<1> SUFFICES ASSUME Init PROVE TypeOK
  OBVIOUS
<1>1. 0 \in Slots
  BY KeyboardAssumption DEF Slots
<1>2. dr \in Key \cup {NoKey} /\ pending \in BOOLEAN /\ result \in Key \cup {NoKey}
  BY DEF Init
<1>3. buffer \in [Slots -> Key \cup {NoKey}] /\ rpc \in [Reader -> Points]
  BY DEF Init, Points
<1> QED
  BY <1>1, <1>2, <1>3 DEF Init, TypeOK

(* Indices, points and keys keep their types in every step. *)
LEMMA KeyboardTypes ==
  ASSUME TypeOK, [Next]_vars
  PROVE  TypeOK'
<1> USE DEF TypeOK, Go
<1>i. (end + 1) % Size \in Slots /\ (front + 1) % Size \in Slots
  <2>1. end + 1 \in Nat /\ front + 1 \in Nat
    BY KeyboardAssumption DEF Slots
  <2> QED
    BY <2>1, RemainderInRange
<1>1. ASSUME NEW k \in Key, KeyboardHandler(k) PROVE TypeOK'
  <2>1. buffer' \in [Slots -> Key \cup {NoKey}] /\ end' \in Slots
    BY <1>i, <1>1 DEF KeyboardHandler
  <2> QED
    BY <1>1, <2>1 DEF KeyboardHandler, TakeKey
<1>8. ASSUME NEW k \in Key, KeyArrives(k) PROVE TypeOK'
  BY <1>8 DEF KeyArrives
<1>9. CASE ClearInterrupt
  BY <1>9 DEF ClearInterrupt
<1>2. CASE WakeReaders
  BY <1>2 DEF WakeReaders, Points
<1>3. ASSUME NEW r \in Reader, ReadKeyBuffer(r) PROVE TypeOK'
  BY <1>3 DEF ReadKeyBuffer, Points
<1>4. ASSUME NEW r \in Reader, Sleep(r) \/ Resume(r) PROVE TypeOK'
  BY <1>4 DEF Sleep, Resume, Points
<1>5. ASSUME NEW r \in Reader, Advance(r) PROVE TypeOK'
  BY <1>i, <1>5 DEF Advance, Points
<1>6. ASSUME NEW r \in Reader, Return(r) PROVE TypeOK'
  BY <1>6 DEF Return, Points
<1>7. CASE UNCHANGED vars
  BY <1>7 DEF vars
<1> QED
  BY <1>1, <1>2, <1>3, <1>4, <1>5, <1>6, <1>7, <1>8, <1>9 DEF Next, InKernel

(***************************************************************************)
(* front and end stay indices of the buffer, and so does the front that a  *)
(* reader keeps over its sleep, for any number of readers on any cores.    *)
(***************************************************************************)
THEOREM IndicesInBuffer == Spec => []TypeOK
<1>1. Init => TypeOK
  BY KeyboardInit
<1>2. TypeOK /\ [Next]_vars => TypeOK'
  BY KeyboardTypes
<1> QED
  BY <1>1, <1>2, PTL DEF Spec
-----------------------------------------------------------------------------
(***************************************************************************)
(* One reader, on core 0: while read_key_buffer runs, the interrupt        *)
(* handler does not; a reader sleeps beside an empty buffer until a key is *)
(* there and its wake-up pending; past its sleep there is a key, and its   *)
(* old front is still the front.                                           *)
(***************************************************************************)
ReadOK(r) ==
  /\ rpc[r] \in {"sleep", "advance", "return"} => irq = "idle"
  /\ rpc[r] = "sleep" => front = end
  /\ rpc[r] = "asleep" => (front = end <=> irq # "wake")
  /\ rpc[r] \in {"ready", "advance"} => front # end
  /\ rpc[r] \in {"sleep", "asleep", "ready", "advance"} => local[r] = front

ReadInv == \A r \in Reader : ReadOK(r)

(* With room or without, a key typed leaves the buffer with a key in it. *)
LEMMA TypedNotEmpty ==
  ASSUME OneReader, front \in Slots, end \in Slots
  PROVE  /\ (end + 1) % Size \in Slots
         /\ (end + 1) % Size = front => front # end
<1>1. Size \in Nat /\ Size >= 2
  BY DEF OneReader
<1>2. end + 1 \in Nat /\ end + 1 < 2 * Size
  BY <1>1 DEF Slots
<1>3. (end + 1) % Size = Wrap(end + 1)
  BY <1>1, <1>2, Remainder
<1> QED
  BY <1>1, <1>3 DEF Slots, Wrap

(* ReadInv is preserved. *)
LEMMA ReadInvStep ==
  ASSUME OneReader, TypeOK, ReadInv, [Next]_vars
  PROVE  ReadInv'
<1>1. PICK r \in Reader : Reader = {r}
  BY DEF OneReader
<1>2. /\ home[r] = 0 /\ rpc[r] \in Points /\ rpc \in [Reader -> Points] /\ local \in [Reader -> Slots]
      /\ front \in Slots /\ end \in Slots /\ irq \in {"idle", "wake", "clear"}
  BY DEF OneReader, TypeOK
<1>3. SUFFICES ReadOK(r)'
  BY <1>1 DEF ReadInv
<1>4. ReadOK(r)
  BY DEF ReadInv
<1> USE DEF ReadOK, Go
<1>5. ASSUME NEW k \in Key, KeyboardHandler(k) PROVE ReadOK(r)'
  <2>1. /\ rpc[r] \in {"user", "asleep", "ready"} /\ irq = "idle" /\ irq' = "wake"
        /\ UNCHANGED <<front, rpc, local>>
    BY <1>1, <1>2, <1>5 DEF KeyboardHandler, TakeKey, CoreFree
  <2>2. front' # end'
    BY <1>2, <1>5, TypedNotEmpty DEF KeyboardHandler
  <2> QED
    BY <1>4, <2>1, <2>2
<1>6. CASE WakeReaders
  BY <1>1, <1>2, <1>4, <1>6 DEF WakeReaders
<1>12. CASE ClearInterrupt
  BY <1>1, <1>2, <1>4, <1>12 DEF ClearInterrupt
<1>13. ASSUME NEW k \in Key, KeyArrives(k) PROVE ReadOK(r)'
  BY <1>4, <1>13 DEF KeyArrives
<1>7. ASSUME NEW q \in Reader, ReadKeyBuffer(q) PROVE ReadOK(r)'
  <2>1. /\ q = r /\ irq = "idle" /\ UNCHANGED <<front, end, irq>>
        /\ rpc'[r] = (IF front = end THEN "sleep" ELSE "advance") /\ local'[r] = front
    BY <1>1, <1>2, <1>7 DEF ReadKeyBuffer, CoreFree
  <2> QED
    BY <2>1
<1>8. ASSUME NEW q \in Reader, Sleep(q) PROVE ReadOK(r)'
  BY <1>1, <1>2, <1>4, <1>8 DEF Sleep
<1>9. ASSUME NEW q \in Reader, Resume(q) PROVE ReadOK(r)'
  <2>1. irq = "idle"
    BY <1>1, <1>2, <1>9 DEF Resume, CoreFree
  <2> QED
    BY <1>1, <1>2, <1>4, <1>9, <2>1 DEF Resume
<1>10. ASSUME NEW q \in Reader, Advance(q) \/ Return(q) PROVE ReadOK(r)'
  BY <1>1, <1>2, <1>4, <1>10 DEF Advance, Return
<1>11. CASE UNCHANGED vars
  BY <1>4, <1>11 DEF vars
<1> QED
  BY <1>5, <1>6, <1>7, <1>8, <1>9, <1>10, <1>11, <1>12, <1>13 DEF Next, InKernel

(* Each step of the ring buffer is one of the queue, or none. *)
LEMMA QueueStep ==
  ASSUME OneReader, TypeOK, ReadInv, [Next]_vars
  PROVE  [K!TypeKey \/ K!ReadKey]_<<Contents, Taken>>
<1>1. PICK r \in Reader : Reader = {r}
  BY DEF OneReader
<1>2. /\ home[r] = 0 /\ rpc[r] \in Points /\ rpc \in [Reader -> Points] /\ local \in [Reader -> Slots]
      /\ front \in Slots /\ end \in Slots /\ irq \in {"idle", "wake", "clear"} /\ buffer \in [Slots -> Values]
      /\ Size \in Nat /\ Size >= 2 /\ ReadOK(r)
  BY DEF OneReader, TypeOK, Values, ReadInv
<1>3. Contents = Ring(buffer, front, end) /\ Contents' = Ring(buffer', front', end')
  BY DEF Contents, Ring
<1>4. /\ Taken = (IF rpc[r] = "return" THEN buffer[local[r]] ELSE result)
      /\ Taken' = (IF rpc'[r] = "return" THEN buffer'[local'[r]] ELSE result')
  BY <1>1 DEF Taken
<1> USE DEF Go
<1>5. ASSUME NEW k \in Key, KeyboardHandler(k) PROVE K!TypeKey
  <2>1. /\ rpc[r] # "return" /\ UNCHANGED <<front, rpc, local, result>>
    BY <1>1, <1>2, <1>5 DEF KeyboardHandler, TakeKey, CoreFree
  <2>2. Taken' = Taken
    BY <1>4, <2>1
  <2>3. k \in Values
    BY DEF Values
  <2>4. Contents' = IF Len(Contents) < Size - 1 THEN Append(Contents, k) ELSE Contents
    <3>1. CASE (end + 1) % Size = front
      <4>1. Contents' = Contents
        BY <1>3, <1>5, <2>1, <3>1 DEF KeyboardHandler
      <4>2. Len(Contents) = Size - 1
        BY <1>2, <1>3, <2>3, <3>1, RingWrite
      <4> QED
        BY <1>2, <4>1, <4>2
    <3>2. CASE (end + 1) % Size # front
      <4>1. Contents' = Ring([buffer EXCEPT ![end] = k], front, (end + 1) % Size)
        BY <1>3, <1>5, <2>1, <3>2 DEF KeyboardHandler
      <4>2. Len(Contents) < Size - 1 /\ Contents' = Append(Contents, k)
        BY <1>2, <1>3, <2>3, <3>2, <4>1, RingWrite
      <4> QED
        BY <4>2
    <3> QED
      BY <3>1, <3>2
  <2> QED
    BY <2>2, <2>4 DEF K!TypeKey
<1>6. ASSUME NEW q \in Reader, Advance(q) PROVE K!ReadKey
  <2>1. /\ q = r /\ rpc[r] = "advance" /\ rpc'[r] = "return" /\ front' = (front + 1) % Size
        /\ UNCHANGED <<buffer, end, local>>
    BY <1>1, <1>2, <1>6 DEF Advance
  <2>2. front # end /\ local[r] = front
    BY <1>2, <2>1 DEF ReadOK
  <2>3. Contents # <<>> /\ Head(Contents) = buffer[front] /\ Tail(Contents) = Contents'
    BY <1>2, <1>3, <2>1, <2>2, RingRead
  <2>4. Taken' = buffer[front]
    BY <1>4, <2>1, <2>2
  <2> QED
    BY <2>3, <2>4 DEF K!ReadKey
<1>7. ASSUME NEW q \in Reader, Return(q) PROVE UNCHANGED <<Contents, Taken>>
  <2>1. /\ q = r /\ rpc[r] = "return" /\ rpc'[r] = "user" /\ result' = buffer[local[r]]
        /\ UNCHANGED <<buffer, front, end>>
    BY <1>1, <1>2, <1>7 DEF Return
  <2> QED
    BY <1>3, <1>4, <2>1
<1>8. ASSUME WakeReaders \/ (\E q \in Reader : ReadKeyBuffer(q) \/ Sleep(q) \/ Resume(q))
      PROVE  UNCHANGED <<Contents, Taken>>
  <2>1. UNCHANGED <<buffer, front, end, result>> /\ (rpc'[r] = "return" <=> rpc[r] = "return")
    BY <1>1, <1>2, <1>8 DEF WakeReaders, ReadKeyBuffer, Sleep, Resume
  <2>2. rpc[r] = "return" => local'[r] = local[r]
    BY <1>1, <1>2, <1>8 DEF WakeReaders, ReadKeyBuffer, Sleep, Resume
  <2> QED
    BY <1>3, <1>4, <2>1, <2>2
<1>9. UNCHANGED vars => UNCHANGED <<Contents, Taken>>
  BY <1>3, <1>4 DEF vars
<1>10. ASSUME ClearInterrupt \/ (\E k \in Key : KeyArrives(k)) PROVE UNCHANGED <<Contents, Taken>>
  <2>1. UNCHANGED <<buffer, front, end, result, rpc, local>>
    BY <1>10 DEF ClearInterrupt, KeyArrives
  <2> QED
    BY <1>3, <1>4, <2>1
<1> QED
  BY <1>5, <1>6, <1>7, <1>8, <1>9, <1>10 DEF Next, InKernel

(***************************************************************************)
(* With one reader on core 0 the ring buffer of keyboard.c implements      *)
(* KeyQueue, for any size of at least two: though reader and interrupt     *)
(* handler share no lock and the reader does not look again after its      *)
(* sleep, no key that the handler has read is returned twice, skipped,     *)
(* made up, or dropped while there is room.                                *)
(***************************************************************************)
THEOREM RingIsQueue == OneReader => (Spec => ImplementsKeyQueue)
<1> SUFFICES ASSUME OneReader PROVE Spec => ImplementsKeyQueue
  OBVIOUS
<1>1. Size \in Nat \ {0} /\ Size \in Nat /\ Size >= 2
  BY DEF OneReader
<1>2. Init => TypeOK /\ ReadInv /\ Contents = <<>> /\ Taken = NoKey
  <2> SUFFICES ASSUME Init PROVE TypeOK /\ ReadInv /\ Contents = <<>> /\ Taken = NoKey
    OBVIOUS
  <2>1. 0 \in Slots
    BY <1>1 DEF Slots
  <2>2. TypeOK
    BY KeyboardInit
  <2>3. ReadInv
    BY DEF Init, ReadInv, ReadOK
  <2>4. Contents = Ring(buffer, front, end) /\ front = end /\ buffer \in [Slots -> Values] /\ front \in Slots
    BY <2>1 DEF Init, Contents, Ring, Values
  <2>5. Contents = <<>>
    BY <1>1, <2>4, RingRead
  <2>6. Taken = NoKey
    BY DEF Init, Taken
  <2> QED
    BY <2>2, <2>3, <2>5, <2>6
<1>3. TypeOK /\ ReadInv /\ [Next]_vars => (TypeOK /\ ReadInv)' /\ [K!TypeKey \/ K!ReadKey]_<<Contents, Taken>>
  BY <1>1, KeyboardTypes, ReadInvStep, QueueStep
<1> QED
  BY <1>2, <1>3, PTL DEF Spec, ImplementsKeyQueue, K!Queue
-----------------------------------------------------------------------------
(* Ticks: sys_sleep on the tick counter. *)

(* The cores between the load and the store of ticks++. *)
Storing == {c \in Timers : tpc[c] = "store"}

TickTyped ==
  /\ running \subseteq Timers
  /\ ticks \in T!Values
  /\ tpc \in [Timers -> {"out", "store", "wake"}]
  /\ loaded \in [Timers -> T!Values]
  /\ missed \in [Timers -> 0..Stale]
  /\ spc \in [Sleeper -> {"user", "test", "sleep", "asleep", "ready"}]
  /\ old \in [Sleeper -> T!Values]
  /\ want \in [Sleeper -> 0..MaxSleep]
  /\ elapsed \in [Sleeper -> 0..MaxSleep]
  /\ overwritten \in [Sleeper -> BOOLEAN]
  /\ waited \in [Sleeper -> Nat]

(* A process waits at most Lag ticks and those that are under way on other cores. *)
WaitInv ==
  \A p \in Sleeper :
     IF p \in T!Awake THEN waited[p] + Cardinality(Storing) <= Lag + Cardinality(Timers) - 1
     ELSE waited[p] = 0

(***************************************************************************)
(* What the unsigned difference says while increments may be lost.  A core *)
(* whose load no other store has followed adds to the counter as it is;    *)
(* so, as long as no store has overwritten others' ticks since a sleeper   *)
(* read old_ticks, the counter is ahead of old_ticks by the ticks counted. *)
(* (elapsed stops at MaxSleep, where every sleep is long enough.)          *)
(***************************************************************************)
FreshInv == \A c \in Timers : tpc[c] = "store" /\ missed[c] = 0 => loaded[c] = ticks

CountOK(p) ==
  spc[p] # "user" /\ ~overwritten[p] /\ elapsed[p] < MaxSleep => (ticks - old[p]) % T!Modulus = elapsed[p]

CountInv == \A p \in Sleeper : CountOK(p)

TicksInv == TickTyped /\ WaitInv /\ FreshInv /\ CountInv

LEMMA ModulusNat == T!Modulus \in Nat /\ T!Modulus > 0 /\ MaxSleep + Lag + Stale < T!Modulus
BY SleepBounds DEF T!Modulus

(* The unsigned difference of two readings, before and after a tick. *)
LEMMA Difference ==
  ASSUME NEW M \in Nat, M > 0, NEW t \in 0..M-1, NEW o \in 0..M-1
  PROVE  /\ (t - o) % M = IF o <= t THEN t - o ELSE t - o + M
         /\ (t + 1) % M = IF t = M - 1 THEN 0 ELSE t + 1
         /\ (t + 1) % M \in 0..M-1
<1>1. CASE o <= t
  <2>1. t - o \in Nat /\ t - o < M
    BY <1>1
  <2> QED
    BY <1>1, <2>1, SMT
<1>2. CASE o > t
  BY <1>2, SMT
<1>3. (t + 1) % M = IF t = M - 1 THEN 0 ELSE t + 1
  OBVIOUS
<1> QED
  BY <1>1, <1>2, <1>3

LEMMA DifferenceGrows ==
  ASSUME NEW M \in Nat, M > 0, NEW t \in 0..M-1, NEW o \in 0..M-1, NEW e \in Nat, e + 1 < M, (t - o) % M = e
  PROVE  (((t + 1) % M) - o) % M = e + 1
<1>1. (t - o) % M = IF o <= t THEN t - o ELSE t - o + M
  BY Difference
<1>2. PICK u \in 0..M-1 : u = (t + 1) % M /\ u = IF t = M - 1 THEN 0 ELSE t + 1
  BY Difference
<1>3. (u - o) % M = IF o <= u THEN u - o ELSE u - o + M
  BY Difference
<1>4. (IF o <= u THEN u - o ELSE u - o + M) = e + 1
  BY <1>1, <1>2
<1> QED
  BY <1>2, <1>3, <1>4
(* How many cores are between load and store. *)
LEMMA StoringBound ==
  ASSUME NEW S, S = {c \in Timers : tpc[c] = "store"}
  PROVE  /\ IsFiniteSet(S) /\ Cardinality(S) \in Nat /\ Cardinality(Timers) \in Nat
         /\ Cardinality(S) <= Cardinality(Timers)
         /\ \A c \in Timers : tpc[c] # "store" => Cardinality(S) <= Cardinality(Timers) - 1
<1>1. IsFiniteSet(Timers) /\ S \subseteq Timers
  BY SleepBounds
<1>2. IsFiniteSet(S) /\ Cardinality(S) \in Nat /\ Cardinality(Timers) \in Nat /\ Cardinality(S) <= Cardinality(Timers)
  BY <1>1, FS_Subset, FS_CardinalityType
<1>3. ASSUME NEW c \in Timers, tpc[c] # "store" PROVE Cardinality(S) <= Cardinality(Timers) - 1
  <2>1. IsFiniteSet(Timers \ {c}) /\ Cardinality(Timers \ {c}) = Cardinality(Timers) - 1
    BY <1>1, FS_RemoveElement
  <2>2. S \subseteq Timers \ {c}
    BY <1>3
  <2> QED
    BY <2>1, <2>2, FS_Subset
<1> QED
  BY <1>2, <1>3

LEMMA TickTypedStep ==
  ASSUME TickTyped, T!Next PROVE TickTyped'
<1>0. MaxSleep \in Nat /\ Lag \in Nat /\ Stale \in Nat /\ T!Modulus \in Nat /\ T!Modulus > 0
  BY SleepBounds, ModulusNat
<1>1. ASSUME NEW c \in Timers, T!InitTimer(c) PROVE TickTyped'
  BY <1>1 DEF TickTyped, T!InitTimer
<1>2. ASSUME NEW c \in Timers, T!TickLoad(c) PROVE TickTyped'
  BY <1>0, <1>2 DEF TickTyped, T!TickLoad
<1>3. ASSUME NEW c \in Timers, T!TickStore(c) PROVE TickTyped'
  <2>1. ticks' \in T!Values
    <3>1. ticks' = (loaded[c] + 1) % T!Modulus /\ loaded[c] \in 0..T!Modulus - 1
      BY <1>3 DEF T!TickStore, TickTyped, T!Values
    <3>2. (loaded[c] + 1) % T!Modulus \in 0..T!Modulus - 1
      BY <1>0, <3>1, Difference
    <3> QED
      BY <3>1, <3>2 DEF T!Values
  <2>2. missed' \in [Timers -> 0..Stale]
    BY <1>0, <1>3 DEF TickTyped, T!TickStore
  <2>3. elapsed' \in [Sleeper -> 0..MaxSleep] /\ waited' \in [Sleeper -> Nat]
    BY <1>0, <1>3 DEF TickTyped, T!TickStore, T!Counted
  <2>5. overwritten' \in [Sleeper -> BOOLEAN]
    BY <1>3 DEF T!TickStore
  <2>4. loaded' \in [Timers -> T!Values] /\ tpc' \in [Timers -> {"out", "store", "wake"}]
    BY <1>0, <1>3 DEF TickTyped, T!TickStore, T!Values
  <2> QED
    BY <1>3, <2>1, <2>2, <2>3, <2>4, <2>5 DEF TickTyped, T!TickStore
<1>4. ASSUME NEW c \in Timers, T!TickWake(c) PROVE TickTyped'
  BY <1>4 DEF TickTyped, T!TickWake
<1>5. ASSUME NEW p \in Sleeper, T!Sleep(p) \/ T!Resume(p) PROVE TickTyped'
  BY <1>5 DEF TickTyped, T!Sleep, T!Resume
<1>6. ASSUME NEW p \in Sleeper, T!Test(p) PROVE TickTyped'
  <2>1. spc' \in [Sleeper -> {"user", "test", "sleep", "asleep", "ready"}]
    BY <1>6 DEF TickTyped, T!Test, T!Loop
  <2>2. old' \in [Sleeper -> T!Values] /\ want' \in [Sleeper -> 0..MaxSleep]
    BY <1>0, <1>6 DEF TickTyped, T!Test, T!Loop, T!Values
  <2>3. elapsed' \in [Sleeper -> 0..MaxSleep] /\ waited' \in [Sleeper -> Nat]
    BY <1>0, <1>6 DEF TickTyped, T!Test, T!Loop
  <2>4. overwritten' \in [Sleeper -> BOOLEAN]
    BY <1>6 DEF TickTyped, T!Test, T!Loop
  <2> QED
    BY <1>6, <2>1, <2>2, <2>3, <2>4 DEF TickTyped, T!Test, T!Loop
<1>7. ASSUME NEW p \in Sleeper, NEW n \in 0..MaxSleep, T!SysSleep(p, n) PROVE TickTyped'
  BY <1>0, <1>7 DEF TickTyped, T!SysSleep
<1> QED
  BY <1>1, <1>2, <1>3, <1>4, <1>5, <1>6, <1>7 DEF T!Next, T!TimerStep

LEMMA WaitInvStep ==
  ASSUME TickTyped, WaitInv, T!Next PROVE WaitInv'
<1> DEFINE n == Cardinality(Storing)
           N == Cardinality(Timers)
<1>0. Lag \in Nat /\ N \in Nat /\ n \in Nat /\ n <= N /\ IsFiniteSet(Storing) /\ Home \in Timers
  BY SleepBounds, StoringBound DEF Storing
<1>1. ASSUME NEW c \in Timers, T!InitTimer(c) PROVE WaitInv'
  BY <1>1 DEF WaitInv, T!InitTimer, T!Awake, Storing
<1>2. ASSUME NEW c \in Timers, T!TickLoad(c) PROVE WaitInv'
  <2>1. IsFiniteSet(Storing') /\ Cardinality(Storing') \in Nat /\ Cardinality(Storing') <= N
    <3>1. Storing' \subseteq Timers
      BY DEF Storing
    <3> QED
      BY <3>1, SleepBounds, FS_Subset, FS_CardinalityType
  <2>2. waited' = waited /\ T!Awake' = T!Awake /\ \A p \in T!Awake : waited[p] < Lag
    BY <1>2 DEF T!TickLoad, T!Awake
  <2>3. ASSUME NEW p \in Sleeper, p \in T!Awake PROVE waited[p] + Cardinality(Storing') <= Lag + N - 1
    <3>1. waited[p] \in Nat /\ waited[p] < Lag
      BY <2>2, <2>3 DEF TickTyped
    <3> QED
      BY <1>0, <2>1, <3>1
  <2> QED
    BY <2>2, <2>3 DEF WaitInv
<1>3. ASSUME NEW c \in Timers, T!TickStore(c) PROVE WaitInv'
  <2>1. Storing' = Storing \ {c} /\ c \in Storing
    BY <1>3 DEF T!TickStore, Storing, TickTyped
  <2>2. Cardinality(Storing') = n - 1
    BY <1>0, <2>1, FS_RemoveElement
  <2>3. T!Awake' = T!Awake /\ waited' = [p \in Sleeper |-> IF p \in T!Awake THEN waited[p] + 1 ELSE 0]
    BY <1>3 DEF T!TickStore, T!Awake
  <2>4. ASSUME NEW p \in Sleeper, p \in T!Awake PROVE waited'[p] + Cardinality(Storing') <= Lag + N - 1
    <3>1. waited[p] \in Nat /\ waited'[p] = waited[p] + 1 /\ waited[p] + n <= Lag + N - 1
      BY <2>3, <2>4 DEF TickTyped, WaitInv
    <3> QED
      BY <1>0, <2>2, <3>1
  <2> QED
    BY <2>3, <2>4 DEF WaitInv
<1>4. ASSUME NEW c \in Timers, T!TickWake(c) PROVE WaitInv'
  <2>1. Storing' = Storing /\ c \in Timers /\ tpc[c] # "store" /\ waited' = waited
    BY <1>4 DEF T!TickWake, Storing, TickTyped
  <2>2. n <= N - 1
    BY <2>1, StoringBound DEF Storing
  <2>3. ASSUME NEW p \in Sleeper
        PROVE  \/ p \in T!Awake' /\ (p \in T!Awake \/ waited[p] = 0)
               \/ p \notin T!Awake' /\ waited[p] = 0
    BY <1>4 DEF T!TickWake, T!Awake, WaitInv, TickTyped
  <2>4. ASSUME NEW p \in Sleeper, waited[p] = 0 PROVE waited[p] + n <= Lag + N - 1
    BY <1>0, <2>2, <2>4
  <2>5. \A p \in Sleeper : p \in T!Awake => waited[p] + n <= Lag + N - 1
    BY DEF WaitInv
  <2>6. Cardinality(Storing') = n
    BY <2>1
  <2> QED
    BY <2>1, <2>3, <2>4, <2>5, <2>6 DEF WaitInv
<1>5. ASSUME NEW q \in Sleeper, T!Sleep(q) \/ T!Resume(q) \/ T!Test(q) \/ \E k \in 0..MaxSleep : T!SysSleep(q, k)
      PROVE  WaitInv'
  <2>1. Storing' = Storing
    BY <1>5 DEF Storing, T!Sleep, T!Resume, T!Test, T!Loop, T!SysSleep
  <2>2. \A p \in Sleeper : p # q => waited'[p] = waited[p] /\ (p \in T!Awake' <=> p \in T!Awake)
    BY <1>5 DEF TickTyped, T!Awake, T!Sleep, T!Resume, T!Test, T!Loop, T!SysSleep
  <2>3. \/ waited'[q] = waited[q] /\ q \in T!Awake /\ q \in T!Awake'
        \/ waited'[q] = 0 /\ q \notin T!Awake'
        \/ waited'[q] = 0 /\ q \in T!Awake' /\ tpc[Home] = "out"
    <3>1. CASE T!Sleep(q)
      BY <3>1 DEF TickTyped, T!Awake, T!Sleep
    <3>2. CASE T!Resume(q)
      BY <3>2 DEF TickTyped, T!Awake, T!Resume
    <3>3. CASE T!Test(q)
      BY <3>3 DEF TickTyped, T!Awake, T!Test, T!Loop
    <3>4. CASE \E k \in 0..MaxSleep : T!SysSleep(q, k)
      BY <3>4 DEF TickTyped, T!Awake, T!SysSleep, T!CoreFree
    <3> QED
      BY <1>5, <3>1, <3>2, <3>3, <3>4
  <2>4. tpc[Home] = "out" => n <= N - 1
    BY <1>0, StoringBound DEF Storing
  <2>5. tpc[Home] = "out" => 0 + n <= Lag + N - 1
    BY <1>0, <2>4
  <2>6. Cardinality(Storing') = n
    BY <2>1
  <2> HIDE DEF n, N
  <2>7. ASSUME NEW p \in Sleeper
        PROVE  IF p \in T!Awake' THEN waited'[p] + n <= Lag + N - 1 ELSE waited'[p] = 0
    BY <2>2, <2>3, <2>5 DEF WaitInv, n, N
  <2> QED
    BY <2>6, <2>7 DEF WaitInv, N
<1> QED
  BY <1>1, <1>2, <1>3, <1>4, <1>5 DEF T!Next, T!TimerStep

LEMMA FreshInvStep ==
  ASSUME TickTyped, FreshInv, T!Next PROVE FreshInv'
<1>1. ASSUME NEW c \in Timers, T!InitTimer(c) \/ T!TickWake(c) PROVE FreshInv'
  BY <1>1 DEF FreshInv, TickTyped, T!InitTimer, T!TickWake
<1>2. ASSUME NEW c \in Timers, T!TickLoad(c) PROVE FreshInv'
  BY <1>2 DEF FreshInv, TickTyped, T!TickLoad
<1>3. ASSUME NEW c \in Timers, T!TickStore(c) PROVE FreshInv'
  <2>1. tpc'[c] = "wake" /\ \A d \in Timers : d # c => tpc'[d] = tpc[d]
    BY <1>3 DEF TickTyped, T!TickStore
  <2>2. ASSUME NEW d \in Timers, d # c, tpc[d] = "store" PROVE missed'[d] # 0
    <3>1. missed'[d] = missed[d] + 1 /\ missed[d] \in Nat
      BY <1>3, <2>2, SleepBounds DEF TickTyped, T!TickStore
    <3> QED
      BY <3>1
  <2> QED
    BY <2>1, <2>2 DEF FreshInv
<1>4. ASSUME NEW p \in Sleeper, T!Sleep(p) \/ T!Resume(p) \/ T!Test(p) \/ \E n \in 0..MaxSleep : T!SysSleep(p, n)
      PROVE  FreshInv'
  <2>1. UNCHANGED <<tpc, missed, loaded, ticks>>
    BY <1>4 DEF T!Sleep, T!Resume, T!Test, T!Loop, T!SysSleep
  <2> QED
    BY <2>1 DEF FreshInv
<1> QED
  BY <1>1, <1>2, <1>3, <1>4 DEF T!Next, T!TimerStep

LEMMA CountInvStep ==
  ASSUME TickTyped, FreshInv, CountInv, T!Next PROVE CountInv'
<1>0. /\ MaxSleep \in Nat /\ Lag \in Nat /\ Stale \in Nat
      /\ T!Modulus \in Nat /\ T!Modulus > 0 /\ MaxSleep < T!Modulus
  BY SleepBounds, ModulusNat
<1>1. ASSUME NEW c \in Timers, T!InitTimer(c) \/ T!TickLoad(c) PROVE CountInv'
  <2>1. UNCHANGED <<spc, overwritten, elapsed, ticks, old>>
    BY <1>1 DEF T!InitTimer, T!TickLoad
  <2> QED
    BY <2>1 DEF CountInv, CountOK
<1>2. ASSUME NEW c \in Timers, T!TickWake(c) PROVE CountInv'
  <2>1. UNCHANGED <<overwritten, elapsed, ticks, old>> /\ \A p \in Sleeper : spc'[p] # "user" => spc[p] # "user"
    BY <1>2 DEF T!TickWake
  <2> QED
    BY <2>1 DEF CountInv, CountOK
<1>3. ASSUME NEW c \in Timers, T!TickStore(c) PROVE CountInv'
  <2> SUFFICES ASSUME NEW p \in Sleeper, spc'[p] # "user", ~overwritten'[p], elapsed'[p] < MaxSleep
               PROVE  (ticks' - old'[p]) % T!Modulus = elapsed'[p]
    BY DEF CountInv, CountOK
  <2>1. /\ spc[p] # "user" /\ old' = old /\ ticks' = (loaded[c] + 1) % T!Modulus
        /\ tpc[c] = "store" /\ elapsed'[p] = T!Counted(p)
    BY <1>3 DEF T!TickStore
  <2>2. ~overwritten[p] /\ ~(missed[c] > 0)
    BY <1>3, <2>1 DEF T!TickStore
  <2>3. missed[c] = 0
    BY <1>0, <2>2 DEF TickTyped
  <2>4. /\ elapsed[p] \in Nat /\ ticks \in 0..T!Modulus - 1 /\ old[p] \in 0..T!Modulus - 1
    BY <1>0 DEF TickTyped, T!Values
  <2>5. elapsed[p] < MaxSleep /\ elapsed'[p] = elapsed[p] + 1
    BY <1>0, <2>1, <2>4 DEF T!Counted, TickTyped
  <2>6. loaded[c] = ticks /\ (ticks - old[p]) % T!Modulus = elapsed[p]
    BY <2>1, <2>2, <2>3, <2>5 DEF FreshInv, CountInv, CountOK
  <2>7. elapsed[p] + 1 < T!Modulus
    BY <1>0, <2>4, <2>5
  <2>8. (((ticks + 1) % T!Modulus) - old[p]) % T!Modulus = elapsed[p] + 1
    <3>1. (ticks - old[p]) % T!Modulus = elapsed[p]
      BY <2>6
    <3>2. T!Modulus \in Nat /\ T!Modulus > 0
      BY <1>0
    <3> QED
      BY <2>4, <2>7, <3>1, <3>2, DifferenceGrows
  <2> QED
    BY <2>1, <2>5, <2>6, <2>8
<1>4. ASSUME NEW q \in Sleeper, T!Sleep(q) \/ T!Resume(q) \/ T!Test(q) PROVE CountInv'
  <2> SUFFICES ASSUME NEW p \in Sleeper, spc'[p] # "user" PROVE CountOK(p)'
    BY DEF CountInv, CountOK
  <2>1. /\ spc[p] # "user" /\ overwritten'[p] = overwritten[p] /\ elapsed'[p] = elapsed[p]
        /\ old'[p] = old[p] /\ ticks' = ticks
    BY <1>4 DEF TickTyped, T!Sleep, T!Resume, T!Test, T!Loop
  <2> QED
    BY <2>1 DEF CountInv, CountOK
<1>5. ASSUME NEW q \in Sleeper, NEW n \in 0..MaxSleep, T!SysSleep(q, n) PROVE CountInv'
  <2>1. old'[q] = ticks /\ elapsed'[q] = 0 /\ ticks' = ticks
    BY <1>5 DEF TickTyped, T!SysSleep
  <2>2. ticks \in 0..T!Modulus - 1
    BY DEF TickTyped, T!Values
  <2>3. (ticks - ticks) % T!Modulus = 0
    BY <1>0, <2>2, Difference
  <2>4. CountOK(q)'
    BY <2>1, <2>3 DEF CountOK
  <2>5. ASSUME NEW p \in Sleeper, p # q PROVE CountOK(p)'
    <3>1. spc'[p] = spc[p] /\ overwritten'[p] = overwritten[p] /\ elapsed'[p] = elapsed[p] /\ old'[p] = old[p]
      BY <1>5, <2>5 DEF TickTyped, T!SysSleep
    <3> QED
      BY <2>1, <3>1 DEF CountInv, CountOK
  <2> QED
    BY <2>4, <2>5 DEF CountInv
<1> QED
  BY <1>1, <1>2, <1>3, <1>4, <1>5 DEF T!Next, T!TimerStep

LEMMA TicksInvStep ==
  ASSUME TicksInv, [T!Next]_timers PROVE TicksInv'
<1>1. CASE T!Next
  BY <1>1, TickTypedStep, WaitInvStep, FreshInvStep, CountInvStep DEF TicksInv
<1>2. CASE UNCHANGED timers
  <2>1. TickTyped'
    BY <1>2 DEF TicksInv, TickTyped, timers
  <2>2. WaitInv'
    BY <1>2 DEF TicksInv, WaitInv, Storing, T!Awake, timers
  <2>3. FreshInv' /\ CountInv'
    BY <1>2 DEF TicksInv, FreshInv, CountInv, CountOK, timers
  <2> QED
    BY <2>1, <2>2, <2>3 DEF TicksInv
<1> QED
  BY <1>1, <1>2

LEMMA TicksInvInit == T!Init => TicksInv
<1> SUFFICES ASSUME T!Init PROVE TicksInv
  OBVIOUS
<1>0. /\ Home \in Timers /\ MaxSleep \in Nat /\ Lag \in Nat /\ Stale \in Nat
      /\ T!Modulus \in Nat /\ T!Modulus > 0
  BY SleepBounds, ModulusNat
<1>1. TickTyped
  BY <1>0 DEF T!Init, TickTyped, T!Values
<1>2. WaitInv
  BY DEF T!Init, WaitInv, T!Awake
<1>3. FreshInv /\ CountInv
  BY DEF T!Init, FreshInv, CountInv, CountOK
<1> QED
  BY <1>1, <1>2, <1>3 DEF TicksInv

(* The instances count as this module does. *)
LEMMA SameCount ==
  ASSUME NEW S PROVE T!Cardinality(S) = Cardinality(S) /\ C!Cardinality(S) = Cardinality(S)
BY DEF T!Cardinality, C!Cardinality, Cardinality

LEMMA TicksTyped == TicksInv => T!TypeOK
<1> SUFFICES ASSUME TicksInv PROVE T!TypeOK
  OBVIOUS
<1>0. /\ Lag \in Nat /\ Cardinality(Timers) \in Nat /\ Cardinality(Timers) > 0
      /\ Cardinality(Storing) \in Nat
  <2>1. Cardinality(Timers) # 0
    BY SleepBounds, FS_EmptySet
  <2> QED
    BY <2>1, SleepBounds, StoringBound DEF Storing
<1>1. ASSUME NEW p \in Sleeper PROVE waited[p] \in 0..Lag + Cardinality(Timers) - 1
  <2>1. waited[p] \in Nat /\ (waited[p] = 0 \/ waited[p] + Cardinality(Storing) <= Lag + Cardinality(Timers) - 1)
    BY DEF TicksInv, TickTyped, WaitInv
  <2> QED
    BY <1>0, <2>1
<1>2. waited \in [Sleeper -> 0..Lag + Cardinality(Timers) - 1]
  BY <1>1 DEF TicksInv, TickTyped
<1>3. TickTyped
  BY DEF TicksInv
<1> QED
  BY <1>2, <1>3, SameCount DEF TickTyped, T!TypeOK

(* The loop of sys_sleep ends early only for a sleeper whose ticks were overwritten. *)
LEMMA TestsLongEnough ==
  ASSUME TicksInv, [T!Next]_timers PROVE [T!LongEnough]_(T!vars)
<1> SUFFICES ASSUME NEW p \in Sleeper, spc[p] = "test", spc'[p] = "user", ~overwritten[p]
             PROVE  elapsed[p] >= want[p]
  BY DEF T!LongEnough
<1>0. /\ TickTyped /\ CountOK(p) /\ MaxSleep \in Nat
      /\ elapsed[p] \in 0..MaxSleep /\ want[p] \in 0..MaxSleep
  BY SleepBounds DEF TicksInv, CountInv, TickTyped
<1>1. T!Test(p)
  <2>1. T!Next
    BY DEF timers
  <2>2. ASSUME NEW c \in Timers, T!TimerStep(c) \/ T!InitTimer(c) PROVE FALSE
    BY <1>0, <2>2 DEF T!TimerStep, T!InitTimer, T!TickLoad, T!TickStore, T!TickWake, TickTyped
  <2>3. ASSUME NEW q \in Sleeper, T!Sleep(q) \/ T!Resume(q) \/ \E n \in 0..MaxSleep : T!SysSleep(q, n) PROVE FALSE
    BY <1>0, <2>3 DEF T!Sleep, T!Resume, T!SysSleep, TickTyped
  <2>4. ASSUME NEW q \in Sleeper, T!Test(q) PROVE q = p
    BY <1>0, <2>4 DEF T!Test, T!Loop, TickTyped
  <2> QED
    BY <2>1, <2>2, <2>3, <2>4 DEF T!Next
<1>2. ~((ticks - old[p]) % T!Modulus < want[p])
  BY <1>0, <1>1 DEF T!Test, T!Loop, TickTyped
<1>3. elapsed[p] < MaxSleep => ~(elapsed[p] < want[p])
  BY <1>0, <1>2 DEF CountOK
<1> QED
  BY <1>0, <1>3

(***************************************************************************)
(* For a counter of any width, any number of processes and any number of   *)
(* cores, all of whose timers run: sys_sleep of syscall.c returns before   *)
(* the ticks it was asked for have been counted only if a store of ticks++ *)
(* has overwritten other cores' increments during the sleep.               *)
(***************************************************************************)
THEOREM SleepsEarlyOnlyAfterRace == MCSpec => EarlyOnlyAfterRace
<1>1. MCInit => TicksInv
  BY TicksInvInit DEF MCInit
<1>2. TicksInv /\ [MCNext]_mcvars => TicksInv' /\ [T!LongEnough]_(T!vars)
  <2>1. MCNext => [T!Next]_timers
    BY DEF MCNext, Finished, mcvars
  <2>2. UNCHANGED mcvars => UNCHANGED timers
    BY DEF mcvars
  <2> QED
    BY <2>1, <2>2, TicksInvStep, TestsLongEnough
<1> QED
  BY <1>1, <1>2, PTL DEF MCSpec, EarlyOnlyAfterRace, T!EarlyOnlyAfterRace
-----------------------------------------------------------------------------
(* Console: printk and sys_write on one serial line. *)

(* The messages of each core. *)
MessagesOf == [c \in Kernel \cup User |-> IF c \in Kernel THEN Printks ELSE Writes]

(* The places in w of the characters of some cores, and those of core c before n. *)
CharsOf(w, cores) == {n \in 1..Len(w) : w[n].core \in cores}
Before(w, c, n) == {m \in CharsOf(w, {c}) : m < n}

InWrite(c) == pc[c] \in {"busy", "write"}

(* One core of printk writes at a time, and it has print_lock. *)
LockedInv ==
  /\ \A c \in Kernel : InWrite(c) => print_lock = 1
  /\ \A c, d \in Kernel : InWrite(c) /\ InWrite(d) => c = d
  /\ \A c \in User : pc[c] # "lock"

(* A core that has seen the UART empty still finds room in it. *)
RoomInv ==
  /\ \A c \in C!Core : pc[c] = "write" => Len(uart) <= 1
  /\ \A c, d \in C!Core : c # d /\ pc[c] = "write" /\ pc[d] = "write" => Len(uart) = 0

LoopInv ==
  \A c \in C!Core : /\ left[c] <= MessagesOf[c]
                    /\ pc[c] # "out" => left[c] > 0
                    /\ ~InWrite(c) => i[c] = 0
                    /\ pc[c] = "write" => i[c] < MessageSize

(* All that core c wrote is in w, each character behind those it wrote before. *)
AllThere(w, c) ==
  /\ Cardinality(CharsOf(w, {c})) = (MessagesOf[c] - left[c]) * MessageSize + i[c]
  /\ \A n \in CharsOf(w, {c}) :
        Cardinality(Before(w, c, n)) = (MessagesOf[c] - 1 - w[n].message) * MessageSize + w[n].index

(* Character y may follow character x. *)
Follows(x, y) == IF x.index = MessageSize - 1 THEN y.index = 0 ELSE y = C!Char(x.core, x.message, x.index + 1)

(* No character of printk is between m and n. *)
Neighbours(w, m, n) == m < n /\ CharsOf(w, Kernel) \cap (m + 1..n - 1) = {}

Ordered(w) == \A m, n \in CharsOf(w, Kernel) : Neighbours(w, m, n) => Follows(w[m], w[n])

(* The last character of printk ends a message, or its core is about to write the next one. *)
LastOK(w) ==
  \A n \in CharsOf(w, Kernel) : (\A m \in CharsOf(w, Kernel) : m <= n) =>
     /\ \A c \in Kernel : i[c] > 0 => w[n] = C!Char(c, left[c] - 1, i[c] - 1)
     /\ (\A c \in Kernel : i[c] = 0) => w[n].index = MessageSize - 1

Text == line \o uart

TextInv == Ordered(Text) /\ LastOK(Text) /\ \A c \in C!Core : AllThere(Text, c)

ConsoleInv == C!TypeOK /\ LockedInv /\ RoomInv /\ LoopInv /\ TextInv

(* What is on the line and in the UART when a character is written, and when one is sent. *)
LEMMA TextAppend ==
  ASSUME NEW S, NEW l \in Seq(S), NEW u \in Seq(S), NEW ch \in S
  PROVE  l \o Append(u, ch) = Append(l \o u, ch)
<1>1. <<ch>> \in Seq(S) /\ l \o u \in Seq(S)
  BY ConcatProperties
<1>2. Append(u, ch) = u \o <<ch>> /\ Append(l \o u, ch) = (l \o u) \o <<ch>>
  BY <1>1, AppendIsConcat
<1>3. (l \o u) \o <<ch>> = l \o (u \o <<ch>>)
  BY <1>1, ConcatAssociative
<1> QED
  BY <1>2, <1>3

LEMMA TextSend ==
  ASSUME NEW S, NEW l \in Seq(S), NEW u \in Seq(S), u # <<>>
  PROVE  Append(l, Head(u)) \o Tail(u) = l \o u
<1>0. Len(u) \in Nat /\ Len(u) > 0
  BY EmptySeq
<1>1. /\ Head(u) \in S /\ Head(u) = u[1] /\ <<Head(u)>> \in Seq(S)
      /\ Tail(u) \in Seq(S) /\ Len(Tail(u)) = Len(u) - 1
      /\ \A n \in 1..Len(u) - 1 : Tail(u)[n] = u[n + 1]
  BY HeadTailProperties
<1>2. Append(l, Head(u)) = l \o <<Head(u)>>
  BY <1>1, AppendIsConcat
<1>3. (l \o <<Head(u)>>) \o Tail(u) = l \o (<<Head(u)>> \o Tail(u))
  BY <1>1, ConcatAssociative
<1>4. <<Head(u)>> \o Tail(u) = u
  <2>1. PICK t \in Seq(S) : t = Tail(u)
    BY <1>1
  <2>2. PICK h \in Seq(S) : h = <<Head(u)>> /\ Len(h) = 1 /\ h[1] = u[1]
    BY <1>1
  <2>3. PICK a \in Seq(S) : /\ a = h \o t /\ Len(a) = 1 + (Len(u) - 1)
                            /\ \A n \in 1..1 + (Len(u) - 1) : a[n] = IF n <= 1 THEN h[n] ELSE t[n - 1]
    <3>1. /\ h \o t \in Seq(S) /\ Len(h \o t) = Len(h) + Len(t)
          /\ \A n \in 1..Len(h) + Len(t) : (h \o t)[n] = IF n <= Len(h) THEN h[n] ELSE t[n - Len(h)]
      BY ConcatProperties
    <3>2. Len(h) = 1 /\ Len(t) = Len(u) - 1
      BY <1>1, <2>1, <2>2
    <3> QED
      BY <3>1, <3>2
  <2>4. Len(a) = Len(u)
    BY <1>0, <2>3
  <2>5. ASSUME NEW n \in 1..Len(u) PROVE a[n] = u[n]
    <3>1. a[n] = IF n <= 1 THEN h[n] ELSE t[n - 1]
      BY <1>0, <2>3
    <3>2. CASE n = 1
      BY <2>2, <3>1, <3>2
    <3>3. CASE n # 1
      <4>1. n - 1 \in 1..Len(u) - 1 /\ (n - 1) + 1 = n /\ ~(n <= 1)
        BY <1>0, <3>3
      <4>2. t[n - 1] = u[n]
        BY <1>1, <2>1, <4>1
      <4> QED
        BY <3>1, <4>1, <4>2
    <3> QED
      BY <3>2, <3>3
  <2>6. a = u
    BY <2>4, <2>5, SeqEqual
  <2> QED
    BY <2>1, <2>2, <2>3, <2>6
<1> QED
  BY <1>2, <1>3, <1>4

(* Where the characters of some cores are when one more is written. *)
Extended(w, v, core, cores) ==
  /\ CharsOf(w, cores) \subseteq 1..Len(w)
  /\ core \in cores => CharsOf(v, cores) = CharsOf(w, cores) \cup {Len(w) + 1}
  /\ core \notin cores => CharsOf(v, cores) = CharsOf(w, cores)

LEMMA CharsAppend ==
  ASSUME NEW w \in Seq(C!Chars), NEW ch \in C!Chars, NEW v, v = Append(w, ch), NEW cores
  PROVE  /\ v \in Seq(C!Chars) /\ Len(v) = Len(w) + 1 /\ Len(w) \in Nat
         /\ v[Len(w) + 1] = ch /\ \A n \in 1..Len(w) : v[n] = w[n]
         /\ Extended(w, v, ch.core, cores)
<1>1. /\ v \in Seq(C!Chars) /\ Len(v) = Len(w) + 1 /\ Len(w) \in Nat
      /\ v[Len(w) + 1] = ch /\ \A n \in 1..Len(w) : v[n] = w[n]
  BY AppendProperties
<1>2. ASSUME NEW n
      PROVE  n \in CharsOf(v, cores) <=> n \in CharsOf(w, cores) \/ (ch.core \in cores /\ n = Len(w) + 1)
  <2>1. n \in 1..Len(v) <=> n \in 1..Len(w) \/ n = Len(w) + 1
    BY <1>1
  <2>2. n = Len(w) + 1 => n \notin 1..Len(w)
    BY <1>1
  <2> QED
    BY <1>1, <2>1, <2>2 DEF CharsOf
<1>3. ch.core \in cores => CharsOf(v, cores) = CharsOf(w, cores) \cup {Len(w) + 1}
  BY <1>2
<1>4. ch.core \notin cores => CharsOf(v, cores) = CharsOf(w, cores)
  BY <1>2
<1>5. CharsOf(w, cores) \subseteq 1..Len(w)
  BY DEF CharsOf
<1> QED
  BY <1>1, <1>3, <1>4, <1>5 DEF Extended

LEMMA CharsFinite ==
  ASSUME NEW S, NEW w \in Seq(S), NEW cores
  PROVE  IsFiniteSet(CharsOf(w, cores)) /\ Cardinality(CharsOf(w, cores)) \in Nat /\ CharsOf(w, cores) \subseteq 1..Len(w)
<1>1. IsFiniteSet(1..Len(w)) /\ CharsOf(w, cores) \subseteq 1..Len(w)
  BY FS_Interval DEF CharsOf
<1> QED
  BY <1>1, FS_Subset, FS_CardinalityType
(* The lock word and the flag of the UART. *)
LEMMA ConsoleControl ==
  ASSUME C!TypeOK, LockedInv, RoomInv, LoopInv, C!Next, C!OneWriter
  PROVE  LockedInv' /\ RoomInv'
<1>0. /\ MessageSize \in Nat \ {0} /\ Kernel \cap User = {}
      /\ \A c \in Kernel \cup User : MessagesOf[c] \in Nat
      /\ C!Core = Kernel \cup User
  BY ConsoleAssumption DEF MessagesOf, C!Core
<1>t. /\ print_lock \in {0, 1}
      /\ pc \in [Kernel \cup User -> {"out", "lock", "busy", "write"}]
      /\ i \in [Kernel \cup User -> 0..MessageSize]
      /\ left \in [Kernel \cup User -> Nat]
      /\ uart \in Seq(C!Chars) /\ Len(uart) \in Nat /\ Len(uart) <= 2
  BY <1>0 DEF C!TypeOK, C!Room
<1>1. CASE C!Transmit
  <2>1. UNCHANGED <<print_lock, pc, i, left>> /\ uart # <<>> /\ uart' = Tail(uart)
    BY <1>1 DEF C!Transmit
  <2>2. Len(uart') = Len(uart) - 1 /\ Len(uart) > 0
    BY <1>t, <2>1, HeadTailProperties, EmptySeq
  <2>3. LockedInv'
    BY <2>1 DEF LockedInv, InWrite
  <2>4. RoomInv'
    BY <1>t, <2>1, <2>2 DEF RoomInv
  <2> QED
    BY <2>3, <2>4
<1>2. ASSUME NEW c \in C!Core, C!Call(c) PROVE LockedInv' /\ RoomInv'
  <2>1. /\ pc[c] = "out" /\ left[c] > 0 /\ pc' = [pc EXCEPT ![c] = IF c \in Kernel THEN "lock" ELSE "busy"]
        /\ UNCHANGED <<print_lock, i, left, uart>>
    BY <1>2 DEF C!Call
  <2>2. LockedInv'
    BY <1>0, <1>t, <2>1 DEF LockedInv, InWrite
  <2>3. RoomInv'
    BY <1>0, <1>t, <2>1 DEF RoomInv
  <2> QED
    BY <2>2, <2>3
<1>3. ASSUME NEW c \in C!Core, C!Printk(c) PROVE LockedInv' /\ RoomInv'
  <2>1. /\ pc[c] = "lock" /\ print_lock = 0 /\ print_lock' = 1 /\ pc' = [pc EXCEPT ![c] = "busy"]
        /\ UNCHANGED <<i, left, uart>>
    BY <1>3 DEF C!Printk
  <2>2. LockedInv'
    BY <1>0, <1>t, <2>1 DEF LockedInv, InWrite
  <2>3. RoomInv'
    BY <1>0, <1>t, <2>1 DEF RoomInv
  <2> QED
    BY <2>2, <2>3
<1>4. ASSUME NEW c \in C!Core, C!WaitIdle(c) PROVE LockedInv' /\ RoomInv'
  <2>1. /\ pc[c] = "busy" /\ i[c] < MessageSize /\ uart = <<>> /\ pc' = [pc EXCEPT ![c] = "write"]
        /\ UNCHANGED <<print_lock, i, left, uart>>
    BY <1>4 DEF C!WaitIdle
  <2>2. LockedInv'
    BY <1>0, <1>t, <2>1 DEF LockedInv, InWrite
  <2>3. RoomInv'
    BY <1>0, <1>t, <2>1 DEF RoomInv
  <2> QED
    BY <2>2, <2>3
<1>5. ASSUME NEW c \in C!Core, C!WriteDR(c) PROVE LockedInv' /\ RoomInv'
  <2>1. /\ pc[c] = "write" /\ pc' = [pc EXCEPT ![c] = "busy"] /\ i' = [i EXCEPT ![c] = @ + 1]
        /\ UNCHANGED <<print_lock, left>>
    BY <1>5 DEF C!WriteDR
  <2>2. Len(uart) <= 1 /\ Len(uart') = Len(uart) + 1
    BY <1>5, <1>t, <2>1 DEF C!WriteDR, C!Room, RoomInv
  <2>3. LockedInv'
    BY <1>0, <1>t, <2>1 DEF LockedInv, InWrite
  <2>4. RoomInv'
    <3>1. ASSUME NEW d \in C!Core, pc'[d] = "write" PROVE d # c /\ pc[d] = "write" /\ Len(uart) = 0
      BY <1>0, <1>t, <2>1, <3>1 DEF RoomInv
    <3>2. ASSUME NEW d \in C!Core, NEW e \in C!Core, d # e, pc'[d] = "write", pc'[e] = "write" PROVE FALSE
      <4>1. d # c /\ e # c /\ pc[d] = "write" /\ pc[e] = "write"
        BY <3>1, <3>2
      <4>2. \A x, y \in Kernel : pc[x] = "write" /\ pc[y] = "write" => x = y
        BY DEF LockedInv, InWrite
      <4>3. \A x, y \in User : x = y
        BY DEF C!OneWriter
      <4> QED
        BY <1>0, <2>1, <3>2, <4>1, <4>2, <4>3
    <3> QED
      BY <1>t, <2>2, <3>1, <3>2 DEF RoomInv
  <2> QED
    BY <2>3, <2>4
<1>6. ASSUME NEW c \in C!Core, C!Return(c) PROVE LockedInv' /\ RoomInv'
  <2>1. /\ pc[c] = "busy" /\ i[c] = MessageSize /\ pc' = [pc EXCEPT ![c] = "out"]
        /\ left' = [left EXCEPT ![c] = @ - 1] /\ i' = [i EXCEPT ![c] = 0]
        /\ print_lock' = IF c \in Kernel THEN 0 ELSE print_lock
        /\ UNCHANGED uart
    BY <1>6 DEF C!Return
  <2>2. LockedInv'
    BY <1>0, <1>t, <2>1 DEF LockedInv, InWrite
  <2>3. RoomInv'
    BY <1>0, <1>t, <2>1 DEF RoomInv
  <2> QED
    BY <2>2, <2>3
<1>7. ASSUME NEW c \in C!Core, C!Spin(c) PROVE LockedInv' /\ RoomInv'
  BY <1>7 DEF C!Spin, C!vars, LockedInv, RoomInv, InWrite
<1> QED
  BY <1>1, <1>2, <1>3, <1>4, <1>5, <1>6, <1>7 DEF C!Next, C!Step
(* The loop of write_console. *)
LEMMA LoopInvStep ==
  ASSUME C!TypeOK, LoopInv, C!Next PROVE LoopInv'
<1>0. /\ MessageSize \in Nat \ {0} /\ C!Core = Kernel \cup User
      /\ \A c \in Kernel \cup User : MessagesOf[c] \in Nat
  BY ConsoleAssumption DEF MessagesOf, C!Core
<1>t. /\ pc \in [Kernel \cup User -> {"out", "lock", "busy", "write"}]
      /\ i \in [Kernel \cup User -> 0..MessageSize]
      /\ left \in [Kernel \cup User -> Nat]
  BY <1>0 DEF C!TypeOK
<1>1. CASE C!Transmit
  BY <1>1 DEF C!Transmit, LoopInv, InWrite
<1>2. ASSUME NEW c \in C!Core, C!Call(c) PROVE LoopInv'
  BY <1>0, <1>2, <1>t DEF C!Call, LoopInv, InWrite
<1>3. ASSUME NEW c \in C!Core, C!Printk(c) PROVE LoopInv'
  BY <1>0, <1>3, <1>t DEF C!Printk, LoopInv, InWrite
<1>4. ASSUME NEW c \in C!Core, C!WaitIdle(c) PROVE LoopInv'
  BY <1>0, <1>4, <1>t DEF C!WaitIdle, LoopInv, InWrite
<1>5. ASSUME NEW c \in C!Core, C!WriteDR(c) PROVE LoopInv'
  BY <1>0, <1>5, <1>t DEF C!WriteDR, LoopInv, InWrite
<1>6. ASSUME NEW c \in C!Core, C!Return(c) PROVE LoopInv'
  BY <1>0, <1>6, <1>t DEF C!Return, LoopInv, InWrite
<1>7. ASSUME NEW c \in C!Core, C!Spin(c) PROVE LoopInv'
  BY <1>7 DEF C!Spin, C!vars, LoopInv, InWrite
<1> QED
  BY <1>1, <1>2, <1>3, <1>4, <1>5, <1>6, <1>7 DEF C!Next, C!Step

LEMMA ConsoleTypes ==
  ASSUME C!TypeOK, LoopInv, C!Next PROVE C!TypeOK'
<1>0. MessageSize \in Nat \ {0} /\ C!Core = Kernel \cup User
  BY ConsoleAssumption DEF C!Core
<1>t. /\ print_lock \in {0, 1}
      /\ pc \in [Kernel \cup User -> {"out", "lock", "busy", "write"}]
      /\ i \in [Kernel \cup User -> 0..MessageSize]
      /\ left \in [Kernel \cup User -> Nat]
      /\ uart \in Seq(C!Chars) /\ Len(uart) \in Nat /\ Len(uart) <= 2 /\ line \in Seq(C!Chars)
  BY <1>0 DEF C!TypeOK, C!Room
<1>1. CASE C!Transmit
  <2>1. /\ Head(uart) \in C!Chars /\ Tail(uart) \in Seq(C!Chars) /\ Len(Tail(uart)) = Len(uart) - 1
        /\ Append(line, Head(uart)) \in Seq(C!Chars)
    BY <1>1, <1>t, HeadTailProperties, AppendProperties DEF C!Transmit
  <2> QED
    BY <1>0, <1>1, <1>t, <2>1 DEF C!Transmit, C!TypeOK, C!Room
<1>2. ASSUME NEW c \in C!Core, C!Call(c) \/ C!Printk(c) \/ C!WaitIdle(c) \/ C!Spin(c) PROVE C!TypeOK'
  <2>1. UNCHANGED <<i, left, uart, line>>
    BY <1>2 DEF C!Call, C!Printk, C!WaitIdle, C!Spin, C!vars
  <2>2. print_lock' \in {0, 1} /\ pc' \in [Kernel \cup User -> {"out", "lock", "busy", "write"}]
    BY <1>2, <1>t DEF C!Call, C!Printk, C!WaitIdle, C!Spin, C!vars
  <2> QED
    BY <1>0, <1>t, <2>1, <2>2 DEF C!TypeOK, C!Room
<1>3. ASSUME NEW c \in C!Core, C!WriteDR(c) PROVE C!TypeOK'
  <2>1. C!Char(c, left[c] - 1, i[c]) \in C!Chars
    <3>1. left[c] - 1 \in Nat /\ i[c] \in 0..MessageSize - 1
      <4>1. pc[c] = "write"
        BY <1>3 DEF C!WriteDR
      <4>2. left[c] > 0 /\ i[c] < MessageSize
        BY <4>1 DEF LoopInv
      <4> QED
        BY <1>0, <1>t, <4>2
    <3> QED
      BY <3>1 DEF C!Char, C!Chars
  <2>2. uart' \in Seq(C!Chars) /\ Len(uart') <= 2
    BY <1>3, <1>t, <2>1, AppendProperties DEF C!WriteDR, C!Room
  <2>3. i' \in [Kernel \cup User -> 0..MessageSize] /\ pc' \in [Kernel \cup User -> {"out", "lock", "busy", "write"}]
    BY <1>0, <1>3, <1>t DEF C!WriteDR, LoopInv
  <2> QED
    BY <1>0, <1>3, <1>t, <2>2, <2>3 DEF C!TypeOK, C!Room, C!WriteDR
<1>4. ASSUME NEW c \in C!Core, C!Return(c) PROVE C!TypeOK'
  <2>1. left[c] > 0
    BY <1>4 DEF C!Return, LoopInv
  <2>2. /\ i' \in [Kernel \cup User -> 0..MessageSize] /\ left' \in [Kernel \cup User -> Nat]
        /\ pc' \in [Kernel \cup User -> {"out", "lock", "busy", "write"}] /\ print_lock' \in {0, 1}
    BY <1>0, <1>4, <1>t, <2>1 DEF C!Return
  <2> QED
    BY <1>0, <1>4, <1>t, <2>2 DEF C!TypeOK, C!Room, C!Return
<1> QED
  BY <1>1, <1>2, <1>3, <1>4 DEF C!Next, C!Step

(* What the text says does not change while the text and the loop variables stay. *)
LEMMA TextKept ==
  ASSUME TextInv, Text' = Text, UNCHANGED <<i, left>> PROVE TextInv'
<1>1. Ordered(Text')
  BY DEF TextInv
<1>2. LastOK(Text)'
  BY DEF TextInv, LastOK
<1>3. \A c \in C!Core : AllThere(Text, c)'
  BY DEF TextInv, AllThere
<1> QED
  BY <1>1, <1>2, <1>3 DEF TextInv, Ordered, Neighbours, Follows

(* The end of write_console: the message of the core is complete. *)
LEMMA TextReturn ==
  ASSUME ConsoleInv, NEW c \in C!Core, C!Return(c) PROVE TextInv'
<1>0. /\ MessageSize \in Nat \ {0} /\ C!Core = Kernel \cup User /\ Kernel \cap User = {}
      /\ \A d \in Kernel \cup User : MessagesOf[d] \in Nat
  BY ConsoleAssumption DEF C!Core, MessagesOf
<1>t. /\ i \in [Kernel \cup User -> 0..MessageSize] /\ left \in [Kernel \cup User -> Nat]
      /\ TextInv /\ LockedInv /\ LoopInv
  BY <1>0 DEF ConsoleInv, C!TypeOK
<1>1. /\ pc[c] = "busy" /\ i[c] = MessageSize /\ Text' = Text
      /\ left' = [left EXCEPT ![c] = @ - 1] /\ i' = [i EXCEPT ![c] = 0]
  BY DEF C!Return, Text
<1>2. PICK w : w = Text
  OBVIOUS
<1>3. ASSUME NEW d \in C!Core PROVE AllThere(w, d)'
  <2>0. AllThere(w, d)
    BY <1>2, <1>t DEF TextInv
  <2>1. (MessagesOf[d] - left'[d]) * MessageSize + i'[d] = (MessagesOf[d] - left[d]) * MessageSize + i[d]
    <3>1. CASE d # c
      BY <1>0, <1>1, <1>t, <3>1
    <3>2. CASE d = c
      <4>1. left'[d] = left[d] - 1 /\ i'[d] = 0 /\ i[d] = MessageSize
        BY <1>0, <1>1, <1>t, <3>2
      <4>2. PICK k \in Int : k = MessagesOf[d] - left[d]
        BY <1>0, <1>t
      <4>3. MessagesOf[d] - left'[d] = k + 1
        BY <1>0, <1>t, <4>1, <4>2
      <4>4. (k + 1) * MessageSize + 0 = k * MessageSize + MessageSize
        BY <1>0
      <4> QED
        BY <4>1, <4>2, <4>3, <4>4
    <3> QED
      BY <3>1, <3>2
  <2> QED
    BY <2>0, <2>1 DEF AllThere
<1>4. Ordered(w)'
  BY <1>2, <1>t DEF TextInv, Ordered, Neighbours, Follows
<1>5. LastOK(w)'
  <2> SUFFICES ASSUME NEW n \in CharsOf(w, Kernel), \A m \in CharsOf(w, Kernel) : m <= n
               PROVE  /\ \A d \in Kernel : i'[d] > 0 => w[n] = C!Char(d, left'[d] - 1, i'[d] - 1)
                      /\ (\A d \in Kernel : i'[d] = 0) => w[n].index = MessageSize - 1
    BY DEF LastOK
  <2>1. /\ \A d \in Kernel : i[d] > 0 => w[n] = C!Char(d, left[d] - 1, i[d] - 1)
        /\ (\A d \in Kernel : i[d] = 0) => w[n].index = MessageSize - 1
    BY <1>2, <1>t DEF TextInv, LastOK
  <2>2. CASE c \notin Kernel
    <3>1. \A d \in Kernel : i'[d] = i[d] /\ left'[d] = left[d]
      BY <1>0, <1>1, <1>t, <2>2
    <3> QED
      BY <2>1, <3>1
  <2>3. CASE c \in Kernel
    <3>1. \A d \in Kernel : i'[d] = 0
      BY <1>0, <1>1, <1>t, <2>3 DEF LockedInv, LoopInv, InWrite
    <3>2. w[n] = C!Char(c, left[c] - 1, MessageSize - 1)
      BY <1>0, <1>1, <2>1, <2>3
    <3>3. w[n].index = MessageSize - 1
      BY <3>2 DEF C!Char
    <3> QED
      BY <3>1, <3>3
  <2> QED
    BY <2>2, <2>3
<1> QED
  BY <1>1, <1>2, <1>3, <1>4, <1>5 DEF TextInv, Ordered, LastOK, AllThere, Neighbours, Follows
(* out_word(UART0_DR, c): the text gets the next character of the core. *)
LEMMA TextWrite ==
  ASSUME ConsoleInv, NEW c \in C!Core, C!WriteDR(c) PROVE TextInv'
<1>0. /\ MessageSize \in Nat \ {0} /\ C!Core = Kernel \cup User /\ Kernel \cap User = {}
      /\ \A d \in Kernel \cup User : MessagesOf[d] \in Nat
  BY ConsoleAssumption DEF C!Core, MessagesOf
<1>t. /\ i \in [Kernel \cup User -> 0..MessageSize] /\ left \in [Kernel \cup User -> Nat]
      /\ line \in Seq(C!Chars) /\ uart \in Seq(C!Chars) /\ Len(uart) \in Nat
      /\ TextInv /\ LockedInv /\ LoopInv /\ RoomInv
  BY <1>0 DEF ConsoleInv, C!TypeOK
<1>1. /\ pc[c] = "write" /\ i' = [i EXCEPT ![c] = @ + 1] /\ left' = left /\ line' = line
      /\ left[c] > 0 /\ i[c] < MessageSize /\ Len(uart) <= 1
  BY <1>t DEF C!WriteDR, LoopInv, RoomInv
<1>2. PICK ch : ch = C!Char(c, left[c] - 1, i[c])
  OBVIOUS
<1>3. ch \in C!Chars /\ ch.core = c /\ ch.message = left[c] - 1 /\ ch.index = i[c]
  <2>1. left[c] - 1 \in Nat /\ i[c] \in 0..MessageSize - 1
    BY <1>0, <1>1, <1>t
  <2> QED
    BY <1>2, <2>1 DEF C!Char, C!Chars
<1>4. uart' = Append(uart, ch)
  <2>1. Len(uart) < C!Room
    BY <1>1, <1>t DEF C!Room
  <2> QED
    BY <1>2, <2>1 DEF C!WriteDR
<1>5. PICK w \in Seq(C!Chars) : w = Text
  BY <1>t, ConcatProperties DEF Text
<1>6. PICK v : v = Append(w, ch) /\ v = Text'
  <2>1. line \o Append(uart, ch) = Append(line \o uart, ch)
    BY <1>3, <1>t, TextAppend, SMTT(30)
  <2>2. Text' = line \o Append(uart, ch)
    BY <1>1, <1>4 DEF Text
  <2> QED
    BY <1>5, <2>1, <2>2 DEF Text
<1>7. /\ v \in Seq(C!Chars) /\ Len(v) = Len(w) + 1 /\ Len(w) \in Nat
      /\ v[Len(w) + 1] = ch /\ \A n \in 1..Len(w) : v[n] = w[n]
      /\ CharsOf(w, Kernel) \subseteq 1..Len(w)
      /\ c \in Kernel => CharsOf(v, Kernel) = CharsOf(w, Kernel) \cup {Len(w) + 1}
      /\ c \notin Kernel => CharsOf(v, Kernel) = CharsOf(w, Kernel)
  <2>1. ch \in C!Chars /\ v = Append(w, ch)
    BY <1>3, <1>6
  <2>2. /\ v \in Seq(C!Chars) /\ Len(v) = Len(w) + 1 /\ Len(w) \in Nat
        /\ v[Len(w) + 1] = ch /\ \A n \in 1..Len(w) : v[n] = w[n]
    BY <2>1, CharsAppend
  <2>3. Extended(w, v, ch.core, Kernel)
    BY <2>1, CharsAppend
  <2> QED
    BY <1>3, <2>2, <2>3 DEF Extended
<1>e. ASSUME NEW d
      PROVE  /\ CharsOf(w, {d}) \subseteq 1..Len(w)
             /\ d = c => CharsOf(v, {d}) = CharsOf(w, {d}) \cup {Len(w) + 1}
             /\ d # c => CharsOf(v, {d}) = CharsOf(w, {d})
  <2>1. ch.core \in {d} <=> d = c
    BY <1>3
  <2>2. ch \in C!Chars /\ v = Append(w, ch)
    BY <1>3, <1>6
  <2>3. Extended(w, v, ch.core, {d})
    BY <2>2, CharsAppend
  <2> QED
    BY <2>1, <2>3 DEF Extended
<1>8. ASSUME NEW d \in C!Core PROVE AllThere(v, d)'
  <2>0. AllThere(w, d)
    BY <1>5, <1>t DEF TextInv
  <2>1. CASE d # c
    <3>1. CharsOf(v, {d}) = CharsOf(w, {d}) /\ i'[d] = i[d] /\ left'[d] = left[d]
      BY <1>0, <1>1, <1>e, <1>t, <2>1
    <3>2. ASSUME NEW n \in CharsOf(w, {d}) PROVE v[n] = w[n] /\ Before(v, d, n) = Before(w, d, n)
      BY <1>7, <1>e, <3>1 DEF Before
    <3> QED
      BY <2>0, <3>1, <3>2 DEF AllThere
  <2>2. CASE d = c
    <3>1. CharsOf(v, {c}) = CharsOf(w, {c}) \cup {Len(w) + 1} /\ Len(w) + 1 \notin CharsOf(w, {c})
      <4>1. Len(w) + 1 \notin 1..Len(w)
        BY <1>7
      <4> QED
        BY <1>e, <4>1
    <3>2. /\ IsFiniteSet(CharsOf(w, {c})) /\ Cardinality(CharsOf(w, {c})) \in Nat
          /\ Cardinality(CharsOf(v, {c})) = Cardinality(CharsOf(w, {c})) + 1
      BY <3>1, CharsFinite, FS_AddElement
    <3>3. i'[c] = i[c] + 1 /\ left'[c] = left[c] /\ i[c] \in Nat /\ left[c] \in Nat /\ MessagesOf[c] \in Nat
      BY <1>0, <1>1, <1>t
    <3>4. PICK k \in Int : k = MessagesOf[c] - left[c] /\ k = MessagesOf[c] - 1 - (left[c] - 1)
      BY <3>3
    <3>5. Cardinality(CharsOf(w, {c})) = k * MessageSize + i[c]
      BY <2>0, <2>2, <3>4 DEF AllThere
    <3>6. Cardinality(CharsOf(v, {c})) = (MessagesOf[c] - left'[c]) * MessageSize + i'[c]
      <4>1. k * MessageSize \in Int
        BY <1>0
      <4>2. (k * MessageSize + i[c]) + 1 = k * MessageSize + (i[c] + 1)
        BY <3>3, <4>1
      <4> QED
        BY <3>2, <3>3, <3>4, <3>5, <4>2
    <3>7. ASSUME NEW n \in CharsOf(w, {c}) PROVE v[n] = w[n] /\ Before(v, c, n) = Before(w, c, n)
      <4>0. n \in 1..Len(w)
        BY <1>e
      <4>1. n \in 1..Len(w) /\ ~(Len(w) + 1 < n)
        BY <1>7, <4>0
      <4> QED
        BY <1>7, <3>1, <4>1 DEF Before
    <3>8. Before(v, c, Len(w) + 1) = CharsOf(w, {c})
      <4>1. ASSUME NEW m \in CharsOf(w, {c}) PROVE m < Len(w) + 1
        <5>1. m \in 1..Len(w)
          BY <1>e
        <5> QED
          BY <1>7, <5>1
      <4>2. ~(Len(w) + 1 < Len(w) + 1)
        BY <1>7
      <4> QED
        BY <3>1, <4>1, <4>2 DEF Before
    <3>9. Cardinality(Before(v, c, Len(w) + 1))
            = (MessagesOf[c] - 1 - v[Len(w) + 1].message) * MessageSize + v[Len(w) + 1].index
      BY <1>3, <1>7, <3>4, <3>5, <3>8
    <3>10. \A n \in CharsOf(w, {c}) :
             Cardinality(Before(w, c, n)) = (MessagesOf[c] - 1 - w[n].message) * MessageSize + w[n].index
      BY <2>0, <2>2 DEF AllThere
    <3>11. ASSUME NEW n \in CharsOf(v, {c})
           PROVE  Cardinality(Before(v, c, n)) = (MessagesOf[c] - 1 - v[n].message) * MessageSize + v[n].index
      BY <3>1, <3>7, <3>9, <3>10
    <3> QED
      BY <2>2, <3>6, <3>11 DEF AllThere
  <2> QED
    BY <2>1, <2>2
<1>9. Ordered(v)
  <2> SUFFICES ASSUME NEW m \in CharsOf(v, Kernel), NEW n \in CharsOf(v, Kernel), Neighbours(v, m, n)
               PROVE  Follows(v[m], v[n])
    BY DEF Ordered
  <2>0. Ordered(w) /\ LastOK(w)
    BY <1>5, <1>t DEF TextInv
  <2>1. CASE n \in CharsOf(w, Kernel)
    <3>1. n \in 1..Len(w) /\ m < n /\ m \in 1..Len(w) + 1
      BY <1>7, <2>1 DEF Neighbours, CharsOf
    <3>2. m \in CharsOf(w, Kernel)
      BY <1>7, <3>1
    <3>3. Neighbours(w, m, n)
      BY <1>7 DEF Neighbours
    <3> QED
      BY <1>7, <2>0, <2>1, <3>2, <3>3 DEF Ordered
  <2>2. CASE n \notin CharsOf(w, Kernel)
    <3>1. n = Len(w) + 1 /\ c \in Kernel
      BY <1>3, <1>7, <2>2
    <3>2. m \in CharsOf(w, Kernel) /\ m \in 1..Len(w)
      BY <1>7, <3>1 DEF Neighbours
    <3>3. ASSUME NEW k \in CharsOf(w, Kernel) PROVE k <= m
      <4>1. k \in 1..Len(w) /\ k \in CharsOf(v, Kernel)
        BY <1>7
      <4>2. k \notin m + 1..n - 1
        BY <4>1 DEF Neighbours
      <4> QED
        BY <1>7, <3>1, <3>2, <4>1, <4>2
    <3>4. /\ i[c] > 0 => w[m] = C!Char(c, left[c] - 1, i[c] - 1)
          /\ (\A d \in Kernel : i[d] = 0) => w[m].index = MessageSize - 1
      BY <2>0, <3>1, <3>2, <3>3 DEF LastOK
    <3>5. v[m] = w[m] /\ v[n] = ch
      BY <1>7, <3>1, <3>2
    <3>6. CASE i[c] > 0
      <4>1. w[m].core = c /\ w[m].message = left[c] - 1 /\ w[m].index = i[c] - 1
        BY <3>4, <3>6 DEF C!Char
      <4>2. i[c] - 1 # MessageSize - 1 /\ i[c] - 1 + 1 = i[c]
        BY <1>0, <1>1, <1>t
      <4> QED
        BY <1>2, <3>5, <4>1, <4>2 DEF Follows
    <3>7. CASE i[c] = 0
      <4>1. ASSUME NEW d \in Kernel PROVE i[d] = 0
        BY <1>0, <1>1, <1>t, <3>1, <3>7 DEF LockedInv, LoopInv, InWrite
      <4>2. w[m].index = MessageSize - 1
        BY <3>4, <4>1
      <4> QED
        BY <1>3, <3>5, <3>7, <4>2 DEF Follows
    <3> QED
      BY <1>0, <1>t, <3>6, <3>7
  <2> QED
    BY <2>1, <2>2
<1>10. LastOK(v)'
  <2> SUFFICES ASSUME NEW n \in CharsOf(v, Kernel), \A m \in CharsOf(v, Kernel) : m <= n
               PROVE  /\ \A d \in Kernel : i'[d] > 0 => v[n] = C!Char(d, left'[d] - 1, i'[d] - 1)
                      /\ (\A d \in Kernel : i'[d] = 0) => v[n].index = MessageSize - 1
    BY DEF LastOK
  <2>0. LastOK(w)
    BY <1>5, <1>t DEF TextInv
  <2>1. CASE c \notin Kernel
    <3>1. CharsOf(v, Kernel) = CharsOf(w, Kernel) /\ v[n] = w[n]
      BY <1>3, <1>7, <2>1
    <3>2. \A d \in Kernel : i'[d] = i[d] /\ left'[d] = left[d]
      BY <1>0, <1>1, <1>t, <2>1
    <3> QED
      BY <2>0, <3>1, <3>2 DEF LastOK
  <2>2. CASE c \in Kernel
    <3>1. Len(w) + 1 \in CharsOf(v, Kernel)
      BY <1>3, <1>7, <2>2
    <3>2. n = Len(w) + 1
      <4>1. n \in 1..Len(w) + 1 /\ Len(w) + 1 <= n
        BY <1>7, <3>1 DEF CharsOf
      <4> QED
        BY <1>7, <4>1
    <3>3. i'[c] = i[c] + 1 /\ i'[c] # 0 /\ i'[c] - 1 = i[c] /\ left'[c] = left[c]
      <4>1. i'[c] = i[c] + 1 /\ i[c] \in 0..MessageSize
        BY <1>0, <1>1, <1>t
      <4> QED
        BY <1>0, <1>1, <4>1
    <3>4. ASSUME NEW d \in Kernel, d # c PROVE i'[d] = 0
      <4>1. i[d] = 0
        BY <1>0, <1>1, <1>t, <2>2, <3>4 DEF LockedInv, LoopInv, InWrite
      <4> QED
        BY <1>0, <1>1, <1>t, <3>4, <4>1
    <3>5. v[n] = C!Char(c, left'[c] - 1, i'[c] - 1)
      BY <1>2, <1>7, <3>2, <3>3
    <3>6. ASSUME NEW d \in Kernel, d # c PROVE ~(i'[d] > 0)
      BY <3>4, <3>6
    <3> QED
      BY <2>2, <3>3, <3>5, <3>6
  <2> QED
    BY <2>1, <2>2
<1> QED
  BY <1>6, <1>8, <1>9, <1>10 DEF TextInv, Ordered, LastOK, AllThere, Neighbours, Follows
LEMMA ConsoleInvStep ==
  ASSUME C!OneWriter, ConsoleInv, [C!Next]_console PROVE ConsoleInv'
<1>1. CASE C!Next
  <2>1. C!TypeOK' /\ LockedInv' /\ RoomInv' /\ LoopInv'
    BY <1>1, ConsoleControl, LoopInvStep, ConsoleTypes DEF ConsoleInv
  <2>2. CASE C!Transmit
    <3>1. line \in Seq(C!Chars) /\ uart \in Seq(C!Chars) /\ uart # <<>>
      BY <2>2 DEF ConsoleInv, C!TypeOK, C!Transmit
    <3>2. Text' = Text /\ UNCHANGED <<i, left>>
      BY <2>2, <3>1, TextSend DEF C!Transmit, Text
    <3> QED
      BY <2>1, <3>2, TextKept DEF ConsoleInv
  <2>3. ASSUME NEW c \in C!Core, C!Call(c) \/ C!Printk(c) \/ C!WaitIdle(c) \/ C!Spin(c) PROVE ConsoleInv'
    <3>1. Text' = Text /\ UNCHANGED <<i, left>>
      BY <2>3 DEF C!Call, C!Printk, C!WaitIdle, C!Spin, C!vars, Text
    <3> QED
      BY <2>1, <3>1, TextKept DEF ConsoleInv
  <2>4. ASSUME NEW c \in C!Core, C!WriteDR(c) \/ C!Return(c) PROVE ConsoleInv'
    BY <2>1, <2>4, TextWrite, TextReturn DEF ConsoleInv
  <2> QED
    BY <1>1, <2>2, <2>3, <2>4 DEF C!Next, C!Step
<1>2. CASE UNCHANGED console
  <2>1. C!TypeOK' /\ LockedInv' /\ RoomInv' /\ LoopInv'
    BY <1>2 DEF ConsoleInv, console, C!TypeOK, LockedInv, RoomInv, LoopInv, InWrite
  <2>2. Text' = Text /\ UNCHANGED <<i, left>>
    BY <1>2 DEF console, Text
  <2> QED
    BY <2>1, <2>2, TextKept DEF ConsoleInv
<1> QED
  BY <1>1, <1>2

LEMMA ConsoleInvInit == C!Init => ConsoleInv
<1> SUFFICES ASSUME C!Init PROVE ConsoleInv
  OBVIOUS
<1>0. /\ MessageSize \in Nat \ {0} /\ C!Core = Kernel \cup User /\ left = MessagesOf
      /\ \A c \in Kernel \cup User : MessagesOf[c] \in Nat
      /\ i = [c \in C!Core |-> 0] /\ pc = [c \in C!Core |-> "out"] /\ uart = <<>> /\ line = <<>>
  BY ConsoleAssumption DEF C!Core, MessagesOf, C!Init
<1>1. left \in [C!Core -> Nat]
  BY ConsoleAssumption DEF C!Core, C!Init
<1>2. C!TypeOK
  BY <1>0, <1>1 DEF C!Init, C!TypeOK, C!Room
<1>3. LockedInv /\ RoomInv /\ LoopInv
  BY <1>0 DEF LockedInv, RoomInv, LoopInv, InWrite, C!Core
<1>4. Len(Text) = 0
  BY <1>0 DEF Text
<1>5. \A cores : CharsOf(Text, cores) = {}
  BY <1>4 DEF CharsOf
<1>6. ASSUME NEW c \in C!Core PROVE AllThere(Text, c)
  <2>1. Cardinality({}) = 0
    BY FS_EmptySet
  <2>2. MessagesOf[c] - left[c] = 0 /\ i[c] = 0
    BY <1>0
  <2>3. 0 * MessageSize + 0 = 0
    BY <1>0
  <2> QED
    BY <1>5, <2>1, <2>2, <2>3 DEF AllThere
<1>7. Ordered(Text) /\ LastOK(Text)
  BY <1>5 DEF Ordered, LastOK
<1> QED
  BY <1>2, <1>3, <1>6, <1>7 DEF ConsoleInv, TextInv

LEMMA ConsoleInvWhole == ConsoleInv => LineIsWhole
<1> SUFFICES ASSUME ConsoleInv PROVE C!PrintksWhole /\ C!NothingDropped
  BY DEF LineIsWhole, C!LineIsWhole
<1>1. C!Written = Text /\ \A cores : C!Of(cores) = CharsOf(Text, cores)
  BY DEF C!Written, Text, C!Of, CharsOf
<1>2. C!PrintksWhole
  BY <1>1 DEF ConsoleInv, TextInv, Ordered, Neighbours, Follows, C!PrintksWhole
<1>3. C!NothingDropped
  <2>1. ASSUME NEW c \in C!Core PROVE AllThere(Text, c)
    BY DEF ConsoleInv, TextInv
  <2> QED
    BY <1>1, <2>1, SameCount DEF C!NothingDropped, AllThere, Before, MessagesOf
<1> QED
  BY <1>2, <1>3

(***************************************************************************)
(* For messages of any number and length and any number of cores in        *)
(* printk, beside one core in sys_write: no character that write_console   *)
(* has written is lost, though each core looks at the flag before others   *)
(* write, and the messages of printk come out whole, one after another.    *)
(***************************************************************************)
THEOREM LineStaysWhole == C!OneWriter => (MCSpec => []LineIsWhole)
<1> SUFFICES ASSUME C!OneWriter PROVE MCSpec => []LineIsWhole
  OBVIOUS
<1>1. MCInit => ConsoleInv
  BY ConsoleInvInit DEF MCInit
<1>2. ConsoleInv /\ [MCNext]_mcvars => ConsoleInv'
  <2>1. MCNext => [C!Next]_console
    BY DEF MCNext, Finished, mcvars
  <2>2. UNCHANGED mcvars => UNCHANGED console
    BY DEF mcvars
  <2> QED
    BY <2>1, <2>2, ConsoleInvStep
<1> QED
  BY <1>1, <1>2, ConsoleInvWhole, PTL DEF MCSpec
-----------------------------------------------------------------------------
(* Boot: from reset to the first processes. *)

(* Core 0 is at its n-th step exactly when it has done n of them. *)
LEMMA BootOrder ==
  ASSUME step \in 0..20
  PROVE  /\ B!At("start") <=> step = 0
         /\ B!At("pud") <=> step = 1
         /\ B!At("pmd") <=> step = 2
         /\ B!At("ram") <=> step = 3
         /\ B!At("periph") <=> step = 4
         /\ B!At("local") <=> step = 5
         /\ B!At("ttbr0") <=> step = 6
         /\ B!At("enable_mmu") <=> step = 7
         /\ B!At("memcpy") <=> step = 8
         /\ B!At("memset") <=> step = 9
         /\ B!At("init_uart") <=> step = 10
         /\ B!At("start_secondary_core") <=> step = 11
         /\ B!At("init_memory") <=> step = 12
         /\ B!At("init_fs") <=> step = 13
         /\ B!At("init_system_call") <=> step = 14
         /\ B!At("init_process") <=> step = 15
         /\ B!At("init_timer") <=> step = 16
         /\ B!At("init_interrupt_controller") <=> step = 17
         /\ B!At("ready") <=> step = 18
         /\ B!At("enable_irq") <=> step = 19
         /\ B!At("idle") <=> step = 20
BY DEF B!At, B!Order

(* The entries of a table from page a up to page b, o pages behind its first. *)
Filled(table, a, b, o, attr) ==
  \A n \in a..b - 1 : n - o \in DOMAIN table /\ table[n - o] = <<n, attr>>

(***************************************************************************)
(* What core 0 has done at each step of its order: the tables as far as    *)
(* setup_vm2 has filled them, and the parts of the kernel it has set up.   *)
(***************************************************************************)
TablesInv ==
  /\ step > 1 => "pud1" \in linked
  /\ step > 2 => "pmd1" \in linked
  /\ step > 6 => "pmd0" \in linked /\ 0 \in DOMAIN pmd0 /\ pmd0[0] = <<0, 1>>
  /\ step < 3 => pa = 0
  /\ step = 3 => pa \in 0..415 /\ Filled(pmd1, 0, pa, 0, 1)
  /\ step > 3 => Filled(pmd1, 0, 416, 0, 1)
  /\ step = 4 => pa \in 504..511 /\ Filled(pmd1, 504, pa, 0, 0)
  /\ step > 4 => Filled(pmd1, 504, 512, 0, 0)
  /\ step = 5 => pa \in 512..519 /\ Filled(pmd2, 512, pa, 512, 0)
  /\ step > 5 => "pmd2" \in linked /\ Filled(pmd2, 512, 520, 512, 0)

OrderInv ==
  /\ mmu # {} => step > 7
  /\ step > 7 => 0 \in mmu
  /\ step < 10 => image = "files"
  /\ step > 8 => fs = "files"
  /\ "init_fs" \in initialised => step > 13
  /\ step > 10 => "init_uart" \in initialised
  /\ step > 12 => "init_memory" \in initialised
  /\ step > 13 => "init_fs" \in initialised
  /\ step > 14 => "init_system_call" \in initialised
  /\ step > 15 => "init_process" \in initialised
  /\ main_core_ready = 1 => step > 18

(* A secondary core moves after core 0 has released it, and past the loop when it is ready. *)
SecondaryInv ==
  /\ spin_table # {} => step > 11
  /\ \A c \in Secondary :
       /\ at[c] # "parked" => step > 11
       /\ at[c] \in {"init_process", "init_timer", "enable_irq", "running"} => step > 18

(* Where a secondary core can be. *)
Places == {"parked", "entry", "waiting", "init_process", "init_timer", "enable_irq", "running"}

BootInv == B!TypeOK /\ TablesInv /\ OrderInv /\ SecondaryInv

(* A loop of setup_vm2 fills its table up to the next page, and overwrites no page before. *)
LEMMA FillMore ==
  ASSUME NEW t, NEW a \in Int, NEW b \in Int, a <= b, NEW o \in Int, NEW attr, Filled(t, a, b, o, attr)
  PROVE  Filled(B!Entered(t, b - o, <<b, attr>>), a, b + 1, o, attr)
<1> SUFFICES ASSUME NEW n \in a..b
             PROVE  /\ n - o \in DOMAIN B!Entered(t, b - o, <<b, attr>>)
                    /\ B!Entered(t, b - o, <<b, attr>>)[n - o] = <<n, attr>>
  BY DEF Filled
<1>1. CASE n = b
  BY <1>1 DEF B!Entered
<1>2. CASE n # b
  <2>1. n \in a..b - 1 /\ n - o # b - o
    BY <1>2
  <2>2. n - o \in DOMAIN t /\ t[n - o] = <<n, attr>>
    BY <2>1 DEF Filled
  <2> QED
    BY <2>1, <2>2 DEF B!Entered
<1> QED
  BY <1>1, <1>2

LEMMA FillElsewhere ==
  ASSUME NEW t, NEW a \in Int, NEW b \in Int, NEW o \in Int, NEW attr, NEW d, Filled(t, a, b, o, attr),
         NEW k \in Int, k < a - o \/ k > b - 1 - o
  PROVE  Filled(B!Entered(t, k, d), a, b, o, attr)
<1> SUFFICES ASSUME NEW n \in a..b - 1
             PROVE  n - o \in DOMAIN B!Entered(t, k, d) /\ B!Entered(t, k, d)[n - o] = <<n, attr>>
  BY DEF Filled
<1>1. n - o # k
  OBVIOUS
<1>2. n - o \in DOMAIN t /\ t[n - o] = <<n, attr>>
  BY DEF Filled
<1> QED
  BY <1>1, <1>2 DEF B!Entered

LEMMA EnteredDomain ==
  ASSUME NEW t, NEW k, NEW d PROVE DOMAIN B!Entered(t, k, d) = DOMAIN t \cup {k}
BY DEF B!Entered

(* setup_vm2 fills its three tables. *)
LEMMA TablesStep ==
  ASSUME BootInv, B!Next PROVE TablesInv' /\ step' \in 0..20 /\ pa' \in Nat
                               /\ \A table \in {pmd1', pmd2', pmd0'} : DOMAIN table \subseteq 0..511
<1>0. /\ step \in 0..20 /\ pa \in Nat /\ TablesInv
      /\ DOMAIN pmd1 \subseteq 0..511 /\ DOMAIN pmd2 \subseteq 0..511 /\ DOMAIN pmd0 \subseteq 0..511
  BY DEF BootInv, B!TypeOK, B!Order
<1>1. CASE B!Start \/ B!Link("pud", "pud1") \/ B!Link("pmd", "pmd1")
  <2>1. /\ step \in 0..2 /\ step' = step + 1 /\ UNCHANGED <<pa, pmd1, pmd2, pmd0>>
        /\ linked' = CASE step = 0 -> linked [] step = 1 -> linked \cup {"pud1"} [] step = 2 -> linked \cup {"pmd1"}
    BY <1>0, <1>1, BootOrder DEF B!Start, B!Link, B!Advance, B!tables
  <2>2. Filled(pmd1, 0, 0, 0, 1)
    BY DEF Filled
  <2> QED
    BY <1>0, <2>1, <2>2 DEF TablesInv
<1>2. CASE B!MapRam
  <2>1. /\ step = 3 /\ pa \in 0..415 /\ pmd1' = B!Entered(pmd1, pa, <<pa, 1>>) /\ UNCHANGED <<pmd2, pmd0, linked>>
        /\ IF pa + 1 < 416 THEN pa' = pa + 1 /\ step' = 3 ELSE pa' = 504 /\ step' = 4
    BY <1>0, <1>2, BootOrder DEF B!MapRam, B!Loop, B!Advance, TablesInv, B!RAM_MAX_ADDR, B!PERIPHERAL_BASE, B!NORMAL
  <2>2. Filled(pmd1', 0, pa + 1, 0, 1)
    <3>1. Filled(pmd1, 0, pa, 0, 1)
      BY <1>0, <2>1 DEF TablesInv
    <3>2. Filled(B!Entered(pmd1, pa - 0, <<pa, 1>>), 0, pa + 1, 0, 1)
      BY <2>1, <3>1, FillMore
    <3>3. pa - 0 = pa
      BY <2>1
    <3> QED
      BY <2>1, <3>2, <3>3
  <2>3. Filled(pmd1', 504, 504, 0, 0)
    BY DEF Filled
  <2>4. DOMAIN pmd1' \subseteq 0..511
    <3>1. DOMAIN pmd1' = DOMAIN pmd1 \cup {pa}
      BY <2>1, EnteredDomain, Zenon
    <3>2. pa \in 0..511
      BY <2>1
    <3> QED
      BY <1>0, <3>1, <3>2
  <2>5. pa + 1 >= 416 => pa + 1 = 416
    BY <2>1
  <2> QED
    BY <1>0, <2>1, <2>2, <2>3, <2>4, <2>5 DEF TablesInv
<1>3. CASE B!MapPeripherals
  <2>1. /\ step = 4 /\ pa \in 504..511 /\ pmd1' = B!Entered(pmd1, pa, <<pa, 0>>) /\ UNCHANGED <<pmd2, pmd0, linked>>
        /\ IF pa + 1 < 512 THEN pa' = pa + 1 /\ step' = 4 ELSE pa' = 512 /\ step' = 5
    BY <1>0, <1>3, BootOrder
    DEF B!MapPeripherals, B!Loop, B!Advance, TablesInv, B!PERIPHERAL_END, B!LOCAL_PERIPH_BASE, B!DEVICE
  <2>2. Filled(pmd1', 504, pa + 1, 0, 0)
    <3>1. Filled(pmd1, 504, pa, 0, 0)
      BY <1>0, <2>1 DEF TablesInv
    <3>2. Filled(B!Entered(pmd1, pa - 0, <<pa, 0>>), 504, pa + 1, 0, 0)
      BY <2>1, <3>1, FillMore
    <3>3. pa - 0 = pa
      BY <2>1
    <3> QED
      BY <2>1, <3>2, <3>3
  <2>3. Filled(pmd1', 0, 416, 0, 1)
    <3>1. Filled(pmd1, 0, 416, 0, 1)
      BY <1>0, <2>1 DEF TablesInv
    <3>2. pa \in Int /\ (pa < 0 - 0 \/ pa > 416 - 1 - 0)
      BY <2>1
    <3> QED
      BY <2>1, <3>1, <3>2, FillElsewhere
  <2>4. DOMAIN pmd1' \subseteq 0..511
    <3>1. DOMAIN pmd1' = DOMAIN pmd1 \cup {pa}
      BY <2>1, EnteredDomain, Zenon
    <3>2. pa \in 0..511
      BY <2>1
    <3> QED
      BY <1>0, <3>1, <3>2
  <2>5. Filled(pmd2', 512, 512, 512, 0)
    BY DEF Filled
  <2>6. pa + 1 >= 512 => pa + 1 = 512
    BY <2>1
  <2> QED
    BY <1>0, <2>1, <2>2, <2>3, <2>4, <2>5, <2>6 DEF TablesInv
<1>4. CASE B!MapLocal
  <2>1. /\ step = 5 /\ pa \in 512..519 /\ pmd2' = B!Entered(pmd2, pa - 512, <<pa, 0>>) /\ UNCHANGED <<pmd1, pmd0>>
        /\ IF pa + 1 < 520 THEN pa' = pa + 1 /\ step' = 5 ELSE pa' = 0 /\ step' = 6
        /\ linked' = linked \cup {"pmd2"}
    BY <1>0, <1>4, BootOrder
    DEF B!MapLocal, B!Loop, B!Advance, TablesInv, B!LOCAL_PERIPH_END, B!LOCAL_PERIPH_BASE, B!DEVICE
  <2>2. Filled(pmd2', 512, pa + 1, 512, 0)
    <3>1. Filled(pmd2, 512, pa, 512, 0)
      BY <1>0, <2>1 DEF TablesInv
    <3> QED
      BY <2>1, <3>1, FillMore
  <2>4. DOMAIN pmd2' \subseteq 0..511
    <3>0. PICK k : k = pa - 512
      OBVIOUS
    <3>1. pmd2' = B!Entered(pmd2, k, <<pa, 0>>)
      BY <2>1, <3>0
    <3>3. DOMAIN pmd2' = DOMAIN pmd2 \cup {k}
      BY <3>1, EnteredDomain, Zenon
    <3>2. k \in 0..511
      BY <2>1, <3>0
    <3> QED
      BY <1>0, <3>2, <3>3
  <2>5. pa + 1 >= 520 => pa + 1 = 520
    BY <2>1
  <2> QED
    BY <1>0, <2>1, <2>2, <2>4, <2>5 DEF TablesInv
<1>5. CASE B!MapLow
  <2>1. /\ step = 6 /\ pmd0' = B!Entered(pmd0, 0, <<0, 1>>) /\ UNCHANGED <<pa, pmd1, pmd2>> /\ step' = 7
        /\ linked' = linked \cup {"pmd0"}
    BY <1>0, <1>5, BootOrder DEF B!MapLow, B!Advance, B!NORMAL
  <2>2. 0 \in DOMAIN pmd0' /\ pmd0'[0] = <<0, 1>>
    BY <2>1 DEF B!Entered
  <2>4. DOMAIN pmd0' \subseteq 0..511
    <3>1. DOMAIN pmd0' = DOMAIN pmd0 \cup {0}
      BY <2>1, EnteredDomain, Zenon
    <3> QED
      BY <1>0, <3>1
  <2> QED
    BY <1>0, <2>1, <2>2, <2>4 DEF TablesInv
<1>6. CASE B!EnableMmu \/ B!CopyFs \/ B!ClearBss \/ B!StartSecondaryCores \/ B!InitMemory \/ B!KMain \/ B!Ready
  <2>1. step \in 7..19 /\ step' = step + 1 /\ UNCHANGED <<pa, pmd1, pmd2, pmd0, linked>>
    BY <1>0, <1>6, BootOrder
    DEF B!EnableMmu, B!CopyFs, B!ClearBss, B!StartSecondaryCores, B!InitMemory, B!KMain, B!Ready, B!Advance, B!tables
  <2> QED
    BY <1>0, <2>1 DEF TablesInv
<1>7. ASSUME NEW c \in Secondary, B!Slave(c) \/ B!Wait(c) PROVE UNCHANGED <<step, pa, pmd1, pmd2, pmd0, linked>>
  BY <1>7 DEF B!Slave, B!Wait, B!Released, B!SlaveLoop, B!SecondaryMain, B!tables, B!vars
<1>8. UNCHANGED <<step, pa, pmd1, pmd2, pmd0, linked>> => TablesInv'
  BY <1>0 DEF TablesInv
<1> QED
  BY <1>0, <1>1, <1>2, <1>3, <1>4, <1>5, <1>6, <1>7, <1>8 DEF B!Next, B!Core0, B!SetupVm2

(* KMain goes through its order, and what core 0 has not yet released stays parked. *)
LEMMA OrderStep ==
  ASSUME BootInv, B!Next PROVE OrderInv' /\ SecondaryInv'
<1>0. step \in 0..20 /\ OrderInv /\ SecondaryInv
  BY DEF BootInv, B!TypeOK, B!Order
<1>1. CASE B!Start \/ B!SetupVm2
  <2>1. step \in 0..6 /\ step' \in {step, step + 1} /\ UNCHANGED <<mmu, image, fs, spin_table, main_core_ready, initialised, at>>
    BY <1>0, <1>1, BootOrder
    DEF B!Start, B!SetupVm2, B!Link, B!MapRam, B!MapPeripherals, B!MapLocal, B!MapLow, B!Loop, B!Advance, B!Others
  <2>2. OrderInv'
    BY <1>0, <2>1 DEF OrderInv
  <2>3. SecondaryInv'
    BY <1>0, <2>1 DEF SecondaryInv
  <2> QED
    BY <2>2, <2>3
<1>2. CASE B!EnableMmu
  <2>1. step = 7 /\ step' = 8 /\ 0 \in mmu' /\ UNCHANGED <<image, fs, spin_table, main_core_ready, initialised, at>>
    BY <1>0, <1>2, BootOrder DEF B!EnableMmu, B!Advance
  <2>2. OrderInv'
    BY <1>0, <2>1 DEF OrderInv
  <2>3. SecondaryInv'
    BY <1>0, <2>1 DEF SecondaryInv
  <2> QED
    BY <2>2, <2>3
<1>3. CASE B!CopyFs \/ B!ClearBss
  <2>1. /\ step \in {8, 9} /\ step' = step + 1
        /\ step = 8 => fs' = image /\ UNCHANGED image
        /\ step = 9 => UNCHANGED fs
        /\ UNCHANGED <<mmu, spin_table, main_core_ready, initialised, at>>
    BY <1>0, <1>3, BootOrder DEF B!CopyFs, B!ClearBss, B!Advance
  <2>2. OrderInv'
    BY <1>0, <2>1 DEF OrderInv
  <2>3. SecondaryInv'
    BY <1>0, <2>1 DEF SecondaryInv
  <2> QED
    BY <2>2, <2>3
<1>4. CASE B!StartSecondaryCores
  <2>1. step = 11 /\ step' = 12 /\ UNCHANGED <<mmu, image, fs, main_core_ready, initialised, at>>
    BY <1>0, <1>4, BootOrder DEF B!StartSecondaryCores, B!Advance
  <2>2. OrderInv'
    BY <1>0, <2>1 DEF OrderInv
  <2>3. SecondaryInv'
    BY <1>0, <2>1 DEF SecondaryInv
  <2> QED
    BY <2>2, <2>3
<1>5. CASE B!InitMemory \/ B!KMain
  <2>1. /\ step \in {10, 12, 13, 14, 15, 16, 17, 19} /\ step' = step + 1
        /\ initialised' = initialised \cup
             {CASE step = 10 -> "init_uart" [] step = 12 -> "init_memory" [] step = 13 -> "init_fs"
                [] step = 14 -> "init_system_call" [] step = 15 -> "init_process" [] step = 16 -> "init_timer"
                [] step = 17 -> "init_interrupt_controller" [] step = 19 -> "enable_irq"}
        /\ UNCHANGED <<mmu, image, fs, spin_table, main_core_ready, at>>
    BY <1>0, <1>5, BootOrder DEF B!InitMemory, B!KMain, B!Advance
  <2>2. OrderInv'
    BY <1>0, <2>1 DEF OrderInv
  <2>3. SecondaryInv'
    BY <1>0, <2>1 DEF SecondaryInv
  <2> QED
    BY <2>2, <2>3
<1>6. CASE B!Ready
  <2>1. step = 18 /\ step' = 19 /\ UNCHANGED <<mmu, image, fs, spin_table, initialised, at>>
    BY <1>0, <1>6, BootOrder DEF B!Ready, B!Advance
  <2>2. OrderInv'
    BY <1>0, <2>1 DEF OrderInv
  <2>3. SecondaryInv'
    BY <1>0, <2>1 DEF SecondaryInv
  <2> QED
    BY <2>2, <2>3
<1>7. ASSUME NEW c \in Secondary, B!Slave(c) \/ B!Wait(c) PROVE OrderInv' /\ SecondaryInv'
  <2>1. /\ UNCHANGED <<step, image, fs, spin_table, main_core_ready, initialised>>
        /\ mmu' # mmu => at[c] = "entry" /\ mmu' = mmu \cup {c}
    BY <1>7 DEF B!Slave, B!Wait, B!Released, B!SlaveLoop, B!SecondaryMain, B!Goto, B!vars
  <2>2. at \in [Secondary -> Places]
    BY DEF BootInv, B!TypeOK, Places
  <2>3. /\ \A d \in Secondary : d # c => at'[d] = at[d]
        /\ at'[c] # at[c] => at[c] # "parked" \/ c \in spin_table
        /\ at'[c] \in {"init_process", "init_timer", "enable_irq", "running"} =>
             at[c] \in {"init_process", "init_timer", "enable_irq", "running"} \/ main_core_ready = 1
    <3>1. CASE B!Released(c)
      BY <2>2, <3>1 DEF B!Released, B!Goto
    <3>2. CASE B!SlaveLoop(c)
      BY <2>2, <3>2 DEF B!SlaveLoop, B!Goto
    <3>3. CASE B!SecondaryMain(c)
      BY <2>2, <3>3 DEF B!SecondaryMain, B!Goto
    <3>4. CASE B!Wait(c)
      BY <3>4 DEF B!Wait, B!vars
    <3> QED
      BY <1>7, <3>1, <3>2, <3>3, <3>4 DEF B!Slave
  <2>4. OrderInv'
    BY <1>0, <2>1 DEF OrderInv, SecondaryInv
  <2>5. SecondaryInv'
    BY <1>0, <2>1, <2>3 DEF SecondaryInv, OrderInv
  <2> QED
    BY <2>4, <2>5
<1> QED
  BY <1>1, <1>2, <1>3, <1>4, <1>5, <1>6, <1>7 DEF B!Next, B!Core0

(* The rest of the types; the allocator gets no page of the file system. *)
RestTyped ==
  /\ linked \subseteq {"pud1", "pmd1", "pmd2", "pmd0"}
  /\ mmu \subseteq B!Core /\ spin_table \subseteq Secondary
  /\ image \in {"files", "zeros"} /\ fs \in {"nothing", "files", "zeros"}
  /\ main_core_ready \in {0, 1}
  /\ heap \subseteq B!Pages(0, B!MEMORY_END)
  /\ at \in [Secondary -> Places]

LEMMA BootTypes ==
  ASSUME BootInv, B!Next PROVE RestTyped'
<1>0. RestTyped
  BY DEF BootInv, B!TypeOK, RestTyped, Places
<1>1. CASE B!Start \/ B!MapRam \/ B!MapPeripherals \/ B!EnableMmu \/ B!CopyFs \/ B!ClearBss
  BY <1>0, <1>1
  DEF RestTyped, B!Start, B!MapRam, B!MapPeripherals, B!EnableMmu, B!CopyFs, B!ClearBss, B!Others, B!tables, B!Core
<1>2. CASE B!Link("pud", "pud1") \/ B!Link("pmd", "pmd1") \/ B!MapLocal \/ B!MapLow
  BY <1>0, <1>2 DEF RestTyped, B!Link, B!MapLocal, B!MapLow, B!Others
<1>3. CASE B!StartSecondaryCores \/ B!KMain \/ B!Ready
  BY <1>0, <1>3 DEF RestTyped, B!StartSecondaryCores, B!KMain, B!Ready, B!tables
<1>4. CASE B!InitMemory
  <2>1. heap' \subseteq B!Pages(0, B!MEMORY_END)
    BY <1>4, BootAssumption DEF B!InitMemory, B!Pages, B!MEMORY_END
  <2> QED
    BY <1>0, <1>4, <2>1 DEF RestTyped, B!InitMemory, B!tables
<1>5. ASSUME NEW c \in Secondary, B!Slave(c) \/ B!Wait(c) PROVE RestTyped'
  <2>1. CASE B!Released(c)
    BY <1>0, <2>1 DEF RestTyped, Places, B!Released, B!Goto, B!tables
  <2>2. CASE B!SlaveLoop(c)
    BY <1>0, <2>2 DEF RestTyped, Places, B!SlaveLoop, B!Goto, B!tables, B!Core
  <2>3. CASE B!SecondaryMain(c)
    BY <1>0, <2>3 DEF RestTyped, Places, B!SecondaryMain, B!Goto, B!tables
  <2>4. CASE B!Wait(c)
    BY <1>0, <2>4 DEF RestTyped, B!Wait, B!vars, B!tables
  <2> QED
    BY <1>5, <2>1, <2>2, <2>3, <2>4 DEF B!Slave
<1> QED
  BY <1>1, <1>2, <1>3, <1>4, <1>5 DEF B!Next, B!Core0, B!SetupVm2

LEMMA BootInvStep ==
  ASSUME BootInv, [B!Next]_boot PROVE BootInv'
<1>1. CASE B!Next
  <2>1. B!TypeOK'
    BY <1>1, TablesStep, BootTypes DEF B!TypeOK, RestTyped, Places, B!Order
  <2> QED
    BY <1>1, <2>1, TablesStep, OrderStep DEF BootInv
<1>2. CASE UNCHANGED boot
  <2>1. B!TypeOK'
    <3>1. UNCHANGED B!vars
      BY <1>2 DEF boot, B!vars, B!tables
    <3>2. B!TypeOK
      BY DEF BootInv
    <3> QED
      BY <3>1, <3>2 DEF B!TypeOK, B!vars, B!tables
  <2>2. TablesInv'
    BY <1>2 DEF BootInv, TablesInv, boot
  <2>3. OrderInv' /\ SecondaryInv'
    BY <1>2 DEF BootInv, OrderInv, SecondaryInv, boot
  <2> QED
    BY <2>1, <2>2, <2>3 DEF BootInv
<1> QED
  BY <1>1, <1>2

LEMMA BootInvInit == B!Init => BootInv
<1> SUFFICES ASSUME B!Init PROVE BootInv
  OBVIOUS
<1>1. DOMAIN pmd1 = {} /\ DOMAIN pmd2 = {} /\ DOMAIN pmd0 = {}
  BY DEF B!Init
<1>2. B!TypeOK
  BY <1>1 DEF B!Init, B!TypeOK, B!Order, B!Pages
<1> QED
  BY <1>2 DEF B!Init, BootInv, TablesInv, OrderInv, SecondaryInv

LEMMA FilledAt ==
  ASSUME NEW table, NEW a, NEW b, NEW o, NEW attr, Filled(table, a, b, o, attr), NEW n \in a..b - 1
  PROVE  n - o \in DOMAIN table /\ table[n - o] = <<n, attr>>
BY DEF Filled

(* The walk of the MMU finds the pages that setup_vm2 has entered. *)
LEMMA BootInvReady == BootInv => ReadyBeforeUse
<1> SUFFICES ASSUME BootInv PROVE ReadyBeforeUse
  OBVIOUS
<1>1. step \in 0..20 /\ heap \subseteq B!Pages(0, B!MEMORY_END) /\ TablesInv /\ OrderInv /\ SecondaryInv
  BY DEF BootInv, B!TypeOK, B!Order
<1>2. ASSUME mmu # {} PROVE B!MapsKernel
  <2>1. /\ {"pud1", "pmd1"} \subseteq linked /\ {"pud1", "pmd2"} \subseteq linked /\ "pmd0" \in linked
        /\ 0 \in DOMAIN pmd0 /\ pmd0[0] = <<0, 1>>
        /\ Filled(pmd1, 0, 416, 0, 1) /\ Filled(pmd1, 504, 512, 0, 0) /\ Filled(pmd2, 512, 520, 512, 0)
    BY <1>1, <1>2 DEF TablesInv, OrderInv
  <2>2. ASSUME NEW page \in 0..408 PROVE B!Ttbr1(page) = <<page, 1>>
    <3>1. page \in 0..416 - 1 /\ page - 0 = page /\ page < 512
      OBVIOUS
    <3>2. Filled(pmd1, 0, 416, 0, 1) /\ {"pud1", "pmd1"} \subseteq linked
      BY <2>1
    <3>3. page - 0 \in DOMAIN pmd1 /\ pmd1[page - 0] = <<page, 1>>
      BY <3>1, <3>2, FilledAt
    <3>4. page \in DOMAIN pmd1 /\ pmd1[page] = <<page, 1>>
      BY <3>1, <3>3
    <3> QED
      BY <3>1, <3>2, <3>4 DEF B!Ttbr1, B!Valid
  <2>3. ASSUME NEW page \in 504..505 PROVE B!Ttbr1(page) = <<page, 0>>
    <3>1. page \in 504..512 - 1 /\ page - 0 = page /\ page < 512
      OBVIOUS
    <3>2. Filled(pmd1, 504, 512, 0, 0) /\ {"pud1", "pmd1"} \subseteq linked
      BY <2>1
    <3>3. page - 0 \in DOMAIN pmd1 /\ pmd1[page - 0] = <<page, 0>>
      BY <3>1, <3>2, FilledAt
    <3>4. page \in DOMAIN pmd1 /\ pmd1[page] = <<page, 0>>
      BY <3>1, <3>3
    <3> QED
      BY <3>1, <3>2, <3>4 DEF B!Ttbr1, B!Valid
  <2>4. ASSUME NEW page \in 512..512 PROVE B!Ttbr1(page) = <<page, 0>>
    <3>1. page \in 512..520 - 1 /\ ~ (page < 512) /\ page \in 512..1023
      OBVIOUS
    <3>2. Filled(pmd2, 512, 520, 512, 0) /\ {"pud1", "pmd2"} \subseteq linked
      BY <2>1
    <3>3. page - 512 \in DOMAIN pmd2 /\ pmd2[page - 512] = <<page, 0>>
      BY <3>1, <3>2, FilledAt
    <3> QED
      BY <3>1, <3>2, <3>3 DEF B!Ttbr1, B!Valid
  <2>5. B!Ttbr0(0) = <<0, 1>>
    BY <2>1 DEF B!Ttbr0, B!Valid
  <2>6. \A page \in B!Pages(0, B!MEMORY_END) \cup B!Pages(B!FS_BASE, B!FS_END) : page \in 0..408
    BY DEF B!Pages, B!MEMORY_END, B!FS_BASE, B!FS_END
  <2>7. \A page \in B!Devices : page \in 504..505 \/ page = 512
    BY DEF B!Devices
  <2>8. \A page \in B!Pages(0, B!MEMORY_END) \cup B!Pages(B!FS_BASE, B!FS_END) : B!Ttbr1(page) = <<page, 1>>
    BY <2>2, <2>6
  <2>9. \A page \in B!Devices : B!Ttbr1(page) = <<page, 0>>
    BY <2>3, <2>4, <2>7
  <2> QED
    BY <2>5, <2>8, <2>9 DEF B!MapsKernel, B!NORMAL, B!DEVICE
<1>3. B!InitialisedBeforeUse
  <2>1. ASSUME "init_fs" \in initialised PROVE fs = "files" /\ 0 \in mmu
    BY <1>1, <2>1 DEF OrderInv
  <2>2. heap \cap B!Pages(B!FS_BASE, B!FS_END) = {}
    BY <1>1 DEF B!Pages, B!MEMORY_END, B!FS_BASE, B!FS_END
  <2>3. ASSUME NEW c \in Secondary, at[c] \in {"init_process", "init_timer", "enable_irq", "running"}
        PROVE  {"init_uart", "init_memory", "init_fs", "init_system_call", "init_process"} \subseteq initialised
    <3>1. step > 18
      BY <1>1, <2>3 DEF SecondaryInv
    <3> QED
      BY <1>1, <3>1 DEF OrderInv
  <2> QED
    BY <2>1, <2>2, <2>3 DEF B!InitialisedBeforeUse
<1> QED
  BY <1>2, <1>3 DEF ReadyBeforeUse, B!ReadyBeforeUse, B!MapsKernel

(***************************************************************************)
(* Whatever number of cores main.c starts and wherever the kernel ends:    *)
(* once any core has translation on, setup_vm2 has mapped every page the   *)
(* kernel uses; no core creates a process before KMain has set up what it  *)
(* needs; and init_fs finds the image in its place.                        *)
(***************************************************************************)
THEOREM CoresStartReady == MCSpec => []ReadyBeforeUse
<1>1. MCInit => BootInv
  BY BootInvInit DEF MCInit
<1>2. BootInv /\ [MCNext]_mcvars => BootInv'
  <2>1. MCNext => [B!Next]_boot
    BY DEF MCNext, Finished, mcvars
  <2>2. UNCHANGED mcvars => UNCHANGED boot
    BY DEF mcvars
  <2> QED
    BY <2>1, <2>2, BootInvStep
<1> QED
  BY <1>1, <1>2, BootInvReady, PTL DEF MCSpec
-----------------------------------------------------------------------------
(* The state of every device stays in its type. *)

DevicesTyped == TypeOK /\ TicksInv /\ C!TypeOK /\ LoopInv /\ BootInv

(***************************************************************************)
(* Whichever device runs, and however many cores write or read: indices    *)
(* stay in the ring of keyboard.c, the tick counter and what a process     *)
(* waits for it in their bounds, no more than two characters in the UART,  *)
(* and the descriptors of setup_vm2 in their tables.                       *)
(***************************************************************************)
THEOREM DevicesTypeCorrect == MCSpec => []MCTypeOK
<1>1. MCInit => DevicesTyped
  <2> SUFFICES ASSUME MCInit PROVE DevicesTyped
    OBVIOUS
  <2>1. Init /\ T!Init /\ C!Init /\ B!Init
    BY DEF MCInit
  <2>2. TypeOK
    <3>1. 0 \in Slots
      BY KeyboardAssumption DEF Slots
    <3> QED
      BY <2>1, <3>1 DEF Init, TypeOK, Points
  <2> QED
    BY <2>1, <2>2, TicksInvInit, ConsoleInvInit, BootInvInit DEF DevicesTyped, ConsoleInv
<1>2. DevicesTyped /\ [MCNext]_mcvars => DevicesTyped'
  <2> SUFFICES ASSUME DevicesTyped, [MCNext]_mcvars PROVE DevicesTyped'
    OBVIOUS
  <2>1. [Next]_vars /\ [T!Next]_timers /\ [C!Next]_console /\ [B!Next]_boot
    BY DEF MCNext, Finished, mcvars, keyboard
  <2>2. TypeOK'
    BY <2>1, KeyboardTypes DEF DevicesTyped
  <2>3. TicksInv' /\ BootInv'
    BY <2>1, TicksInvStep, BootInvStep DEF DevicesTyped
  <2>4. C!TypeOK' /\ LoopInv'
    <3>1. C!TypeOK /\ LoopInv
      BY DEF DevicesTyped
    <3>2. CASE C!Next
      BY <3>1, <3>2, ConsoleTypes, LoopInvStep
    <3>3. CASE UNCHANGED console
      BY <3>1, <3>3 DEF console, C!TypeOK, LoopInv, InWrite
    <3> QED
      BY <2>1, <3>2, <3>3
  <2> QED
    BY <2>2, <2>3, <2>4 DEF DevicesTyped
<1>3. DevicesTyped => MCTypeOK
  BY TicksTyped DEF DevicesTyped, MCTypeOK, BootInv
<1> QED
  BY <1>1, <1>2, <1>3, PTL DEF MCSpec
=============================================================================

----------------------------- MODULE Keyboard -----------------------------
(***************************************************************************)
(* The ring buffer of src/src/keyboard.c, and the receiving side of the    *)
(* UART of src/src/uart.c, which init_uart leaves without FIFOs: one       *)
(* character deep.  Its interrupt is routed to core 0, where uart_handler  *)
(* calls keyboard_handler, which reads the key, writes it to the buffer    *)
(* and wakes channel -2, and then clears the interrupt.  Programs read     *)
(* with the system call sys_keyboard_read on the core they belong to.  The *)
(* kernel runs with interrupts masked, so the steps of one core are only   *)
(* interleaved with the UART and with those of other cores; sleep gives    *)
(* the core away in the middle of read_key_buffer, which does not look     *)
(* again when it is resumed.                                               *)
(***************************************************************************)
EXTENDS Integers, Sequences

CONSTANTS Reader,   \* processes that read keys
          Homes,    \* the cores they may belong to
          Key,      \* what may be typed
          NoKey,    \* the initial contents of the buffer
          Size      \* key_buffer.size, 500 in the code

ASSUME KeyboardAssumption == Size \in Nat \ {0}

VARIABLES dr,      \* the character received and not read yet, of the register DR
          pending, \* the receive interrupt is raised
          buffer, front, end,   \* key_buffer
          home,    \* home[r]: the core of reader r
          rpc,     \* where each reader is in read_key_buffer
          local,   \* local[r]: the variable front of its read_key_buffer
          irq,     \* where core 0 is in uart_handler
          result   \* what the last read_key_buffer returned

vars == <<dr, pending, buffer, front, end, home, rpc, local, irq, result>>

Slots == 0..Size-1

Points == {"user", "sleep", "asleep", "ready", "advance", "return"}

TypeOK ==
  /\ dr \in Key \cup {NoKey} /\ pending \in BOOLEAN
  /\ buffer \in [Slots -> Key \cup {NoKey}]
  /\ front \in Slots /\ end \in Slots
  /\ home \in [Reader -> Homes]
  /\ rpc \in [Reader -> Points]
  /\ local \in [Reader -> Slots]
  /\ irq \in {"idle", "wake", "clear"}
  /\ result \in Key \cup {NoKey}

Init ==
  /\ dr = NoKey /\ pending = FALSE
  /\ buffer = [i \in Slots |-> NoKey] /\ front = 0 /\ end = 0
  /\ home \in [Reader -> Homes]
  /\ rpc = [r \in Reader |-> "user"]
  /\ local = [r \in Reader |-> 0]
  /\ irq = "idle"
  /\ result = NoKey

(* No code of the keyboard is being executed on core c. *)
CoreFree(c) ==
  /\ \A r \in Reader : home[r] = c => rpc[r] \in {"user", "asleep", "ready"}
  /\ c = 0 => irq = "idle"

Go(r, point) == rpc' = [rpc EXCEPT ![r] = point]
-----------------------------------------------------------------------------
(***************************************************************************)
(* The UART receives a key.  One that arrives while the last is still in   *)
(* the register is lost, and changes nothing.                              *)
(***************************************************************************)
KeyArrives(k) ==
  /\ IF dr = NoKey THEN dr' = k /\ pending' = TRUE ELSE UNCHANGED <<dr, pending>>
  /\ UNCHANGED <<buffer, front, end, home, rpc, local, irq, result>>

(* The interrupt is taken: read_char empties the register, which ends the request. *)
TakeKey(k) ==
  /\ CoreFree(0) /\ pending /\ dr = k
  /\ dr' = NoKey /\ pending' = FALSE
  /\ irq' = "wake"

(* Mutant for ImplementsKeyQueue: a full buffer takes one key more. *)
WriteWhenFull(k) ==
  /\ TakeKey(k)
  /\ buffer' = [buffer EXCEPT ![end] = k]
  /\ end' = (end + 1) % Size
  /\ UNCHANGED <<front, home, rpc, local, result>>

(* Mutant for TypeOK: end is stored before it is reduced. *)
WriteUnreduced(k) ==
  /\ TakeKey(k)
  /\ buffer' = [buffer EXCEPT ![end % Size] = k]
  /\ end' = end + 1
  /\ UNCHANGED <<front, home, rpc, local, result>>

(* keyboard_handler up to write_key_buffer, which drops the key if the buffer is full. *)
KeyboardHandler(k) ==
  /\ TakeKey(k)
  /\ IF (end + 1) % Size = front
     THEN UNCHANGED <<buffer, end>>
     ELSE /\ buffer' = [buffer EXCEPT ![end] = k]
          /\ end' = (end + 1) % Size
  /\ UNCHANGED <<front, home, rpc, local, result>>

(* Mutant for KeyEndsRead: keyboard_handler ends without wake_up. *)
NoWakeUp ==
  /\ irq = "wake"
  /\ irq' = "clear"
  /\ UNCHANGED <<dr, pending, buffer, front, end, home, rpc, local, result>>

(* keyboard_handler continues with wake_up(-2), for every sleeper of every core. *)
WakeReaders ==
  /\ irq = "wake"
  /\ irq' = "clear"
  /\ rpc' = [r \in Reader |-> IF rpc[r] = "asleep" THEN "ready" ELSE rpc[r]]
  /\ UNCHANGED <<dr, pending, buffer, front, end, home, local, result>>

(***************************************************************************)
(* uart_handler writes ICR and returns.  The request of a key that has     *)
(* arrived since read_char is cleared with the old one: that key stays in  *)
(* the register, and no later key gets past it.                            *)
(***************************************************************************)
ClearInterrupt ==
  /\ irq = "clear"
  /\ irq' = "idle" /\ pending' = FALSE
  /\ UNCHANGED <<dr, buffer, front, end, home, rpc, local, result>>
-----------------------------------------------------------------------------
(* sys_keyboard_read up to the test of the buffer. *)
ReadKeyBuffer(r) ==
  /\ rpc[r] = "user" /\ CoreFree(home[r])
  /\ local' = [local EXCEPT ![r] = front]
  /\ Go(r, IF front = end THEN "sleep" ELSE "advance")
  /\ UNCHANGED <<dr, pending, buffer, front, end, home, irq, result>>

(* sleep(-2): the process is on the wait list and its core runs another one. *)
Sleep(r) ==
  /\ rpc[r] = "sleep"
  /\ Go(r, "asleep")
  /\ UNCHANGED <<dr, pending, buffer, front, end, home, local, irq, result>>

(* schedule switches to a woken reader, whose sleep returns. *)
Resume(r) ==
  /\ rpc[r] = "ready" /\ CoreFree(home[r])
  /\ Go(r, "advance")
  /\ UNCHANGED <<dr, pending, buffer, front, end, home, local, irq, result>>

(* The store to key_buffer.front. *)
Advance(r) ==
  /\ rpc[r] = "advance"
  /\ front' = (front + 1) % Size
  /\ Go(r, "return")
  /\ UNCHANGED <<dr, pending, buffer, end, home, local, irq, result>>

(* return key_buffer.buffer[front], with the front read before the sleep. *)
Return(r) ==
  /\ rpc[r] = "return"
  /\ result' = buffer[local[r]]
  /\ Go(r, "user")
  /\ UNCHANGED <<dr, pending, buffer, front, end, home, local, irq>>

InKernel(r) == Sleep(r) \/ Resume(r) \/ Advance(r) \/ Return(r)

Next ==
  \/ \E k \in Key : KeyArrives(k) \/ KeyboardHandler(k)
  \/ WakeReaders \/ ClearInterrupt
  \/ \E r \in Reader : ReadKeyBuffer(r) \/ InKernel(r)

Spec == Init /\ [][Next]_vars

(***************************************************************************)
(* Cores do not stop in the kernel, and a ready process gets its core:     *)
(* strong fairness, because other interrupts may use the core in between.  *)
(***************************************************************************)
Fairness ==
  /\ WF_vars(WakeReaders \/ ClearInterrupt)
  /\ \A r \in Reader : WF_vars(Sleep(r) \/ Advance(r) \/ Return(r)) /\ SF_vars(Resume(r))

FairSpec == Spec /\ Fairness
-----------------------------------------------------------------------------
(* One process reads keys, on core 0; size is 500 in the code. *)
OneReader ==
  /\ Size \in Nat /\ Size >= 2
  /\ Homes = {0}
  /\ \E r \in Reader : Reader = {r}

(* The keys between front and end. *)
Contents == [i \in 1..((end - front + Size) % Size) |-> buffer[(front + i - 1) % Size]]

(* The key that the last read has taken, whether it has returned already or not. *)
Taken == IF \E r \in Reader : rpc[r] = "return"
         THEN buffer[local[CHOOSE r \in Reader : rpc[r] = "return"]]
         ELSE result

K == INSTANCE KeyQueue WITH waiting <- Contents, delivered <- Taken, Capacity <- Size - 1

(***************************************************************************)
(* With one reader, on core 0, the ring buffer is the queue of KeyQueue    *)
(* for the keys that keyboard_handler reads, although reader and handler   *)
(* share no lock and the reader does not look again after its sleep: none  *)
(* of them is returned twice, skipped, made up from an empty buffer, or    *)
(* dropped while there is room.                                            *)
(***************************************************************************)
ImplementsKeyQueue == K!Queue

(***************************************************************************)
(* On core 0, a call of read_key_buffer that is in progress while a key is *)
(* in the buffer returns.                                                  *)
(***************************************************************************)
KeyEndsRead ==
  \A r \in Reader : (home[r] = 0 /\ rpc[r] # "user" /\ Contents # <<>>) ~> (rpc[r] = "user")
=============================================================================

------------------------------ MODULE Console ------------------------------
(***************************************************************************)
(* What several cores write to the serial line: printk, which formats into *)
(* a buffer of its own and writes it under print_lock, and sys_write,      *)
(* which calls write_console without the lock (src/src/print.c,            *)
(* src/src/uart.c, src/src/syscall.c).                                     *)
(*                                                                         *)
(* The UART is external.  init_uart leaves its FIFO off, so it holds the   *)
(* character it is sending and one more; flag 1 << 3 says that it holds    *)
(* any.  A character written when there is no room is lost.                *)
(***************************************************************************)
EXTENDS Integers, Sequences, FiniteSets

CONSTANTS Kernel,   \* the cores that call printk
          User,     \* the cores whose programs call sys_write
          Size,     \* characters of a message
          Messages  \* Messages[c]: the messages of core c

Core == Kernel \cup User

Room == 2    \* the characters that fit into the UART

VARIABLES print_lock,   \* the lock word
          pc,           \* where each core is
          i,            \* i[c]: the loop variable of write_console
          left,         \* left[c]: the messages core c has yet to write
          uart,         \* the characters in the UART
          line          \* the characters sent

vars == <<print_lock, pc, i, left, uart, line>>

(* The character at index n of the message of core c that leaves m behind it. *)
Char(c, m, n) == [core |-> c, message |-> m, index |-> n]

Chars == [core : Core, message : Nat, index : 0..Size - 1]

TypeOK ==
  /\ print_lock \in {0, 1}
  /\ pc \in [Core -> {"out", "lock", "busy", "write"}]
  /\ i \in [Core -> 0..Size]
  /\ left \in [Core -> Nat]
  /\ uart \in Seq(Chars) /\ Len(uart) <= Room
  /\ line \in Seq(Chars)

Init ==
  /\ print_lock = 0
  /\ pc = [c \in Core |-> "out"]
  /\ i = [c \in Core |-> 0]
  /\ left = Messages
  /\ uart = <<>> /\ line = <<>>

(* printk or sys_write is called. *)
Call(c) ==
  /\ pc[c] = "out" /\ left[c] > 0
  /\ pc' = [pc EXCEPT ![c] = IF c \in Kernel THEN "lock" ELSE "busy"]
  /\ UNCHANGED <<print_lock, i, left, uart, line>>

(* Mutant for LineIsWhole: the lock word is tested and not set. *)
PrintkUnlocked(c) ==
  /\ pc[c] = "lock" /\ print_lock = 0
  /\ pc' = [pc EXCEPT ![c] = "busy"]
  /\ UNCHANGED <<print_lock, i, left, uart, line>>

(* printk obtains print_lock; its formatting then touches nothing that is shared. *)
Printk(c) ==
  /\ pc[c] = "lock" /\ print_lock = 0
  /\ print_lock' = 1
  /\ pc' = [pc EXCEPT ![c] = "busy"]
  /\ UNCHANGED <<i, left, uart, line>>

(* write_char: while (in_word(UART0_FR) & (1 << 3)). *)
WaitIdle(c) ==
  /\ pc[c] = "busy" /\ i[c] < Size
  /\ uart = <<>>
  /\ pc' = [pc EXCEPT ![c] = "write"]
  /\ UNCHANGED <<print_lock, i, left, uart, line>>

(* write_char: out_word(UART0_DR, c), and the loop of write_console. *)
WriteDR(c) ==
  /\ pc[c] = "write"
  /\ uart' = IF Len(uart) < Room THEN Append(uart, Char(c, left[c] - 1, i[c])) ELSE uart
  /\ pc' = [pc EXCEPT ![c] = "busy"]
  /\ i' = [i EXCEPT ![c] = @ + 1]
  /\ UNCHANGED <<print_lock, left, line>>

(* Mutant for AllWritten: printk returns with the lock. *)
ReturnLocked(c) ==
  /\ pc[c] = "busy" /\ i[c] = Size
  /\ pc' = [pc EXCEPT ![c] = "out"]
  /\ left' = [left EXCEPT ![c] = @ - 1]
  /\ i' = [i EXCEPT ![c] = 0]
  /\ UNCHANGED <<print_lock, uart, line>>

(* The end of write_console; printk then unlocks. *)
Return(c) ==
  /\ pc[c] = "busy" /\ i[c] = Size
  /\ pc' = [pc EXCEPT ![c] = "out"]
  /\ left' = [left EXCEPT ![c] = @ - 1]
  /\ i' = [i EXCEPT ![c] = 0]
  /\ print_lock' = IF c \in Kernel THEN 0 ELSE print_lock
  /\ UNCHANGED <<uart, line>>

(* The UART has sent a character. *)
Transmit ==
  /\ uart # <<>>
  /\ line' = Append(line, Head(uart))
  /\ uart' = Tail(uart)
  /\ UNCHANGED <<print_lock, pc, i, left>>

Step(c) == Printk(c) \/ WaitIdle(c) \/ WriteDR(c) \/ Return(c)

Finished == uart = <<>> /\ \A c \in Core : pc[c] = "out" /\ left[c] = 0

(* spin_lock goes round its loop. *)
Spin(c) == pc[c] = "lock" /\ print_lock = 1 /\ UNCHANGED vars

Next == Transmit \/ \E c \in Core : Call(c) \/ Step(c) \/ Spin(c)

(* Every core runs on in the kernel, and the UART sends what it has. *)
Fairness == WF_vars(Transmit) /\ \A c \in Core : WF_vars(Step(c))

FairSpec == Init /\ [][Next]_vars /\ Fairness
-----------------------------------------------------------------------------
Written == line \o uart

(* The places of the characters of some cores. *)
Of(cores) == {n \in 1..Len(Written) : Written[n].core \in cores}

(***************************************************************************)
(* The messages of printk are not mixed: among its characters on the line  *)
(* each is followed by the next of its message, and a message begins only  *)
(* when the one before is complete.                                        *)
(***************************************************************************)
PrintksWhole ==
  \A m, n \in Of(Kernel) : m < n /\ Of(Kernel) \cap (m + 1..n - 1) = {} =>
     IF Written[m].index = Size - 1 THEN Written[n].index = 0
     ELSE Written[n] = Char(Written[m].core, Written[m].message, Written[m].index + 1)

(***************************************************************************)
(* Every character a core has written is on the line or in the UART, and   *)
(* behind all that the core wrote before it, although the flag was read    *)
(* before other cores wrote.                                               *)
(***************************************************************************)
NothingDropped ==
  \A c \in Core :
     /\ Cardinality(Of({c})) = (Messages[c] - left[c]) * Size + i[c]
     /\ \A n \in Of({c}) : Cardinality({m \in Of({c}) : m < n})
                            = (Messages[c] - 1 - Written[n].message) * Size + Written[n].index

(* With two cores in sys_write beside one in printk, a character can find the UART full. *)
OneWriter == \A c, d \in User : c = d

(* The line shows all that was written, and the messages of printk in one piece. *)
LineIsWhole == PrintksWhole /\ NothingDropped

(* Every call returns: no core is held up for ever by print_lock or by the flag. *)
AllWritten == \A c \in Core : pc[c] # "out" ~> pc[c] = "out"
=============================================================================

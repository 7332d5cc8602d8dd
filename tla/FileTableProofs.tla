-------------------------- MODULE FileTableProofs --------------------------
(***************************************************************************)
(* Open files for any number of processes, files and descriptors.  On one  *)
(* core the counts are exact, so that no descriptor is freed while a       *)
(* process points to it, none is kept when nobody does, and the assertion  *)
(* of put_fcb holds; and a read moves a shared position by its size, or    *)
(* by what the wrap of a 32-bit sum lets through.                          *)
(***************************************************************************)
EXTENDS FileTable, FiniteSetTheorems, FunctionTheorems, TLAPS

-----------------------------------------------------------------------------
DescType == [fcb : File \cup {NULL}, position : Uint32, count : Int]

OpType == [p : Proc \cup {NULL}, fd : Fds \cup {0}, d : Descs \cup {0}, f : File \cup {NULL},
           start : Uint32, size : Uint32, read_size : Int, loaded : Int]

(***************************************************************************)
(* What holds of the tables on any number of cores.  There the counts may  *)
(* be anything, as the loads and stores of two cores are not ordered.      *)
(***************************************************************************)
Tables ==
  /\ count \in [File -> Int]
  /\ desc \in [Descs -> DescType]
  /\ file \in [Proc -> [Fds -> Descs \cup {0}]]
  /\ alive \subseteq Proc

Labels == {"user"} \cup Opening \cup Closing \cup Reading \cup Stopped

(* What the locals of a core in a call are at label l. *)
Locals(l, r) ==
  /\ l \in Opening \cup Closing \cup Reading => r.p \in Proc /\ r.fd \in Fds /\ r.d \in Descs
  /\ l \in Opening => r.f \in File

Calls ==
  /\ pc \in [Core -> Labels]
  /\ op \in [Core -> OpType]
  /\ \A c \in Core : Locals(pc[c], op[c])

-----------------------------------------------------------------------------
(* Sums of type uint32_t. *)
LEMMA Wraps ==
  /\ 0 \in Uint32 /\ \A x \in Int : x % Word \in Uint32
  /\ \A x \in Nat : x < Word => x % Word = x
<1>1. Word \in Nat \ {0}
  BY FileTableAssumption
<1> QED
  BY <1>1 DEF Uint32

(* The references of one process are countable. *)
LEMMA RefsAreNaturals ==
  ASSUME NEW p \in Proc
  PROVE  /\ \A d : RefsTo(p, d) \in Nat
         /\ \A f : FileRefs(p, f) \in Nat
<1>1. IsFiniteSet(Fds)
  BY FileTableAssumption, FS_Interval DEF Fds
<1>2. \A S \in SUBSET Fds : Cardinality(S) \in Nat
  BY <1>1, FS_Subset, FS_CardinalityType
<1> QED
  BY <1>2 DEF RefsTo, FileRefs

(* A core goes to label l with locals r, and the other cores stay. *)
LEMMA CallsMove ==
  ASSUME Calls, NEW c \in Core, NEW l \in Labels, Goto(c, l), NEW r \in OpType,
         op' = [op EXCEPT ![c] = r], Locals(l, r)
  PROVE  Calls'
<1>1. pc' \in [Core -> Labels]
  BY DEF Calls, Goto
<1>2. op' \in [Core -> OpType]
  BY DEF Calls
<1>3. pc'[c] = l /\ op'[c] = r /\ \A k \in Core : k # c => pc'[k] = pc[k] /\ op'[k] = op[k]
  BY DEF Calls, Goto
<1>4. \A k \in Core : Locals(pc'[k], op'[k])
  BY <1>3 DEF Calls
<1> QED
  BY <1>1, <1>2, <1>4 DEF Calls

LEMMA CallTyped ==
  ASSUME NEW p \in Proc, NEW fd \in Fds, NEW d \in Descs, NEW f \in File \cup {NULL},
         NEW start \in Uint32, NEW size \in Uint32
  PROVE  \E r \in OpType : /\ r = Call(p, fd, d, f, start, size)
                           /\ r.p = p /\ r.fd = fd /\ r.d = d /\ r.f = f
                           /\ r.start = start /\ r.size = size
<1>1. Call(p, fd, d, f, start, size) \in OpType
  BY DEF Call, OpType
<1>2. /\ Call(p, fd, d, f, start, size).p = p /\ Call(p, fd, d, f, start, size).fd = fd
      /\ Call(p, fd, d, f, start, size).d = d /\ Call(p, fd, d, f, start, size).f = f
      /\ Call(p, fd, d, f, start, size).start = start /\ Call(p, fd, d, f, start, size).size = size
  BY DEF Call
<1> WITNESS Call(p, fd, d, f, start, size) \in OpType
<1> QED
  BY <1>2

LEMMA NoOpTyped == NoOp \in OpType
BY Wraps DEF NoOp, Call, OpType

LEMMA LoadTyped ==
  ASSUME NEW r \in OpType, NEW n \in Int
  PROVE  \E s \in OpType : /\ s = [r EXCEPT !.loaded = n]
                           /\ s.p = r.p /\ s.fd = r.fd /\ s.d = r.d /\ s.f = r.f
                           /\ s.start = r.start /\ s.size = r.size /\ s.read_size = r.read_size
                           /\ s.loaded = n
<1>1. [r EXCEPT !.loaded = n] \in OpType
  BY DEF OpType
<1> WITNESS [r EXCEPT !.loaded = n] \in OpType
<1> QED
  BY DEF OpType

LEMMA ReadSizeTyped ==
  ASSUME NEW r \in OpType, NEW n \in Int
  PROVE  \E s \in OpType : /\ s = [r EXCEPT !.read_size = n]
                           /\ s.p = r.p /\ s.fd = r.fd /\ s.d = r.d /\ s.f = r.f
                           /\ s.start = r.start /\ s.size = r.size /\ s.read_size = n
<1>1. [r EXCEPT !.read_size = n] \in OpType
  BY DEF OpType
<1> WITNESS [r EXCEPT !.read_size = n] \in OpType
<1> QED
  BY DEF OpType

LEMMA FreeDescTyped ==
  FreeDesc \in DescType /\ FreeDesc.fcb = NULL /\ FreeDesc.count = 0 /\ FreeDesc.position = 0
BY Wraps DEF FreeDesc, DescType

(* One field of a descriptor is stored. *)
LEMMA FcbTyped ==
  ASSUME NEW d \in DescType, NEW f \in File
  PROVE  \E r \in DescType : /\ r = [d EXCEPT !.fcb = f]
                             /\ r.fcb = f /\ r.count = d.count /\ r.position = d.position
<1>1. [d EXCEPT !.fcb = f] \in DescType
  BY DEF DescType
<1> WITNESS [d EXCEPT !.fcb = f] \in DescType
<1> QED
  BY DEF DescType

LEMMA CountTyped ==
  ASSUME NEW d \in DescType, NEW n \in Int
  PROVE  \E r \in DescType : /\ r = [d EXCEPT !.count = n]
                             /\ r.fcb = d.fcb /\ r.count = n /\ r.position = d.position
<1>1. [d EXCEPT !.count = n] \in DescType
  BY DEF DescType
<1> WITNESS [d EXCEPT !.count = n] \in DescType
<1> QED
  BY DEF DescType

LEMMA PositionTyped ==
  ASSUME NEW d \in DescType, NEW n \in Uint32
  PROVE  \E r \in DescType : /\ r = [d EXCEPT !.position = n]
                             /\ r.fcb = d.fcb /\ r.count = d.count /\ r.position = n
<1>1. [d EXCEPT !.position = n] \in DescType
  BY DEF DescType
<1> WITNESS [d EXCEPT !.position = n] \in DescType
<1> QED
  BY DEF DescType

LEMMA DropTyped ==
  ASSUME NEW d \in DescType, NEW n \in Nat
  PROVE  /\ Drop(d, n) \in DescType
         /\ Drop(d, n).count = d.count - n
         /\ Drop(d, n).position = d.position
         /\ Drop(d, n).fcb = IF d.count = n THEN NULL ELSE d.fcb
<1>1. /\ d.count \in Int /\ d.position \in Uint32 /\ d.fcb \in File \cup {NULL}
      /\ d = [fcb |-> d.fcb, position |-> d.position, count |-> d.count]
  BY DEF DescType
<1>2. PICK x \in File \cup {NULL} : x = IF d.count = n THEN NULL ELSE d.fcb
  BY <1>1
<1>3. Drop(d, n) = [fcb |-> x, position |-> d.position, count |-> d.count - n]
  BY <1>1, <1>2 DEF Drop
<1> QED
  BY <1>1, <1>2, <1>3 DEF DescType
-----------------------------------------------------------------------------
(* The invariant for any number of cores, step by step. *)
LEMMA TablesInit ==
  ASSUME Init PROVE Tables /\ Calls
<1>1. Tables
  BY FreeDescTyped, FileTableAssumption DEF Init, Tables
<1>2. Calls
  BY NoOpTyped DEF Init, Calls, Locals, Labels, Opening, Closing, Reading
<1> QED
  BY <1>1, <1>2

(* The calls of GetFcbLoad and PutFcbLoad that load the count of f. *)
LEMMA LoadCall ==
  ASSUME Tables, Calls, NEW c \in Core, NEW l \in Labels, Goto(c, l), op[c].f \in File,
         op' = [op EXCEPT ![c].loaded = count[op[c].f]], Locals(l, op[c])
  PROVE  Calls' /\ op'[c].loaded = count[op[c].f]
<1>1. PICK n \in Int : n = count[op[c].f]
  BY DEF Tables
<1>2. op[c] \in OpType
  BY DEF Calls
<1>3. PICK r \in OpType : /\ r = [op[c] EXCEPT !.loaded = n]
                          /\ r.p = op[c].p /\ r.fd = op[c].fd /\ r.d = op[c].d /\ r.f = op[c].f
                          /\ r.loaded = n
  BY <1>2, LoadTyped
<1>4. op' = [op EXCEPT ![c] = r]
  BY <1>1, <1>3 DEF Calls
<1>5. Locals(l, r)
  BY <1>3 DEF Locals
<1>6. Calls'
  BY <1>4, <1>5, CallsMove
<1> QED
  BY <1>1, <1>3, <1>4, <1>6 DEF Calls

LEMMA TablesKernel ==
  ASSUME Tables, Calls, NEW c \in Core, Kernel(c)
  PROVE  Tables' /\ Calls'
<1>0. op[c] \in OpType /\ Locals(pc[c], op[c]) /\ op[c].loaded \in Int /\ op[c].f \in File \cup {NULL}
  BY DEF Calls, OpType
<1>u. ASSUME UNCHANGED op PROVE op' = [op EXCEPT ![c] = op[c]]
  BY <1>u DEF Calls
<1>r. ASSUME Goto(c, "user"), op' = [op EXCEPT ![c] = NoOp] PROVE Calls'
  <2>1. Locals("user", NoOp) /\ "user" \in Labels
    BY DEF Locals, Opening, Closing, Reading, Labels
  <2> QED
    BY <1>r, <2>1, NoOpTyped, CallsMove
<1>1. CASE GetFcbLoad(c)
  <2>1. op[c].f \in File /\ Locals("get_fcb_store", op[c]) /\ "get_fcb_store" \in Labels
    BY <1>0, <1>1 DEF GetFcbLoad, Locals, Opening, Closing, Reading, Stopped, Labels
  <2>2. Goto(c, "get_fcb_store") /\ op' = [op EXCEPT ![c].loaded = count[op[c].f]]
    BY <1>1 DEF GetFcbLoad
  <2>3. Calls'
    BY <2>1, <2>2, LoadCall
  <2>4. count' = count /\ desc' = desc /\ file' = file /\ alive' = alive
    BY <1>1 DEF GetFcbLoad
  <2> QED
    BY <2>3, <2>4 DEF Tables
<1>2. CASE GetFcbStore(c)
  <2>1. Locals("open_clear", op[c]) /\ "open_clear" \in Labels
    BY <1>0, <1>2 DEF GetFcbStore, Locals, Opening, Closing, Reading, Stopped, Labels
  <2>2. Goto(c, "open_clear") /\ op' = [op EXCEPT ![c] = op[c]]
    BY <1>2, <1>u DEF GetFcbStore
  <2>3. Calls'
    BY <1>0, <2>1, <2>2, CallsMove
  <2>n. PICK n \in Int : n = op[c].loaded + 1
    BY <1>0
  <2>m. count' = [count EXCEPT ![op[c].f] = n]
    BY <1>2, <2>n DEF GetFcbStore
  <2>4. count' \in [File -> Int]
    BY <2>m DEF Tables
  <2>5. desc' = desc /\ file' = file /\ alive' = alive
    BY <1>2 DEF GetFcbStore
  <2> QED
    BY <2>3, <2>4, <2>5 DEF Tables
<1>3. CASE OpenClear(c) \/ OpenFcb(c) \/ OpenCount(c)
  <2>1. op[c].f \in File /\ op[c].d \in Descs /\ desc[op[c].d] \in DescType
    <3>1. op[c].f \in File /\ op[c].d \in Descs
      BY <1>0, <1>3 DEF OpenClear, OpenFcb, OpenCount, Locals, Opening, Closing, Reading
    <3> QED
      BY <3>1 DEF Tables
  <2>2. PICK l \in {"open_fcb", "open_count", "open_link"} : Goto(c, l)
    BY <1>3 DEF OpenClear, OpenFcb, OpenCount
  <2>3. l \in Labels /\ Locals(l, op[c])
    BY <1>0, <1>3 DEF OpenClear, OpenFcb, OpenCount, Locals, Opening, Closing, Reading, Labels
  <2>4. op' = [op EXCEPT ![c] = op[c]] /\ count' = count /\ file' = file /\ alive' = alive
    BY <1>3, <1>u DEF OpenClear, OpenFcb, OpenCount
  <2>5. Calls'
    BY <1>0, <2>2, <2>3, <2>4, CallsMove
  <2>6. PICK r \in DescType : desc' = [desc EXCEPT ![op[c].d] = r]
    <3>1. CASE OpenClear(c)
      BY <3>1, FreeDescTyped DEF OpenClear
    <3>2. CASE OpenFcb(c)
      <4>1. PICK r \in DescType : r = [desc[op[c].d] EXCEPT !.fcb = op[c].f]
        BY <2>1, FcbTyped
      <4>2. desc' = [desc EXCEPT ![op[c].d] = r]
        BY <2>1, <3>2, <4>1 DEF OpenFcb, Tables
      <4> QED
        BY <4>2
    <3>3. CASE OpenCount(c)
      <4>1. PICK n \in Int : n = 1
        OBVIOUS
      <4>2. PICK r \in DescType : r = [desc[op[c].d] EXCEPT !.count = n]
        BY <2>1, CountTyped
      <4>3. desc' = [desc EXCEPT ![op[c].d] = r]
        BY <2>1, <3>3, <4>1, <4>2 DEF OpenCount, Tables
      <4> QED
        BY <4>3
    <3> QED
      BY <1>3, <3>1, <3>2, <3>3
  <2>7. Tables'
    BY <2>1, <2>4, <2>6 DEF Tables
  <2> QED
    BY <2>5, <2>7
<1>7. CASE OpenLink(c)
  <2>1. op[c].p \in Proc /\ op[c].fd \in Fds /\ op[c].d \in Descs
    BY <1>0, <1>7 DEF OpenLink, Locals, Opening, Closing, Reading
  <2>2. Tables'
    BY <1>7, <2>1 DEF OpenLink, Tables
  <2>3. Calls'
    BY <1>7, <1>r DEF OpenLink
  <2> QED
    BY <2>2, <2>3
<1>8. CASE ReadRaw(c)
  <2>1. count' = count /\ desc' = desc /\ file' = file /\ alive' = alive
    BY <1>8 DEF ReadRaw
  <2>2. /\ op[c].d \in Descs /\ op[c].start \in Int /\ op[c].size \in Int
        /\ desc[op[c].d].fcb \in File \cup {NULL}
    <3>1. op[c].d \in Descs
      BY <1>0, <1>8 DEF ReadRaw, Locals, Opening, Closing, Reading
    <3> QED
      BY <1>0, <3>1, FileTableAssumption DEF Tables, DescType, OpType, Uint32
  <2>3. \A l \in {"fault", "assert_raw", "read_load"} : l \in Labels /\ Locals(l, op[c])
    BY <1>0, <1>8 DEF ReadRaw, Locals, Opening, Closing, Reading, Stopped, Labels
  <2>4. CASE \E l \in {"fault", "assert_raw"} : Goto(c, l) /\ UNCHANGED op
    <3>1. PICK l \in {"fault", "assert_raw"} : Goto(c, l) /\ op' = [op EXCEPT ![c] = op[c]]
      BY <1>u, <2>4
    <3>2. Calls'
      BY <1>0, <2>3, <3>1, CallsMove
    <3> QED
      BY <2>1, <3>2 DEF Tables
  <2>5. CASE /\ desc[op[c].d].fcb # NULL /\ Goto(c, "read_load")
             /\ op' = [op EXCEPT ![c].read_size = ReadSize(desc[op[c].d].fcb, op[c].start, op[c].size)]
    <3>1. PICK n \in Int : n = ReadSize(desc[op[c].d].fcb, op[c].start, op[c].size)
      BY <2>2, <2>5, FileTableAssumption DEF ReadSize
    <3>2. PICK r \in OpType : /\ r = [op[c] EXCEPT !.read_size = n]
                              /\ r.p = op[c].p /\ r.fd = op[c].fd /\ r.d = op[c].d /\ r.f = op[c].f
      BY <1>0, ReadSizeTyped
    <3>3. op' = [op EXCEPT ![c] = r]
      BY <2>5, <3>1, <3>2 DEF Calls
    <3>4. Locals("read_load", r)
      BY <2>3, <3>2 DEF Locals
    <3>5. Calls'
      BY <2>3, <2>5, <3>3, <3>4, CallsMove
    <3> QED
      BY <2>1, <3>5 DEF Tables
  <2> QED
    BY <1>8, <2>4, <2>5 DEF ReadRaw
<1>9. CASE ReadLoad(c)
  <2>1. count' = count /\ desc' = desc /\ file' = file /\ alive' = alive
    BY <1>9 DEF ReadLoad
  <2>2. "read_store" \in Labels /\ Locals("read_store", op[c]) /\ op[c].d \in Descs
    BY <1>0, <1>9 DEF ReadLoad, Locals, Opening, Closing, Reading, Labels
  <2>3. PICK n \in Int : n = desc[op[c].d].position
    BY <2>2, FileTableAssumption DEF Tables, DescType, Uint32
  <2>4. PICK r \in OpType : /\ r = [op[c] EXCEPT !.loaded = n]
                            /\ r.p = op[c].p /\ r.fd = op[c].fd /\ r.d = op[c].d /\ r.f = op[c].f
    BY <1>0, LoadTyped
  <2>5. op' = [op EXCEPT ![c] = r] /\ Goto(c, "read_store")
    BY <1>9, <2>3, <2>4 DEF ReadLoad, Calls
  <2>6. Locals("read_store", r)
    BY <2>2, <2>4 DEF Locals
  <2>7. Calls'
    BY <2>2, <2>5, <2>6, CallsMove
  <2> QED
    BY <2>1, <2>7 DEF Tables
<1>10. CASE ReadStore(c)
  <2>1. op[c].d \in Descs /\ desc[op[c].d] \in DescType
    <3>1. op[c].d \in Descs
      BY <1>0, <1>10 DEF ReadStore, Locals, Opening, Closing, Reading
    <3> QED
      BY <3>1 DEF Tables
  <2>2. PICK n \in Uint32 : n = (op[c].loaded + op[c].read_size) % Word
    <3>1. op[c].loaded + op[c].read_size \in Int
      BY <1>0 DEF OpType
    <3> QED
      BY <3>1, Wraps
  <2>3. PICK r \in DescType : r = [desc[op[c].d] EXCEPT !.position = n]
    BY <2>1, PositionTyped
  <2>4. desc' = [desc EXCEPT ![op[c].d] = r]
    BY <1>10, <2>1, <2>2, <2>3 DEF ReadStore, Tables
  <2>5. Tables'
    BY <1>10, <2>1, <2>4 DEF ReadStore, Tables
  <2>6. Calls'
    BY <1>10, <1>r DEF ReadStore
  <2> QED
    BY <2>5, <2>6
<1>4. CASE PutFcbLoad(c)
  <2>1. /\ Locals("fault", op[c]) /\ Locals("assert", op[c]) /\ Locals("put_fcb_store", op[c])
        /\ {"fault", "assert", "put_fcb_store"} \subseteq Labels
    BY <1>0, <1>4 DEF PutFcbLoad, Locals, Opening, Closing, Reading, Stopped, Labels
  <2>2. CASE op[c].f = NULL
    <3>1. Goto(c, "fault") /\ op' = [op EXCEPT ![c] = op[c]]
      BY <1>4, <1>u, <2>2 DEF PutFcbLoad
    <3>2. Calls'
      BY <1>0, <2>1, <3>1, CallsMove
    <3>3. count' = count /\ desc' = desc /\ file' = file /\ alive' = alive
      BY <1>4 DEF PutFcbLoad
    <3> QED
      BY <3>2, <3>3 DEF Tables
  <2>3. CASE op[c].f # NULL
    <3>1. PICK l \in {"put_fcb_store", "assert"} : Goto(c, l)
      BY <1>4, <2>3 DEF PutFcbLoad
    <3>2. op' = [op EXCEPT ![c].loaded = count[op[c].f]] /\ op[c].f \in File
      BY <1>0, <1>4, <2>3 DEF PutFcbLoad
    <3>3. l \in Labels /\ Locals(l, op[c])
      BY <2>1
    <3>4. Calls'
      BY <3>1, <3>2, <3>3, LoadCall
    <3>5. count' = count /\ desc' = desc /\ file' = file /\ alive' = alive
      BY <1>4 DEF PutFcbLoad
    <3> QED
      BY <3>4, <3>5 DEF Tables
  <2> QED
    BY <2>2, <2>3
<1>5. CASE PutFcbStore(c)
  <2>1. Locals("close_desc", op[c]) /\ "close_desc" \in Labels
    BY <1>0, <1>5 DEF PutFcbStore, Locals, Opening, Closing, Reading, Stopped, Labels
  <2>2. Goto(c, "close_desc") /\ op' = [op EXCEPT ![c] = op[c]]
    BY <1>5, <1>u DEF PutFcbStore
  <2>3. Calls'
    BY <1>0, <2>1, <2>2, CallsMove
  <2>n. PICK n \in Int : n = op[c].loaded - 1
    BY <1>0
  <2>m. count' = [count EXCEPT ![op[c].f] = n]
    BY <1>5, <2>n DEF PutFcbStore
  <2>4. count' \in [File -> Int]
    BY <2>m DEF Tables
  <2>5. desc' = desc /\ file' = file /\ alive' = alive
    BY <1>5 DEF PutFcbStore
  <2> QED
    BY <2>3, <2>4, <2>5 DEF Tables
<1>6. CASE CloseDesc(c)
  <2>1. op[c].p \in Proc /\ op[c].fd \in Fds /\ op[c].d \in Descs
    BY <1>0, <1>6 DEF CloseDesc, Locals, Opening, Closing, Reading
  <2>2. Calls'
    BY <1>6, <1>r DEF CloseDesc
  <2>3. PICK r \in DescType : r = Drop(desc[op[c].d], 1)
    BY <2>1, DropTyped DEF Tables
  <2>4. desc' = [desc EXCEPT ![op[c].d] = r]
    BY <1>6, <2>1, <2>3 DEF CloseDesc, Tables
  <2>5. Tables'
    BY <1>6, <2>1, <2>4 DEF CloseDesc, Tables
  <2> QED
    BY <2>2, <2>5
<1> QED
  BY <1>1, <1>2, <1>3, <1>4, <1>5, <1>6, <1>7, <1>8, <1>9, <1>10 DEF Kernel

LEMMA RaiseTyped ==
  ASSUME NEW d \in DescType, NEW n \in Nat
  PROVE  /\ [d EXCEPT !.count = @ + n] \in DescType
         /\ [d EXCEPT !.count = @ + n].position = d.position
         /\ [d EXCEPT !.count = @ + n].fcb = d.fcb
         /\ [d EXCEPT !.count = @ + n].count = d.count + n
BY DEF DescType

LEMMA TablesOpen ==
  ASSUME Tables, Calls, NEW p \in Proc, NEW f \in File, Open(p, f)
  PROVE  Tables' /\ Calls'
<1>1. PICK fd \in Fds, d \in Descs :
         op' = [op EXCEPT ![CoreOf[p]] = Call(p, fd, d, f, 0, 0)]
  BY DEF Open
<1>2. PICK r \in OpType : /\ r = Call(p, fd, d, f, 0, 0)
                          /\ r.p = p /\ r.fd = fd /\ r.d = d /\ r.f = f
  BY CallTyped, Wraps
<1>3. CoreOf[p] \in Core
  BY FileTableAssumption
<1>4. Goto(CoreOf[p], "get_fcb") /\ "get_fcb" \in Labels /\ Locals("get_fcb", r)
  BY <1>2 DEF Open, Labels, Opening, Closing, Reading, Locals
<1>5. Calls'
  BY <1>1, <1>2, <1>3, <1>4, CallsMove
<1>6. count' = count /\ desc' = desc /\ file' = file /\ alive' = alive
  BY DEF Open
<1> QED
  BY <1>5, <1>6 DEF Tables

LEMMA TablesClose ==
  ASSUME Tables, Calls, NEW p \in Proc, NEW fd \in Fds, Close(p, fd)
  PROVE  Tables' /\ Calls'
<1>1. PICK d \in Descs : d = file[p][fd]
  BY DEF Close, Tables
<1>2. PICK f \in File \cup {NULL} : f = desc[d].fcb
  BY DEF Tables, DescType
<1>3. PICK r \in OpType : /\ r = Call(p, fd, d, f, 0, 0)
                          /\ r.p = p /\ r.fd = fd /\ r.d = d /\ r.f = f
  BY CallTyped, Wraps
<1>4. CoreOf[p] \in Core
  BY FileTableAssumption
<1>5. op' = [op EXCEPT ![CoreOf[p]] = r]
  BY <1>1, <1>2, <1>3 DEF Close
<1>6. Goto(CoreOf[p], "put_fcb") /\ "put_fcb" \in Labels /\ Locals("put_fcb", r)
  BY <1>3 DEF Close, Labels, Opening, Closing, Reading, Locals
<1>7. Calls'
  BY <1>4, <1>5, <1>6, CallsMove
<1>8. count' = count /\ desc' = desc /\ file' = file /\ alive' = alive
  BY DEF Close
<1> QED
  BY <1>7, <1>8 DEF Tables

LEMMA TablesReadFile ==
  ASSUME Tables, Calls, NEW p \in Proc, NEW fd \in Fds, NEW size \in Uint32, ReadFile(p, fd, size)
  PROVE  Tables' /\ Calls'
<1>1. PICK d \in Descs : d = file[p][fd]
  BY DEF ReadFile, PassesTest, Tables
<1>2. CoreOf[p] \in Core /\ count' = count /\ desc' = desc /\ file' = file /\ alive' = alive
  BY FileTableAssumption DEF ReadFile, PassesTest
<1>3. CASE desc[d].fcb = NULL
  <2>1. Goto(CoreOf[p], "fault") /\ op' = op
    BY <1>1, <1>3 DEF ReadFile, PassesTest
  <2>2. op' = [op EXCEPT ![CoreOf[p]] = op[CoreOf[p]]] /\ op[CoreOf[p]] \in OpType
    BY <1>2, <2>1 DEF Calls
  <2>3. "fault" \in Labels /\ Locals("fault", op[CoreOf[p]])
    BY DEF Labels, Opening, Closing, Reading, Stopped, Locals
  <2>4. Calls'
    BY <1>2, <2>1, <2>2, <2>3, CallsMove
  <2> QED
    BY <1>2, <2>4 DEF Tables
<1>4. CASE desc[d].fcb # NULL
  <2>1. desc[d].fcb \in File /\ desc[d].position \in Uint32
    BY <1>4 DEF Tables, DescType
  <2>2. PICK r \in OpType : /\ r = Call(p, fd, d, desc[d].fcb, desc[d].position, size)
                            /\ r.p = p /\ r.fd = fd /\ r.d = d
    BY <2>1, CallTyped
  <2>3. Goto(CoreOf[p], "read_raw") /\ op' = [op EXCEPT ![CoreOf[p]] = r]
    BY <1>1, <1>4, <2>2 DEF ReadFile, PassesTest
  <2>4. "read_raw" \in Labels /\ Locals("read_raw", r)
    BY <2>2 DEF Labels, Opening, Closing, Reading, Locals
  <2>5. Calls'
    BY <1>2, <2>3, <2>4, CallsMove
  <2> QED
    BY <1>2, <2>5 DEF Tables
<1> QED
  BY <1>3, <1>4

LEMMA TablesForkFiles ==
  ASSUME Tables, Calls, NEW p \in Proc, NEW q \in Proc, ForkFiles(p, q)
  PROVE  Tables' /\ Calls'
<1>1. Calls'
  BY DEF ForkFiles, Calls
<1>2. \A d \in Descs : desc'[d] \in DescType
  BY RefsAreNaturals, RaiseTyped DEF ForkFiles, Tables
<1>3. desc' \in [Descs -> DescType]
  BY <1>2 DEF ForkFiles
<1>4. count' \in [File -> Int]
  BY RefsAreNaturals DEF ForkFiles, Tables
<1>5. Tables'
  BY <1>3, <1>4 DEF ForkFiles, Tables
<1> QED
  BY <1>1, <1>5

LEMMA TablesReapFiles ==
  ASSUME Tables, Calls, NEW p \in Proc, ReapFiles(p)
  PROVE  Tables' /\ Calls'
<1>1. Calls'
  BY DEF ReapFiles, Calls
<1>2. \A d \in Descs : desc'[d] \in DescType
  BY RefsAreNaturals, DropTyped DEF ReapFiles, Tables
<1>3. desc' \in [Descs -> DescType]
  BY <1>2 DEF ReapFiles
<1>4. count' \in [File -> Int]
  BY RefsAreNaturals DEF ReapFiles, Tables
<1>5. Tables'
  BY <1>3, <1>4 DEF ReapFiles, Tables
<1> QED
  BY <1>1, <1>5

LEMMA TablesStep ==
  ASSUME Tables, Calls, [Next]_vars
  PROVE  Tables' /\ Calls'
<1>1. CASE UNCHANGED vars
  BY <1>1 DEF vars, Tables, Calls
<1>2. ASSUME NEW c \in Core, Halted(c) PROVE UNCHANGED vars
  BY <1>2 DEF Halted
<1> QED
  BY <1>1, <1>2, TablesKernel, TablesOpen, TablesClose, TablesReadFile, TablesForkFiles,
     TablesReapFiles DEF Next
-----------------------------------------------------------------------------
(* Counting references. *)

(* The slots of process p whose index is in S. *)
Row(p, S) == {x \in Proc \X Fds : x[1] = p /\ x[2] \in S}

LEMMA SlotsFinite ==
  /\ IsFiniteSet(Fds)
  /\ IsFiniteSet(Proc \X Fds)
<1>1. IsFiniteSet(Fds)
  BY FileTableAssumption, FS_Interval DEF Fds
<1>2. IsFiniteSet(Proc)
  BY FileTableAssumption
<1> QED
  BY <1>1, <1>2, FS_Product

LEMMA RefsFinite ==
  /\ \A d : IsFiniteSet(AllRefs(d)) /\ Cardinality(AllRefs(d)) \in Nat
  /\ \A f : IsFiniteSet(AllFileRefs(f)) /\ Cardinality(AllFileRefs(f)) \in Nat
<1>1. \A S \in SUBSET (Proc \X Fds) : IsFiniteSet(S) /\ Cardinality(S) \in Nat
  BY SlotsFinite, FS_Subset, FS_CardinalityType
<1> QED
  BY <1>1 DEF AllRefs, AllFileRefs

LEMMA RowCounts ==
  ASSUME NEW p \in Proc, NEW S \in SUBSET Fds
  PROVE  IsFiniteSet(Row(p, S)) /\ Cardinality(Row(p, S)) = Cardinality(S)
<1> DEFINE g == [i \in S |-> <<p, i>>]
<1>1. g \in [S -> Row(p, S)]
  BY DEF Row
<1>2. \A i, j \in S : g[i] = g[j] => i = j
  OBVIOUS
<1>3. \A x \in Row(p, S) : \E i \in S : g[i] = x
  BY DEF Row
<1> HIDE DEF g
<1>4. g \in Bijection(S, Row(p, S))
  BY <1>1, <1>2, <1>3, Fun_IsBij
<1>5. ExistsBijection(S, Row(p, S))
  BY <1>4, Fun_ExistsBij
<1>6. IsFiniteSet(S)
  BY SlotsFinite, FS_Subset
<1> QED
  BY <1>5, <1>6, FS_Bijection

(* A disjoint set is added, or a subset removed. *)
LEMMA AddSet ==
  ASSUME NEW S, IsFiniteSet(S), NEW T, IsFiniteSet(T), S \cap T = {}
  PROVE  Cardinality(S \cup T) = Cardinality(S) + Cardinality(T)
<1>1. Cardinality(S \cup T) = Cardinality(S) + Cardinality(T) - Cardinality(S \cap T)
  BY FS_Union
<1>2. Cardinality(S) \in Nat /\ Cardinality(T) \in Nat /\ Cardinality(S \cap T) = 0
  BY FS_CardinalityType, FS_EmptySet
<1> QED
  BY <1>1, <1>2

LEMMA RemoveSet ==
  ASSUME NEW S, IsFiniteSet(S), NEW T, T \subseteq S
  PROVE  /\ Cardinality(S \ T) = Cardinality(S) - Cardinality(T)
         /\ Cardinality(T) \in Nat /\ Cardinality(T) <= Cardinality(S)
<1>1. S \cap T = T
  OBVIOUS
<1> QED
  BY <1>1, FS_Difference, FS_Subset, FS_CardinalityType, ZenonT(40)

(* The slots of a process that refer to a descriptor and to a file. *)
SlotsTo(p, d) == {i \in Fds : file[p][i] = d}
SlotsToFile(p, f) == {i \in Fds : file[p][i] # 0 /\ desc[file[p][i]].fcb = f}

LEMMA RowRefs ==
  ASSUME NEW p \in Proc
  PROVE  /\ \A d : /\ Row(p, SlotsTo(p, d)) \subseteq AllRefs(d)
                   /\ Cardinality(Row(p, SlotsTo(p, d))) = RefsTo(p, d)
                   /\ IsFiniteSet(Row(p, SlotsTo(p, d)))
                   /\ RefsTo(p, d) <= Cardinality(AllRefs(d))
         /\ \A f : /\ Row(p, SlotsToFile(p, f)) \subseteq AllFileRefs(f)
                   /\ Cardinality(Row(p, SlotsToFile(p, f))) = FileRefs(p, f)
                   /\ IsFiniteSet(Row(p, SlotsToFile(p, f)))
                   /\ FileRefs(p, f) <= Cardinality(AllFileRefs(f))
<1>1. ASSUME NEW d
      PROVE  /\ Row(p, SlotsTo(p, d)) \subseteq AllRefs(d)
             /\ Cardinality(Row(p, SlotsTo(p, d))) = RefsTo(p, d)
             /\ IsFiniteSet(Row(p, SlotsTo(p, d)))
             /\ RefsTo(p, d) <= Cardinality(AllRefs(d))
  <2>1. Row(p, SlotsTo(p, d)) \subseteq AllRefs(d)
    BY DEF Row, SlotsTo, AllRefs, Pointer
  <2>2. SlotsTo(p, d) \subseteq Fds /\ Cardinality(SlotsTo(p, d)) = RefsTo(p, d)
    BY DEF SlotsTo, RefsTo
  <2>3. IsFiniteSet(Row(p, SlotsTo(p, d))) /\ Cardinality(Row(p, SlotsTo(p, d))) = Cardinality(SlotsTo(p, d))
    BY <2>2, RowCounts
  <2>4. IsFiniteSet(AllRefs(d))
    BY RefsFinite
  <2>5. Cardinality(Row(p, SlotsTo(p, d))) <= Cardinality(AllRefs(d))
    BY <2>1, <2>4, RemoveSet
  <2> QED
    BY <2>1, <2>2, <2>3, <2>5
<1>2. ASSUME NEW f
      PROVE  /\ Row(p, SlotsToFile(p, f)) \subseteq AllFileRefs(f)
             /\ Cardinality(Row(p, SlotsToFile(p, f))) = FileRefs(p, f)
             /\ IsFiniteSet(Row(p, SlotsToFile(p, f)))
             /\ FileRefs(p, f) <= Cardinality(AllFileRefs(f))
  <2>1. Row(p, SlotsToFile(p, f)) \subseteq AllFileRefs(f)
    BY DEF Row, SlotsToFile, AllFileRefs, Pointer
  <2>2. SlotsToFile(p, f) \subseteq Fds /\ Cardinality(SlotsToFile(p, f)) = FileRefs(p, f)
    BY DEF SlotsToFile, FileRefs
  <2>3. IsFiniteSet(Row(p, SlotsToFile(p, f))) /\ Cardinality(Row(p, SlotsToFile(p, f))) = Cardinality(SlotsToFile(p, f))
    BY <2>2, RowCounts
  <2>4. IsFiniteSet(AllFileRefs(f))
    BY RefsFinite
  <2>5. Cardinality(Row(p, SlotsToFile(p, f))) <= Cardinality(AllFileRefs(f))
    BY <2>1, <2>4, RemoveSet
  <2> QED
    BY <2>1, <2>2, <2>3, <2>5
<1> QED
  BY <1>1, <1>2
-----------------------------------------------------------------------------
(***************************************************************************)
(* On one core a call is not interleaved with another.  While it runs, its *)
(* locals still describe the tables, and one FCB's count is ahead of the   *)
(* references (open_file has counted, not linked) or behind.               *)
(***************************************************************************)
Half == {"open_count", "open_link"}

CallOK(c) ==
  /\ pc[c] # "assert"
  /\ pc[c] \in Opening \cup Closing \cup Reading => op[c].p \in alive /\ op[c].f \in File
  /\ pc[c] \in Opening => file[op[c].p][op[c].fd] = 0
  /\ pc[c] \in Opening \ Half => desc[op[c].d].fcb = NULL
  /\ pc[c] \in Closing \cup Reading => file[op[c].p][op[c].fd] = op[c].d /\ desc[op[c].d].fcb = op[c].f
  /\ pc[c] \in {"get_fcb_store", "put_fcb_store"} => op[c].loaded = count[op[c].f]

(* A read still finds the position that it has tested, and counts the bytes from there. *)
ReadInv(c) ==
  /\ pc[c] \in Reading =>
       /\ desc[op[c].d].position = op[c].start
       /\ (op[c].start + op[c].size) % Word <= FileSize[op[c].f]
  /\ pc[c] \in {"read_load", "read_store"} =>
       op[c].start < Chain[op[c].f] /\ op[c].read_size = ReadSize(op[c].f, op[c].start, op[c].size)
  /\ pc[c] = "read_store" => op[c].loaded = op[c].start

Placing == {"open_clear", "open_fcb", "open_count", "open_link"}

More(c, f) == IF pc[c] \in Placing /\ op[c].f = f THEN 1 ELSE 0
Less(c, f) == IF pc[c] = "close_desc" /\ op[c].f = f THEN 1 ELSE 0

ExactDesc(d) ==
  /\ desc[d].count = Cardinality(AllRefs(d))
  /\ desc[d].fcb = NULL <=> desc[d].count = 0

DescCounts == \A d \in Descs : ExactDesc(d)

(* Where open_file has given the descriptor its FCB, and the process no pointer yet. *)
HalfCounts(c) ==
  /\ \A d \in Descs : d # op[c].d => ExactDesc(d)
  /\ AllRefs(op[c].d) = {} /\ desc[op[c].d].fcb = op[c].f
  /\ desc[op[c].d].count = IF pc[c] = "open_link" THEN 1 ELSE 0

FileCounts(c) ==
  \A f \in File : count[f] + Less(c, f) = Cardinality(AllFileRefs(f)) + More(c, f)

NoFiles == \A p \in Proc : p \notin alive => \A i \in Fds : file[p][i] = 0

(* The inductive invariant for the core c. *)
Inv(c) ==
  /\ Tables /\ Calls
  /\ pc[c] \notin Half => DescCounts
  /\ pc[c] \in Half => HalfCounts(c)
  /\ CallOK(c) /\ ReadInv(c) /\ FileCounts(c) /\ NoFiles

(* A slot is given another pointer. *)
LEMMA OnePointer ==
  ASSUME NEW p \in Proc, NEW fd \in Fds, NEW v,
         \A q \in Proc, i \in Fds : file'[q][i] = IF q = p /\ i = fd THEN v ELSE file[q][i]
  PROVE  /\ Pointer(<<p, fd>>) = file[p][fd]
         /\ \A x \in Proc \X Fds : Pointer(x)' = IF x = <<p, fd>> THEN v ELSE Pointer(x)
BY DEF Pointer

LEMMA FreeDescNoRefs ==
  ASSUME DescCounts, NEW d \in Descs, desc[d].fcb = NULL
  PROVE  AllRefs(d) = {}
BY RefsFinite, FS_EmptySet DEF DescCounts, ExactDesc

LEMMA LinkedDesc ==
  ASSUME Tables, DescCounts, NEW p \in Proc, NEW fd \in Fds, NEW d \in Descs, file[p][fd] = d
  PROVE  /\ <<p, fd>> \in AllRefs(d) /\ desc[d].fcb \in File
         /\ <<p, fd>> \in AllFileRefs(desc[d].fcb)
         /\ Cardinality(AllFileRefs(desc[d].fcb)) > 0
<1>1. <<p, fd>> \in AllRefs(d)
  BY DEF AllRefs, Pointer
<1>2. desc[d].fcb # NULL
  BY <1>1, FreeDescNoRefs
<1>3. desc[d].fcb \in File
  BY <1>2 DEF Tables, DescType
<1>4. d # 0
  BY DEF Descs
<1>5. <<p, fd>> \in AllFileRefs(desc[d].fcb)
  BY <1>4 DEF AllFileRefs, Pointer
<1>6. Cardinality(AllFileRefs(desc[d].fcb)) # 0
  BY <1>5, RefsFinite, FS_EmptySet
<1> QED
  BY <1>1, <1>3, <1>5, <1>6, RefsFinite

(* A step of a call that leaves the tables alone, but for the counts of FCBs. *)
LEMMA Quiet ==
  ASSUME DescCounts, NoFiles, desc' = desc, file' = file, alive' = alive
  PROVE  /\ DescCounts' /\ NoFiles'
         /\ \A f : AllFileRefs(f)' = AllFileRefs(f)
<1>1. \A x : Pointer(x)' = Pointer(x)
  BY DEF Pointer
<1>2. \A d : AllRefs(d)' = AllRefs(d)
  BY <1>1 DEF AllRefs
<1>3. \A f : AllFileRefs(f)' = AllFileRefs(f)
  BY <1>1 DEF AllFileRefs
<1>4. DescCounts'
  BY <1>2 DEF DescCounts, ExactDesc
<1>5. NoFiles'
  BY DEF NoFiles
<1> QED
  BY <1>3, <1>4, <1>5

(* The counts of the FCBs where no count is ahead or behind, before or after. *)
LEMMA NoCountOff ==
  ASSUME NEW c, pc[c] \notin Placing \cup {"close_desc"}
  PROVE  \A f : More(c, f) = 0 /\ Less(c, f) = 0
BY DEF More, Less

LEMMA CountsQuiet ==
  ASSUME NEW c, FileCounts(c), pc[c] \notin Placing \cup {"close_desc"},
         pc'[c] \notin Placing \cup {"close_desc"}, count' = count,
         \A f : AllFileRefs(f)' = AllFileRefs(f)
  PROVE  FileCounts(c)'
<1>1. \A f : More(c, f) = 0 /\ Less(c, f) = 0 /\ More(c, f)' = 0 /\ Less(c, f)' = 0
  BY DEF More, Less
<1> QED
  BY <1>1 DEF FileCounts

LEMMA OpenOK ==
  ASSUME NEW c, Core = {c}, Inv(c), DescCounts, NEW p \in Proc, NEW f \in File, Open(p, f)
  PROVE  CallOK(c)' /\ DescCounts' /\ FileCounts(c)' /\ NoFiles'
<1>1. PICK fd \in Fds, d \in Descs :
         /\ IsFirst(fd, {i \in Fds : file[p][i] = 0})
         /\ IsFirst(d, {i \in Descs : desc[i].fcb = NULL})
         /\ op' = [op EXCEPT ![CoreOf[p]] = Call(p, fd, d, f, 0, 0)]
  BY DEF Open
<1>2. PICK r \in OpType : /\ r = Call(p, fd, d, f, 0, 0)
                          /\ r.p = p /\ r.fd = fd /\ r.d = d /\ r.f = f
  BY CallTyped, Wraps
<1>3. CoreOf[p] = c
  BY FileTableAssumption
<1>4. pc[c] = "user" /\ pc'[c] = "get_fcb" /\ op'[c] = r
  BY <1>1, <1>2, <1>3 DEF Open, Goto, Inv, Calls
<1>5. count' = count /\ desc' = desc /\ file' = file /\ alive' = alive /\ p \in alive
  BY DEF Open
<1>6. file[p][fd] = 0 /\ desc[d].fcb = NULL
  BY <1>1 DEF IsFirst
<1>7. CallOK(c)'
  BY <1>2, <1>4, <1>5, <1>6 DEF CallOK, Opening, Closing, Reading, Half
<1>8. DescCounts' /\ NoFiles' /\ \A g : AllFileRefs(g)' = AllFileRefs(g)
  BY <1>5, Quiet DEF Inv
<1> QED
  BY <1>4, <1>5, <1>7, <1>8, CountsQuiet DEF Inv, Placing

LEMMA CloseOK ==
  ASSUME NEW c, Core = {c}, Inv(c), DescCounts, NEW p \in Proc, NEW fd \in Fds, Close(p, fd)
  PROVE  CallOK(c)' /\ DescCounts' /\ FileCounts(c)' /\ NoFiles'
<1>1. PICK d \in Descs : d = file[p][fd]
  BY DEF Close, Inv, Tables
<1>2. desc[d].fcb \in File
  BY <1>1, LinkedDesc DEF Inv
<1>3. PICK r \in OpType : /\ r = Call(p, fd, d, desc[d].fcb, 0, 0)
                          /\ r.p = p /\ r.fd = fd /\ r.d = d /\ r.f = desc[d].fcb
  BY <1>2, CallTyped, Wraps
<1>4. CoreOf[p] = c
  BY FileTableAssumption
<1>5. op' = [op EXCEPT ![c] = r] /\ Goto(c, "put_fcb") /\ pc[c] = "user"
  BY <1>1, <1>3, <1>4 DEF Close
<1>6. pc'[c] = "put_fcb" /\ op'[c] = r
  BY <1>5 DEF Goto, Inv, Calls
<1>7. count' = count /\ desc' = desc /\ file' = file /\ alive' = alive /\ p \in alive
  BY DEF Close
<1>8. CallOK(c)'
  BY <1>1, <1>2, <1>3, <1>6, <1>7 DEF CallOK, Opening, Closing, Reading, Half
<1>9. DescCounts' /\ NoFiles' /\ \A g : AllFileRefs(g)' = AllFileRefs(g)
  BY <1>7, Quiet DEF Inv
<1> QED
  BY <1>5, <1>6, <1>7, <1>8, <1>9, CountsQuiet DEF Inv, Placing

(* The loads of count++ and count--. *)
LEMMA LoadOK ==
  ASSUME NEW c, Core = {c}, Inv(c), DescCounts, GetFcbLoad(c) \/ PutFcbLoad(c)
  PROVE  CallOK(c)' /\ DescCounts' /\ FileCounts(c)' /\ NoFiles'
<1>1. pc[c] \in {"get_fcb", "put_fcb"}
  BY DEF GetFcbLoad, PutFcbLoad
<1>2. /\ op[c] \in OpType /\ op[c].f \in File /\ op[c].p \in alive
      /\ op[c].p \in Proc /\ op[c].fd \in Fds /\ op[c].d \in Descs /\ op[c].f # NULL
  <2>1. op[c] \in OpType /\ Locals(pc[c], op[c])
    BY DEF Inv, Calls
  <2>2. op[c].f \in File /\ op[c].p \in alive
    BY <1>1 DEF Inv, CallOK, Opening, Closing, Reading, Half
  <2> QED
    BY <1>1, <2>1, <2>2, FileTableAssumption DEF Locals, Opening, Closing, Reading
<1>3. PICK n \in Int : n = count[op[c].f]
  BY <1>2 DEF Inv, Tables
<1>4. PICK r \in OpType : /\ r = [op[c] EXCEPT !.loaded = n]
                          /\ r.p = op[c].p /\ r.fd = op[c].fd /\ r.d = op[c].d /\ r.f = op[c].f
                          /\ r.loaded = n
  BY <1>2, LoadTyped
<1>5. pc[c] = "put_fcb" => n > 0
  <2> SUFFICES ASSUME pc[c] = "put_fcb" PROVE n > 0
    OBVIOUS
  <2>1. file[op[c].p][op[c].fd] = op[c].d /\ desc[op[c].d].fcb = op[c].f
    BY DEF Inv, CallOK, Opening, Closing, Reading, Half
  <2>2. Cardinality(AllFileRefs(op[c].f)) > 0
    BY <1>2, <2>1, LinkedDesc DEF Inv
  <2>3. More(c, op[c].f) = 0 /\ Less(c, op[c].f) = 0
    BY NoCountOff DEF Placing
  <2> QED
    BY <1>2, <1>3, <2>2, <2>3, RefsFinite DEF Inv, FileCounts
<1>6. op' = [op EXCEPT ![c].loaded = count[op[c].f]]
  BY <1>2 DEF GetFcbLoad, PutFcbLoad
<1>7. op' = [op EXCEPT ![c] = r] /\ op'[c] = r
  BY <1>3, <1>4, <1>6 DEF Inv, Calls
<1>8. \/ pc[c] = "get_fcb" /\ Goto(c, "get_fcb_store")
      \/ pc[c] = "put_fcb" /\ Goto(c, "put_fcb_store")
  BY <1>2, <1>3, <1>5 DEF GetFcbLoad, PutFcbLoad
<1>9. \/ pc[c] = "get_fcb" /\ pc'[c] = "get_fcb_store"
      \/ pc[c] = "put_fcb" /\ pc'[c] = "put_fcb_store"
  BY <1>8 DEF Goto, Inv, Calls
<1>10. count' = count /\ desc' = desc /\ file' = file /\ alive' = alive
  BY DEF GetFcbLoad, PutFcbLoad
<1>11. CallOK(c)'
  <2>1. /\ pc[c] = "get_fcb" => file[op[c].p][op[c].fd] = 0 /\ desc[op[c].d].fcb = NULL
        /\ pc[c] = "put_fcb" => file[op[c].p][op[c].fd] = op[c].d /\ desc[op[c].d].fcb = op[c].f
    BY DEF Inv, CallOK, Opening, Closing, Reading, Half
  <2>2. /\ op'[c].p = op[c].p /\ op'[c].fd = op[c].fd /\ op'[c].d = op[c].d /\ op'[c].f = op[c].f
        /\ op'[c].loaded = count'[op[c].f]
    BY <1>3, <1>4, <1>7, <1>10
  <2>3. CASE pc[c] = "get_fcb"
    BY <1>2, <1>9, <1>10, <2>1, <2>2, <2>3 DEF CallOK, Opening, Closing, Reading, Half
  <2>4. CASE pc[c] = "put_fcb"
    BY <1>2, <1>9, <1>10, <2>1, <2>2, <2>4 DEF CallOK, Opening, Closing, Reading, Half
  <2> QED
    BY <1>1, <2>3, <2>4
<1>12. DescCounts' /\ NoFiles' /\ \A g : AllFileRefs(g)' = AllFileRefs(g)
  BY <1>10, Quiet DEF Inv
<1> QED
  BY <1>1, <1>9, <1>10, <1>11, <1>12, CountsQuiet DEF Inv, Placing

(* The stores of count++ and count--. *)
LEMMA StoreOK ==
  ASSUME NEW c, Core = {c}, Inv(c), DescCounts, GetFcbStore(c) \/ PutFcbStore(c)
  PROVE  CallOK(c)' /\ DescCounts' /\ FileCounts(c)' /\ NoFiles'
<1>1. pc[c] \in {"get_fcb_store", "put_fcb_store"}
  BY DEF GetFcbStore, PutFcbStore
<1>2. op[c].f \in File /\ op[c].p \in alive /\ op[c].loaded = count[op[c].f]
  BY <1>1 DEF Inv, CallOK, Opening, Closing, Reading, Half
<1>3. PICK n \in Int : n = count[op[c].f]
  BY <1>2 DEF Inv, Tables
<1>4. op' = op /\ desc' = desc /\ file' = file /\ alive' = alive
  BY DEF GetFcbStore, PutFcbStore
<1>5. \/ /\ pc[c] = "get_fcb_store" /\ pc'[c] = "open_clear"
         /\ count' = [count EXCEPT ![op[c].f] = n + 1]
      \/ /\ pc[c] = "put_fcb_store" /\ pc'[c] = "close_desc"
         /\ count' = [count EXCEPT ![op[c].f] = n - 1]
  BY <1>2, <1>3 DEF GetFcbStore, PutFcbStore, Goto, Inv, Calls
<1>6. CallOK(c)'
  <2>1. /\ pc[c] = "get_fcb_store" => file[op[c].p][op[c].fd] = 0 /\ desc[op[c].d].fcb = NULL
        /\ pc[c] = "put_fcb_store" =>
             file[op[c].p][op[c].fd] = op[c].d /\ desc[op[c].d].fcb = op[c].f
    BY DEF Inv, CallOK, Opening, Closing, Reading, Half
  <2>2. CASE pc'[c] = "open_clear"
    BY <1>2, <1>4, <1>5, <2>1, <2>2 DEF CallOK, Opening, Closing, Reading, Half
  <2>3. CASE pc'[c] = "close_desc"
    BY <1>2, <1>4, <1>5, <2>1, <2>3 DEF CallOK, Opening, Closing, Reading, Half
  <2> QED
    BY <1>5, <2>2, <2>3
<1>7. DescCounts' /\ NoFiles' /\ \A g : AllFileRefs(g)' = AllFileRefs(g)
  BY <1>4, Quiet DEF Inv
<1>8. FileCounts(c)'
  <2> SUFFICES ASSUME NEW f \in File
               PROVE  count'[f] + Less(c, f)' = Cardinality(AllFileRefs(f)) + More(c, f)'
    BY <1>7 DEF FileCounts
  <2>1. count[f] = Cardinality(AllFileRefs(f)) /\ count[f] \in Int
    <3>1. More(c, f) = 0 /\ Less(c, f) = 0
      BY <1>1, NoCountOff DEF Placing
    <3> QED
      BY <3>1, RefsFinite DEF Inv, FileCounts, Tables
  <2>2. CASE pc'[c] = "open_clear"
    <3>1. Less(c, f)' = 0 /\ More(c, f)' = (IF op[c].f = f THEN 1 ELSE 0)
      BY <1>4, <2>2 DEF More, Less, Placing
    <3>2. count'[f] = IF op[c].f = f THEN n + 1 ELSE count[f]
      BY <1>5, <2>2 DEF Inv, Tables
    <3> QED
      BY <1>3, <2>1, <3>1, <3>2
  <2>3. CASE pc'[c] = "close_desc"
    <3>1. More(c, f)' = 0 /\ Less(c, f)' = (IF op[c].f = f THEN 1 ELSE 0)
      BY <1>4, <2>3 DEF More, Less, Placing
    <3>2. count'[f] = IF op[c].f = f THEN n - 1 ELSE count[f]
      BY <1>5, <2>3 DEF Inv, Tables
    <3> QED
      BY <1>3, <2>1, <3>1, <3>2
  <2> QED
    BY <1>5, <2>2, <2>3
<1> QED
  BY <1>6, <1>7, <1>8

(* A call that has returned. *)
LEMMA CallReturned ==
  ASSUME NEW c, pc'[c] = "user" PROVE CallOK(c)' /\ \A f : More(c, f)' = 0 /\ Less(c, f)' = 0
BY DEF CallOK, Opening, Closing, Reading, Placing, More, Less

(* A descriptor that nothing points to is stored to. *)
LEMMA SameRefs ==
  ASSUME Tables, file' = file, NEW d0 \in Descs, AllRefs(d0) = {},
         \A d \in Descs : d # d0 => desc'[d] = desc[d]
  PROVE  /\ \A d : AllRefs(d)' = AllRefs(d)
         /\ \A d \in Descs : d # d0 => (ExactDesc(d)' <=> ExactDesc(d))
         /\ \A f : AllFileRefs(f)' = AllFileRefs(f)
<1>1. \A x \in Proc \X Fds : /\ Pointer(x)' = Pointer(x) /\ Pointer(x) \in Descs \cup {0}
                             /\ Pointer(x) # d0
  BY DEF Pointer, Tables, AllRefs
<1>2. \A d : AllRefs(d)' = AllRefs(d)
  BY <1>1 DEF AllRefs
<1>3. \A d \in Descs : d # d0 => (ExactDesc(d)' <=> ExactDesc(d))
  BY <1>2 DEF ExactDesc
<1>4. \A f : AllFileRefs(f)' = AllFileRefs(f)
  BY <1>1 DEF AllFileRefs
<1> QED
  BY <1>2, <1>3, <1>4

(* The FCB has been counted, and is still. *)
LEMMA CountsAhead ==
  ASSUME NEW c, FileCounts(c), pc[c] \in Placing, pc'[c] \in Placing, op' = op, count' = count,
         \A f : AllFileRefs(f)' = AllFileRefs(f)
  PROVE  FileCounts(c)'
<1>1. \A f : More(c, f)' = More(c, f) /\ Less(c, f)' = Less(c, f)
  BY DEF More, Less, Placing
<1> QED
  BY <1>1 DEF FileCounts

LEMMA OpenClearOK ==
  ASSUME NEW c, Core = {c}, Inv(c), DescCounts, OpenClear(c)
  PROVE  CallOK(c)' /\ DescCounts' /\ FileCounts(c)' /\ NoFiles'
<1>1. /\ pc[c] = "open_clear" /\ pc'[c] = "open_fcb" /\ op' = op
      /\ count' = count /\ file' = file /\ alive' = alive
  BY DEF OpenClear, Goto, Inv, Calls
<1>2. /\ op[c].f \in File /\ op[c].p \in alive
      /\ file[op[c].p][op[c].fd] = 0 /\ desc[op[c].d].fcb = NULL
  BY <1>1 DEF Inv, CallOK, Opening, Closing, Reading, Half
<1>3. PICK d0 \in Descs : d0 = op[c].d
  BY <1>1 DEF Inv, Calls, Locals, Opening, Closing, Reading
<1>4. AllRefs(d0) = {}
  BY <1>2, <1>3, FreeDescNoRefs
<1>5. \A d \in Descs : desc'[d] = IF d = d0 THEN FreeDesc ELSE desc[d]
  BY <1>3 DEF OpenClear, Inv, Tables
<1>6. /\ \A d : AllRefs(d)' = AllRefs(d)
      /\ \A d \in Descs : d # d0 => (ExactDesc(d)' <=> ExactDesc(d))
      /\ \A f : AllFileRefs(f)' = AllFileRefs(f)
  BY <1>1, <1>4, <1>5, SameRefs DEF Inv
<1>7. CallOK(c)'
  BY <1>1, <1>2, <1>3, <1>5, FreeDescTyped DEF CallOK, Opening, Closing, Reading, Half
<1>8. ExactDesc(d0)'
  BY <1>4, <1>5, <1>6, FreeDescTyped, FS_EmptySet DEF ExactDesc
<1>9. DescCounts'
  BY <1>6, <1>8 DEF DescCounts
<1>10. FileCounts(c)'
  BY <1>1, <1>6, CountsAhead DEF Inv, Placing
<1>11. NoFiles'
  BY <1>1 DEF Inv, NoFiles
<1> QED
  BY <1>7, <1>9, <1>10, <1>11

LEMMA OpenFcbOK ==
  ASSUME NEW c, Core = {c}, Inv(c), DescCounts, OpenFcb(c)
  PROVE  pc'[c] \in Half /\ CallOK(c)' /\ HalfCounts(c)' /\ FileCounts(c)' /\ NoFiles'
<1>1. /\ pc[c] = "open_fcb" /\ pc'[c] = "open_count" /\ op' = op
      /\ count' = count /\ file' = file /\ alive' = alive
  BY DEF OpenFcb, Goto, Inv, Calls
<1>2. /\ op[c].f \in File /\ op[c].p \in alive
      /\ file[op[c].p][op[c].fd] = 0 /\ desc[op[c].d].fcb = NULL
  BY <1>1 DEF Inv, CallOK, Opening, Closing, Reading, Half
<1>3. PICK d0 \in Descs : d0 = op[c].d
  BY <1>1 DEF Inv, Calls, Locals, Opening, Closing, Reading
<1>4. AllRefs(d0) = {}
  BY <1>2, <1>3, FreeDescNoRefs
<1>r. PICK r \in DescType : /\ r = [desc[d0] EXCEPT !.fcb = op[c].f]
                            /\ r.fcb = op[c].f /\ r.count = desc[d0].count
  <2>1. desc[d0] \in DescType
    BY DEF Inv, Tables
  <2> QED
    BY <1>2, <2>1, FcbTyped
<1>5. \A d \in Descs : desc'[d] = IF d = d0 THEN r ELSE desc[d]
  BY <1>3, <1>r DEF OpenFcb, Inv, Tables
<1>6. desc'[d0].fcb = op[c].f /\ desc'[d0].count = 0
  <2>1. desc[d0].count = 0
    BY <1>2, <1>3 DEF DescCounts, ExactDesc
  <2> QED
    BY <1>5, <1>r, <2>1
<1>7. /\ \A d : AllRefs(d)' = AllRefs(d)
      /\ \A d \in Descs : d # d0 => (ExactDesc(d)' <=> ExactDesc(d))
      /\ \A f : AllFileRefs(f)' = AllFileRefs(f)
  BY <1>1, <1>4, <1>5, SameRefs DEF Inv
<1>8. CallOK(c)'
  BY <1>1, <1>2 DEF CallOK, Opening, Closing, Reading, Half
<1>9. HalfCounts(c)'
  BY <1>1, <1>3, <1>4, <1>6, <1>7 DEF HalfCounts, DescCounts
<1>10. FileCounts(c)'
  BY <1>1, <1>7, CountsAhead DEF Inv, Placing
<1>11. NoFiles'
  BY <1>1 DEF Inv, NoFiles
<1> QED
  BY <1>1, <1>8, <1>9, <1>10, <1>11 DEF Half

LEMMA OpenCountOK ==
  ASSUME NEW c, Core = {c}, Inv(c), OpenCount(c)
  PROVE  pc'[c] \in Half /\ CallOK(c)' /\ HalfCounts(c)' /\ FileCounts(c)' /\ NoFiles'
<1>1. /\ pc[c] = "open_count" /\ pc'[c] = "open_link" /\ op' = op
      /\ count' = count /\ file' = file /\ alive' = alive
  BY DEF OpenCount, Goto, Inv, Calls
<1>2. op[c].f \in File /\ op[c].p \in alive /\ file[op[c].p][op[c].fd] = 0
  BY <1>1 DEF Inv, CallOK, Opening, Closing, Reading, Half
<1>3. PICK d0 \in Descs : d0 = op[c].d
  BY <1>1 DEF Inv, Calls, Locals, Opening, Closing, Reading
<1>4. AllRefs(d0) = {} /\ desc[d0].fcb = op[c].f /\ \A d \in Descs : d # d0 => ExactDesc(d)
  BY <1>1, <1>3 DEF Inv, Half, HalfCounts
<1>5. PICK n \in Int : n = 1
  OBVIOUS
<1>r. PICK r \in DescType : /\ r = [desc[d0] EXCEPT !.count = n]
                            /\ r.fcb = desc[d0].fcb /\ r.count = n
  <2>1. desc[d0] \in DescType
    BY DEF Inv, Tables
  <2> QED
    BY <2>1, CountTyped
<1>6. \A d \in Descs : desc'[d] = IF d = d0 THEN r ELSE desc[d]
  BY <1>3, <1>5, <1>r DEF OpenCount, Inv, Tables
<1>7. desc'[d0].fcb = op[c].f /\ desc'[d0].count = n
  BY <1>4, <1>6, <1>r
<1>8. /\ \A d : AllRefs(d)' = AllRefs(d)
      /\ \A d \in Descs : d # d0 => (ExactDesc(d)' <=> ExactDesc(d))
      /\ \A f : AllFileRefs(f)' = AllFileRefs(f)
  BY <1>1, <1>4, <1>6, SameRefs DEF Inv
<1>9. CallOK(c)'
  BY <1>1, <1>2 DEF CallOK, Opening, Closing, Reading, Half
<1>10. HalfCounts(c)'
  BY <1>1, <1>3, <1>4, <1>5, <1>7, <1>8 DEF HalfCounts
<1>11. FileCounts(c)'
  BY <1>1, <1>8, CountsAhead DEF Inv, Placing
<1>12. NoFiles'
  BY <1>1 DEF Inv, NoFiles
<1> QED
  BY <1>1, <1>9, <1>10, <1>11, <1>12 DEF Half

(* open_file gives the process its pointer. *)
LEMMA OpenLinkOK ==
  ASSUME NEW c, Core = {c}, Inv(c), OpenLink(c)
  PROVE  CallOK(c)' /\ DescCounts' /\ FileCounts(c)' /\ NoFiles'
<1>1. /\ pc[c] = "open_link" /\ pc'[c] = "user"
      /\ count' = count /\ desc' = desc /\ alive' = alive
  BY DEF OpenLink, Goto, Inv, Calls
<1>2. op[c].f \in File /\ op[c].p \in alive /\ file[op[c].p][op[c].fd] = 0
  BY <1>1 DEF Inv, CallOK, Opening, Closing, Reading, Half
<1>3. PICK p \in Proc : p = op[c].p
  BY <1>1 DEF Inv, Calls, Locals, Opening, Closing, Reading
<1>4. PICK fd \in Fds : fd = op[c].fd
  BY <1>1 DEF Inv, Calls, Locals, Opening, Closing, Reading
<1>5. PICK d0 \in Descs : d0 = op[c].d
  BY <1>1 DEF Inv, Calls, Locals, Opening, Closing, Reading
<1>6. PICK f0 \in File : f0 = op[c].f
  BY <1>2
<1>7. /\ AllRefs(d0) = {} /\ desc[d0].fcb = f0 /\ desc[d0].count = 1
      /\ \A d \in Descs : d # d0 => ExactDesc(d)
  BY <1>1, <1>5, <1>6 DEF Inv, Half, HalfCounts
<1>8. file' = [file EXCEPT ![p][fd] = d0]
  BY <1>3, <1>4, <1>5 DEF OpenLink
<1>9. /\ Pointer(<<p, fd>>) = 0
      /\ \A x \in Proc \X Fds : Pointer(x)' = IF x = <<p, fd>> THEN d0 ELSE Pointer(x)
  <2>1. file[p][fd] = 0
    BY <1>2, <1>3, <1>4
  <2>2. \A q \in Proc, i \in Fds : file'[q][i] = IF q = p /\ i = fd THEN d0 ELSE file[q][i]
    BY <1>8 DEF Inv, Tables
  <2> QED
    BY <2>1, <2>2, OnePointer
<1>10. <<p, fd>> \in Proc \X Fds /\ 0 \notin Descs
  BY DEF Descs
<1>12. DescCounts'
  <2> SUFFICES ASSUME NEW d \in Descs
               PROVE  /\ desc'[d].count = Cardinality(AllRefs(d)')
                      /\ desc'[d].fcb = NULL <=> desc'[d].count = 0
    BY DEF DescCounts, ExactDesc
  <2>1. CASE d = d0
    <3>1. AllRefs(d)' = {<<p, fd>>}
      BY <1>7, <1>9, <1>10, <2>1 DEF AllRefs
    <3>2. Cardinality(AllRefs(d)') = 1
      BY <3>1, FS_Singleton
    <3>3. f0 # NULL
      BY FileTableAssumption
    <3> QED
      BY <1>1, <1>7, <2>1, <3>2, <3>3
  <2>2. CASE d # d0
    <3>1. AllRefs(d)' = AllRefs(d)
      BY <1>9, <1>10, <2>2 DEF AllRefs
    <3> QED
      BY <1>1, <1>7, <2>2, <3>1 DEF ExactDesc
  <2> QED
    BY <2>1, <2>2
<1>13. FileCounts(c)'
  <2> SUFFICES ASSUME NEW f \in File
               PROVE  count[f] = Cardinality(AllFileRefs(f)')
    <3>1. \A f \in File : More(c, f)' = 0 /\ Less(c, f)' = 0
      BY <1>1, CallReturned
    <3>2. \A f \in File : count[f] \in Int
      BY DEF Inv, Tables
    <3>3. \A f \in File : count'[f] = Cardinality(AllFileRefs(f)')
      BY <1>1
    <3>4. \A f \in File : Cardinality(AllFileRefs(f)') \in Int
      BY <1>1, <3>2, <3>3
    <3> QED
      BY <1>1, <3>1, <3>2, <3>3, <3>4 DEF FileCounts
  <2>1. count[f] = Cardinality(AllFileRefs(f)) + (IF f = f0 THEN 1 ELSE 0)
    <3>1. Less(c, f) = 0 /\ More(c, f) = IF f = f0 THEN 1 ELSE 0
      BY <1>1, <1>6 DEF More, Less, Placing
    <3> QED
      BY <3>1 DEF Inv, FileCounts, Tables
  <2>2. \A x \in Proc \X Fds : x # <<p, fd>> => Pointer(x) # d0
    BY <1>7 DEF AllRefs
  <2>3. \A x \in Proc \X Fds : Pointer(x) \in Descs \cup {0}
    BY DEF Pointer, Inv, Tables
  <2>4. CASE f = f0
    <3>1. AllFileRefs(f)' = AllFileRefs(f) \cup {<<p, fd>>} /\ <<p, fd>> \notin AllFileRefs(f)
      BY <1>1, <1>7, <1>9, <1>10, <2>2, <2>3, <2>4 DEF AllFileRefs
    <3> QED
      BY <2>1, <2>4, <3>1, RefsFinite, FS_AddElement, ZenonT(40)
  <2>5. CASE f # f0
    <3>1. AllFileRefs(f)' = AllFileRefs(f)
      BY <1>1, <1>7, <1>9, <1>10, <2>2, <2>3, <2>5 DEF AllFileRefs
    <3> QED
      BY <2>1, <2>5, <3>1, RefsFinite
  <2> QED
    BY <2>4, <2>5
<1>14. NoFiles'
  <2>1. p \in alive
    BY <1>2, <1>3
  <2> QED
    BY <1>1, <1>8, <2>1 DEF NoFiles, Inv, Tables
<1> QED
  BY <1>1, <1>12, <1>13, <1>14, CallReturned

(* close_file drops the reference, and the descriptor with the last one. *)
LEMMA CloseDescOK ==
  ASSUME NEW c, Core = {c}, Inv(c), DescCounts, CloseDesc(c)
  PROVE  CallOK(c)' /\ DescCounts' /\ FileCounts(c)' /\ NoFiles'
<1>1. pc[c] = "close_desc" /\ pc'[c] = "user" /\ count' = count /\ alive' = alive
  BY DEF CloseDesc, Goto, Inv, Calls
<1>2. /\ op[c].f \in File /\ op[c].p \in alive
      /\ file[op[c].p][op[c].fd] = op[c].d /\ desc[op[c].d].fcb = op[c].f
  BY <1>1 DEF Inv, CallOK, Opening, Closing, Reading, Half
<1>3. PICK p \in Proc : p = op[c].p
  BY <1>1 DEF Inv, Calls, Locals, Opening, Closing, Reading
<1>4. PICK fd \in Fds : fd = op[c].fd
  BY <1>1 DEF Inv, Calls, Locals, Opening, Closing, Reading
<1>5. PICK d0 \in Descs : d0 = op[c].d
  BY <1>1 DEF Inv, Calls, Locals, Opening, Closing, Reading
<1>6. PICK f0 \in File : f0 = op[c].f
  BY <1>2
<1>7. /\ file[p][fd] = d0 /\ desc[d0].fcb = f0 /\ desc[d0] \in DescType
      /\ desc[d0].count \in Int
  BY <1>2, <1>3, <1>4, <1>5, <1>6 DEF Inv, Tables, DescType
<1>8. PICK r \in DescType : /\ r = Drop(desc[d0], 1)
                            /\ r.count = desc[d0].count - 1
                            /\ r.fcb = IF desc[d0].count = 1 THEN NULL ELSE f0
  BY <1>7, DropTyped
<1>9. desc' = [desc EXCEPT ![d0] = r] /\ file' = [file EXCEPT ![p][fd] = 0]
  BY <1>3, <1>4, <1>5, <1>8 DEF CloseDesc, Inv, Tables
<1>10. <<p, fd>> \in Proc \X Fds /\ 0 \notin Descs
  BY DEF Descs
<1>11. /\ Pointer(<<p, fd>>) = d0
       /\ \A x \in Proc \X Fds : Pointer(x)' = IF x = <<p, fd>> THEN 0 ELSE Pointer(x)
  <2>1. \A q \in Proc, i \in Fds : file'[q][i] = IF q = p /\ i = fd THEN 0 ELSE file[q][i]
    BY <1>9 DEF Inv, Tables
  <2> QED
    BY <1>7, <2>1, OnePointer
<1>12. \A d \in Descs : desc'[d] = IF d = d0 THEN r ELSE desc[d]
  BY <1>9 DEF Inv, Tables
<1>13. AllRefs(d0)' = AllRefs(d0) \ {<<p, fd>>} /\ <<p, fd>> \in AllRefs(d0)
  BY <1>10, <1>11 DEF AllRefs
<1>14. Cardinality(AllRefs(d0)') = Cardinality(AllRefs(d0)) - 1
  BY <1>13, RefsFinite, FS_RemoveElement
<1>15. desc[d0].count = Cardinality(AllRefs(d0)) /\ desc[d0].count \in Nat /\ desc[d0].count # 0
  BY <1>7, RefsFinite, FileTableAssumption DEF Inv, DescCounts, ExactDesc
<1>16. DescCounts'
  <2> SUFFICES ASSUME NEW d \in Descs
               PROVE  /\ desc'[d].count = Cardinality(AllRefs(d)')
                      /\ desc'[d].fcb = NULL <=> desc'[d].count = 0
    BY DEF DescCounts, ExactDesc
  <2>1. CASE d = d0
    BY <1>8, <1>12, <1>14, <1>15, <2>1, FileTableAssumption
  <2>2. CASE d # d0
    <3>1. AllRefs(d)' = AllRefs(d)
      BY <1>10, <1>11, <2>2 DEF AllRefs
    <3> QED
      BY <1>12, <2>2, <3>1 DEF Inv, DescCounts, ExactDesc
  <2> QED
    BY <2>1, <2>2
<1>17. FileCounts(c)'
  <2> SUFFICES ASSUME NEW f \in File
               PROVE  count[f] = Cardinality(AllFileRefs(f)')
    <3>1. \A f \in File : More(c, f)' = 0 /\ Less(c, f)' = 0
      BY <1>1, CallReturned
    <3>2. \A f \in File : count[f] \in Int
      BY DEF Inv, Tables
    <3>3. \A f \in File : count'[f] = Cardinality(AllFileRefs(f)')
      BY <1>1
    <3>4. \A f \in File : Cardinality(AllFileRefs(f)') \in Int
      BY <1>1, <3>2, <3>3
    <3> QED
      BY <1>1, <3>1, <3>2, <3>3, <3>4 DEF FileCounts
  <2>1. count[f] + (IF f = f0 THEN 1 ELSE 0) = Cardinality(AllFileRefs(f)) /\ count[f] \in Int
    <3>1. More(c, f) = 0 /\ Less(c, f) = IF f = f0 THEN 1 ELSE 0
      BY <1>1, <1>6 DEF More, Less, Placing
    <3> QED
      BY <3>1, RefsFinite DEF Inv, FileCounts, Tables
  <2>2. \A x \in Proc \X Fds : Pointer(x)' # 0 => desc'[Pointer(x)'].fcb = desc[Pointer(x)].fcb
    <3> SUFFICES ASSUME NEW x \in Proc \X Fds, Pointer(x)' # 0
                 PROVE  desc'[Pointer(x)'].fcb = desc[Pointer(x)].fcb
      OBVIOUS
    <3>1. Pointer(x)' = Pointer(x) /\ x # <<p, fd>> /\ Pointer(x) \in Descs
      BY <1>11 DEF Pointer, Inv, Tables
    <3>2. CASE Pointer(x) = d0
      <4>1. x \in AllRefs(d0)'
        BY <3>1, <3>2 DEF AllRefs
      <4>2. Cardinality(AllRefs(d0)') # 0
        <5>1. IsFiniteSet(AllRefs(d0) \ {<<p, fd>>})
          BY RefsFinite, FS_RemoveElement
        <5>2. IsFiniteSet(AllRefs(d0)') /\ AllRefs(d0)' # {}
          BY <1>13, <4>1, <5>1
        <5> QED
          BY <5>2, FS_EmptySet
      <4> QED
        BY <1>7, <1>8, <1>12, <1>14, <1>15, <3>1, <3>2, <4>2
    <3>3. CASE Pointer(x) # d0
      BY <1>12, <3>1, <3>3
    <3> QED
      BY <3>2, <3>3
  <2>3. CASE f = f0
    <3>1. AllFileRefs(f)' = AllFileRefs(f) \ {<<p, fd>>} /\ <<p, fd>> \in AllFileRefs(f)
      BY <1>7, <1>10, <1>11, <2>2, <2>3 DEF AllFileRefs
    <3>2. Cardinality(AllFileRefs(f)') = Cardinality(AllFileRefs(f)) - 1
      BY <3>1, RefsFinite, FS_RemoveElement, ZenonT(40)
    <3> QED
      BY <2>1, <2>3, <3>2
  <2>4. CASE f # f0
    <3>1. AllFileRefs(f)' = AllFileRefs(f)
      BY <1>7, <1>10, <1>11, <2>2, <2>4 DEF AllFileRefs
    <3> QED
      BY <2>1, <2>4, <3>1
  <2> QED
    BY <2>3, <2>4
<1>18. NoFiles'
  BY <1>1, <1>9 DEF NoFiles, Inv, Tables
<1> QED
  BY <1>1, <1>16, <1>17, <1>18, CallReturned

(* Reads leave the counts alone: read_file, its test, and read_raw_data. *)
LEMMA ReadFileOK ==
  ASSUME NEW c, Core = {c}, Inv(c), DescCounts, NEW p \in Proc, NEW fd \in Fds, NEW size \in Uint32,
         ReadFile(p, fd, size)
  PROVE  CallOK(c)' /\ DescCounts' /\ FileCounts(c)' /\ NoFiles' /\ ReadInv(c)' /\ pc'[c] = "read_raw"
<1>1. PICK d \in Descs : d = file[p][fd]
  BY DEF ReadFile, PassesTest, Inv, Tables
<1>2. desc[d].fcb \in File /\ desc[d].fcb # NULL /\ desc[d].position \in Uint32
  <2>1. desc[d].fcb \in File
    BY <1>1, LinkedDesc DEF Inv
  <2> QED
    BY <2>1, FileTableAssumption DEF Inv, Tables, DescType
<1>3. CoreOf[p] = c
  BY FileTableAssumption
<1>4. PICK r \in OpType : /\ r = Call(p, fd, d, desc[d].fcb, desc[d].position, size)
                          /\ r.p = p /\ r.fd = fd /\ r.d = d /\ r.f = desc[d].fcb
                          /\ r.start = desc[d].position /\ r.size = size
  BY <1>2, CallTyped
<1>5. /\ pc[c] = "user" /\ p \in alive /\ op' = [op EXCEPT ![c] = r] /\ Goto(c, "read_raw")
      /\ (desc[d].position + size) % Word <= FileSize[desc[d].fcb]
      /\ count' = count /\ desc' = desc /\ file' = file /\ alive' = alive
  BY <1>1, <1>2, <1>3, <1>4 DEF ReadFile, PassesTest
<1>6. pc'[c] = "read_raw" /\ op'[c] = r
  BY <1>5 DEF Goto, Inv, Calls
<1>f. /\ op'[c].p = p /\ op'[c].fd = fd /\ op'[c].d = d /\ op'[c].f = desc[d].fcb
      /\ op'[c].start = desc[d].position /\ op'[c].size = size
  BY <1>4, <1>6
<1>7. CallOK(c)'
  <2>1. file'[p][fd] = d /\ desc'[d].fcb = desc[d].fcb /\ p \in alive'
    BY <1>1, <1>5
  <2> QED
    BY <1>2, <1>6, <1>f, <2>1 DEF CallOK, Opening, Closing, Reading, Half
<1>8. ReadInv(c)'
  <2>1. desc'[d].position = desc[d].position
    BY <1>5
  <2> QED
    BY <1>5, <1>6, <1>f, <2>1 DEF ReadInv
<1>9. DescCounts' /\ NoFiles' /\ \A g : AllFileRefs(g)' = AllFileRefs(g)
  BY <1>5, Quiet DEF Inv
<1>10. FileCounts(c)'
  BY <1>5, <1>6, <1>9, CountsQuiet DEF Inv, Placing
<1> QED
  BY <1>6, <1>7, <1>8, <1>9, <1>10

LEMMA ReadRawOK ==
  ASSUME NEW c, Core = {c}, Inv(c), DescCounts, ReadRaw(c)
  PROVE  /\ CallOK(c)' /\ DescCounts' /\ FileCounts(c)' /\ NoFiles' /\ ReadInv(c)'
         /\ pc'[c] \in {"fault", "assert_raw", "read_load"}
<1>1. pc[c] = "read_raw" /\ count' = count /\ desc' = desc /\ file' = file /\ alive' = alive
  BY DEF ReadRaw
<1>2. /\ op[c].f \in File /\ op[c].p \in alive
      /\ file[op[c].p][op[c].fd] = op[c].d /\ desc[op[c].d].fcb = op[c].f
  BY <1>1 DEF Inv, CallOK, Opening, Closing, Reading, Half
<1>3. /\ desc[op[c].d].position = op[c].start
      /\ (op[c].start + op[c].size) % Word <= FileSize[op[c].f]
  BY <1>1 DEF Inv, ReadInv, Reading
<1>4. op[c] \in OpType /\ op[c].start \in Nat /\ op[c].size \in Nat
  BY FileTableAssumption DEF Inv, Calls, OpType, Uint32
<1>5. DescCounts' /\ NoFiles' /\ \A g : AllFileRefs(g)' = AllFileRefs(g)
  BY <1>1, Quiet DEF Inv
<1>6. pc'[c] \in {"fault", "assert_raw", "read_load"}
  BY DEF ReadRaw, Goto, Inv, Calls
<1>7. FileCounts(c)'
  BY <1>1, <1>5, <1>6, CountsQuiet DEF Inv, Placing
<1>8. CASE pc'[c] \in {"fault", "assert_raw"}
  <2>1. CallOK(c)' /\ ReadInv(c)'
    BY <1>8 DEF CallOK, ReadInv, Opening, Closing, Reading, Half
  <2> QED
    BY <1>5, <1>6, <1>7, <2>1
<1>9. CASE pc'[c] = "read_load"
  <2>1. /\ op[c].start < ClusterSize \/ op[c].start < Chain[op[c].f]
        /\ op' = [op EXCEPT ![c].read_size = ReadSize(op[c].f, op[c].start, op[c].size)]
    <3>1. \A l : Goto(c, l) => pc'[c] = l
      BY DEF Goto, Inv, Calls
    <3> QED
      BY <1>2, <1>9, <3>1 DEF ReadRaw
  <2>2. op[c].start < Chain[op[c].f]
    BY <1>2, <1>4, <2>1, FileTableAssumption
  <2>3. PICK n \in Int : n = ReadSize(op[c].f, op[c].start, op[c].size)
    BY <1>2, <1>4, FileTableAssumption DEF ReadSize
  <2>4. PICK r \in OpType : /\ r = [op[c] EXCEPT !.read_size = n]
                            /\ r.p = op[c].p /\ r.fd = op[c].fd /\ r.d = op[c].d /\ r.f = op[c].f
                            /\ r.start = op[c].start /\ r.size = op[c].size /\ r.read_size = n
    BY <1>4, ReadSizeTyped
  <2>5. op'[c] = r
    BY <2>1, <2>3, <2>4 DEF Inv, Calls
  <2>6. CallOK(c)'
    BY <1>1, <1>2, <1>9, <2>4, <2>5 DEF CallOK, Opening, Closing, Reading, Half
  <2>7. ReadInv(c)'
    BY <1>1, <1>3, <1>9, <2>2, <2>3, <2>4, <2>5 DEF ReadInv
  <2> QED
    BY <1>5, <1>6, <1>7, <2>6, <2>7
<1> QED
  BY <1>6, <1>8, <1>9

LEMMA ReadLoadOK ==
  ASSUME NEW c, Core = {c}, Inv(c), DescCounts, ReadLoad(c)
  PROVE  CallOK(c)' /\ DescCounts' /\ FileCounts(c)' /\ NoFiles' /\ ReadInv(c)' /\ pc'[c] = "read_store"
<1>1. /\ pc[c] = "read_load" /\ pc'[c] = "read_store"
      /\ count' = count /\ desc' = desc /\ file' = file /\ alive' = alive
  BY DEF ReadLoad, Goto, Inv, Calls
<1>2. /\ op[c].f \in File /\ op[c].p \in alive
      /\ file[op[c].p][op[c].fd] = op[c].d /\ desc[op[c].d].fcb = op[c].f
  BY <1>1 DEF Inv, CallOK, Opening, Closing, Reading, Half
<1>3. /\ desc[op[c].d].position = op[c].start
      /\ (op[c].start + op[c].size) % Word <= FileSize[op[c].f]
      /\ op[c].start < Chain[op[c].f] /\ op[c].read_size = ReadSize(op[c].f, op[c].start, op[c].size)
  BY <1>1 DEF Inv, ReadInv, Reading
<1>4. op[c] \in OpType
  BY DEF Inv, Calls
<1>5. PICK n \in Int : n = op[c].start
  BY <1>4, FileTableAssumption DEF OpType, Uint32
<1>6. PICK r \in OpType : /\ r = [op[c] EXCEPT !.loaded = n]
                          /\ r.p = op[c].p /\ r.fd = op[c].fd /\ r.d = op[c].d /\ r.f = op[c].f
                          /\ r.start = op[c].start /\ r.size = op[c].size
                          /\ r.read_size = op[c].read_size /\ r.loaded = n
  BY <1>4, LoadTyped
<1>7. op'[c] = r
  BY <1>3, <1>5, <1>6 DEF ReadLoad, Inv, Calls
<1>8. CallOK(c)'
  BY <1>1, <1>2, <1>6, <1>7 DEF CallOK, Opening, Closing, Reading, Half
<1>9. ReadInv(c)'
  BY <1>1, <1>3, <1>5, <1>6, <1>7 DEF ReadInv
<1>10. DescCounts' /\ NoFiles' /\ \A g : AllFileRefs(g)' = AllFileRefs(g)
  BY <1>1, Quiet DEF Inv
<1>11. FileCounts(c)'
  BY <1>1, <1>10, CountsQuiet DEF Inv, Placing
<1> QED
  BY <1>1, <1>8, <1>9, <1>10, <1>11

(* What the store of a read does to its descriptor: nothing but the position, by read_size. *)
LEMMA ReadStored ==
  ASSUME NEW c \in Core, Inv(c), ReadStore(c)
  PROVE  /\ op[c].d \in Descs
         /\ \A d \in Descs : /\ desc'[d].fcb = desc[d].fcb /\ desc'[d].count = desc[d].count
                             /\ d # op[c].d => desc'[d] = desc[d]
         /\ desc'[op[c].d].position = (op[c].loaded + op[c].read_size) % Word
<1>1. PICK d \in Descs : d = op[c].d
  BY DEF ReadStore, Inv, Calls, Locals, Opening, Closing, Reading
<1>2. PICK n \in Uint32 : n = (op[c].loaded + op[c].read_size) % Word
  <2>1. op[c].loaded + op[c].read_size \in Int
    BY DEF Inv, Calls, OpType
  <2> QED
    BY <2>1, Wraps
<1>3. desc[d] \in DescType
  BY DEF Inv, Tables
<1>4. PICK r \in DescType : /\ r = [desc[d] EXCEPT !.position = n]
                            /\ r.fcb = desc[d].fcb /\ r.count = desc[d].count /\ r.position = n
  BY <1>3, PositionTyped
<1>5. desc' = [desc EXCEPT ![d] = r]
  BY <1>1, <1>2, <1>4 DEF ReadStore, Inv, Tables
<1> QED
  BY <1>1, <1>2, <1>4, <1>5 DEF Inv, Tables

LEMMA ReadStoreOK ==
  ASSUME NEW c, Core = {c}, Inv(c), DescCounts, ReadStore(c)
  PROVE  CallOK(c)' /\ DescCounts' /\ FileCounts(c)' /\ NoFiles' /\ pc'[c] = "user"
<1>1. /\ pc[c] = "read_store" /\ pc'[c] = "user"
      /\ count' = count /\ file' = file /\ alive' = alive
  BY DEF ReadStore, Goto, Inv, Calls
<1>2. \A e \in Descs : desc'[e].fcb = desc[e].fcb /\ desc'[e].count = desc[e].count
  BY ReadStored
<1>3. \A x \in Proc \X Fds : Pointer(x)' = Pointer(x) /\ Pointer(x) \in Descs \cup {0}
  BY <1>1 DEF Pointer, Inv, Tables
<1>4. \A e : AllRefs(e)' = AllRefs(e)
  BY <1>3 DEF AllRefs
<1>5. \A f : AllFileRefs(f)' = AllFileRefs(f)
  BY <1>2, <1>3 DEF AllFileRefs
<1>6. DescCounts'
  BY <1>2, <1>4 DEF DescCounts, ExactDesc
<1>7. CallOK(c)'
  BY <1>1, CallReturned
<1>8. FileCounts(c)'
  BY <1>1, <1>5, CountsQuiet DEF Inv, Placing
<1>9. NoFiles'
  BY <1>1 DEF Inv, NoFiles
<1> QED
  BY <1>1, <1>6, <1>7, <1>8, <1>9

(* The counts of files while core c is in no call. *)
LEMMA CountsOfUser ==
  ASSUME NEW c, Inv(c), pc[c] = "user", pc' = pc
  PROVE  /\ \A f \in File : count[f] = Cardinality(AllFileRefs(f))
         /\ (\A f \in File : count'[f] \in Int /\ count'[f] = Cardinality(AllFileRefs(f)')) => FileCounts(c)'
         /\ CallOK(c)'
<1>1. CallOK(c)' /\ \A f : More(c, f)' = 0 /\ Less(c, f)' = 0
  BY CallReturned
<1>2. \A f : More(c, f) = 0 /\ Less(c, f) = 0
  BY NoCountOff DEF Placing
<1>3. \A f \in File : count[f] = Cardinality(AllFileRefs(f))
  BY <1>2, RefsFinite DEF Inv, FileCounts, Tables
<1>4. ASSUME \A f \in File : count'[f] \in Int /\ count'[f] = Cardinality(AllFileRefs(f)')
      PROVE  FileCounts(c)'
  <2>1. \A f \in File : Cardinality(AllFileRefs(f)') \in Int
    BY <1>4
  <2> QED
    BY <1>1, <1>4, <2>1 DEF FileCounts
<1> QED
  BY <1>1, <1>3, <1>4

(* fork: the child's slots are new references to what the parent's refer to. *)
LEMMA ForkFilesOK ==
  ASSUME NEW c, Core = {c}, Inv(c), DescCounts, NEW p \in Proc, NEW q \in Proc, ForkFiles(p, q)
  PROVE  CallOK(c)' /\ DescCounts' /\ FileCounts(c)' /\ NoFiles'
<1>1. /\ p \in alive /\ q \notin alive /\ alive' = alive \cup {q} /\ pc' = pc
      /\ file' = [file EXCEPT ![q] = file[p]] /\ p # q
  BY DEF ForkFiles
<1>2. pc[c] = "user"
  <2>1. CoreOf[p] = c
    BY FileTableAssumption
  <2> QED
    BY <2>1 DEF ForkFiles
<1>3. \A i \in Fds : file[q][i] = 0
  BY <1>1 DEF Inv, NoFiles
<1>4. /\ \A r \in Proc, i \in Fds : file'[r][i] = IF r = q THEN file[p][i] ELSE file[r][i]
      /\ \A r \in Proc, i \in Fds : file[r][i] \in Descs \cup {0}
  BY <1>1 DEF Inv, Tables
<1>5. 0 \notin Descs
  BY DEF Descs
<1>6. \A d \in Descs : /\ desc'[d].count = desc[d].count + RefsTo(p, d)
                       /\ desc'[d].fcb = desc[d].fcb
  BY RefsAreNaturals, RaiseTyped DEF ForkFiles, Inv, Tables
<1>7. DescCounts'
  <2> SUFFICES ASSUME NEW d \in Descs
               PROVE  /\ desc'[d].count = Cardinality(AllRefs(d)')
                      /\ desc'[d].fcb = NULL <=> desc'[d].count = 0
    BY DEF DescCounts, ExactDesc
  <2> DEFINE T == Row(q, SlotsTo(p, d))
  <2>1. AllRefs(d)' = AllRefs(d) \cup T
    BY <1>3, <1>4, <1>5 DEF AllRefs, Pointer, Row, SlotsTo
  <2>2. AllRefs(d) \cap T = {}
    BY <1>3, <1>5 DEF AllRefs, Pointer, Row
  <2>3. IsFiniteSet(T) /\ Cardinality(T) = RefsTo(p, d)
    <3>1. SlotsTo(p, d) \in SUBSET Fds /\ Cardinality(SlotsTo(p, d)) = RefsTo(p, d)
      BY DEF SlotsTo, RefsTo
    <3> QED
      BY <3>1, RowCounts
  <2> HIDE DEF T
  <2>4. Cardinality(AllRefs(d)') = Cardinality(AllRefs(d)) + RefsTo(p, d)
    <3>1. IsFiniteSet(AllRefs(d))
      BY RefsFinite
    <3> QED
      BY <2>1, <2>2, <2>3, <3>1, AddSet
  <2>5. RefsTo(p, d) \in Nat /\ RefsTo(p, d) <= Cardinality(AllRefs(d))
        /\ Cardinality(AllRefs(d)) \in Nat
    BY RefsAreNaturals, RowRefs, RefsFinite
  <2>6. desc[d].count = Cardinality(AllRefs(d)) /\ (desc[d].fcb = NULL <=> desc[d].count = 0)
    BY DEF Inv, DescCounts, ExactDesc
  <2> QED
    BY <1>6, <2>4, <2>5, <2>6
<1>8. FileCounts(c)'
  <2>1. ASSUME NEW f \in File
        PROVE  count'[f] \in Int /\ count'[f] = Cardinality(AllFileRefs(f)')
    <3> DEFINE T == Row(q, SlotsToFile(p, f))
    <3>1. AllFileRefs(f)' = AllFileRefs(f) \cup T
      BY <1>3, <1>4, <1>5, <1>6 DEF AllFileRefs, Pointer, Row, SlotsToFile
    <3>2. AllFileRefs(f) \cap T = {}
      BY <1>3, <1>5 DEF AllFileRefs, Pointer, Row
    <3>3. IsFiniteSet(T) /\ Cardinality(T) = FileRefs(p, f)
      <4>1. SlotsToFile(p, f) \in SUBSET Fds /\ Cardinality(SlotsToFile(p, f)) = FileRefs(p, f)
        BY DEF SlotsToFile, FileRefs
      <4> QED
        BY <4>1, RowCounts
    <3> HIDE DEF T
    <3>4. Cardinality(AllFileRefs(f)') = Cardinality(AllFileRefs(f)) + FileRefs(p, f)
      <4>1. IsFiniteSet(AllFileRefs(f))
        BY RefsFinite
      <4> QED
        BY <3>1, <3>2, <3>3, <4>1, AddSet
    <3>5. count'[f] = count[f] + FileRefs(p, f)
      BY DEF ForkFiles
    <3>6. count[f] = Cardinality(AllFileRefs(f)) /\ FileRefs(p, f) \in Nat /\ count[f] \in Int
      BY <1>1, <1>2, CountsOfUser, RefsAreNaturals DEF Inv, Tables
    <3> QED
      BY <3>4, <3>5, <3>6
  <2> QED
    BY <1>1, <1>2, <2>1, CountsOfUser
<1>9. NoFiles'
  BY <1>1, <1>4 DEF Inv, NoFiles
<1>10. CallOK(c)'
  BY <1>1, <1>2, CountsOfUser
<1> QED
  BY <1>7, <1>8, <1>9, <1>10

(* wait: the references of the process are dropped, and with the last one the descriptor. *)
LEMMA ReapFilesOK ==
  ASSUME NEW c, Core = {c}, Inv(c), DescCounts, NEW p \in Proc, ReapFiles(p)
  PROVE  CallOK(c)' /\ DescCounts' /\ FileCounts(c)' /\ NoFiles'
<1>1. alive' = alive \ {p} /\ pc' = pc /\ file' = [file EXCEPT ![p] = [i \in Fds |-> 0]]
  BY DEF ReapFiles
<1>2. pc[c] = "user"
  <2>1. CoreOf[p] = c
    BY FileTableAssumption
  <2> QED
    BY <2>1 DEF ReapFiles
<1>4. /\ \A r \in Proc, i \in Fds : file'[r][i] = IF r = p THEN 0 ELSE file[r][i]
      /\ \A r \in Proc, i \in Fds : file[r][i] \in Descs \cup {0}
  BY <1>1 DEF Inv, Tables
<1>5. 0 \notin Descs
  BY DEF Descs
<1>6. ASSUME NEW d \in Descs
      PROVE  /\ desc[d].count = Cardinality(AllRefs(d))
             /\ desc[d].fcb = NULL <=> desc[d].count = 0
             /\ RefsTo(p, d) \in Nat /\ RefsTo(p, d) <= Cardinality(AllRefs(d))
             /\ Cardinality(AllRefs(d)) \in Nat
             /\ RefsTo(p, d) = 0 => desc'[d] = desc[d]
             /\ RefsTo(p, d) # 0 => /\ desc'[d].count = desc[d].count - RefsTo(p, d)
                                    /\ desc'[d].fcb = IF desc[d].count = RefsTo(p, d)
                                                      THEN NULL ELSE desc[d].fcb
  <2>1. RefsTo(p, d) \in Nat /\ RefsTo(p, d) <= Cardinality(AllRefs(d))
        /\ Cardinality(AllRefs(d)) \in Nat
    BY RefsAreNaturals, RowRefs, RefsFinite
  <2>2. desc[d].count = Cardinality(AllRefs(d)) /\ (desc[d].fcb = NULL <=> desc[d].count = 0)
    BY DEF Inv, DescCounts, ExactDesc
  <2>3. desc'[d] = IF RefsTo(p, d) = 0 THEN desc[d] ELSE Drop(desc[d], RefsTo(p, d))
    BY DEF ReapFiles
  <2>4. desc[d] \in DescType
    BY DEF Inv, Tables
  <2>5. CASE RefsTo(p, d) = 0
    BY <2>1, <2>2, <2>3, <2>5
  <2>6. CASE RefsTo(p, d) # 0
    <3>1. desc'[d] = Drop(desc[d], RefsTo(p, d))
      BY <2>3, <2>6
    <3>2. /\ desc'[d].count = desc[d].count - RefsTo(p, d)
          /\ desc'[d].fcb = IF desc[d].count = RefsTo(p, d) THEN NULL ELSE desc[d].fcb
      BY <2>1, <2>4, <3>1, DropTyped
    <3> QED
      BY <2>1, <2>2, <2>6, <3>2
  <2> QED
    BY <2>5, <2>6
<1>7. ASSUME NEW d \in Descs
      PROVE  /\ desc'[d].count = desc[d].count - RefsTo(p, d)
             /\ desc'[d].fcb = NULL <=> desc'[d].count = 0
             /\ desc'[d].fcb \in {NULL, desc[d].fcb}
             /\ desc'[d].count = Cardinality(AllRefs(d)')
  <2>1. AllRefs(d)' = AllRefs(d) \ Row(p, SlotsTo(p, d))
    BY <1>4, <1>5 DEF AllRefs, Pointer, Row, SlotsTo
  <2>2. Cardinality(AllRefs(d)') = Cardinality(AllRefs(d)) - RefsTo(p, d)
    <3>1. /\ Row(p, SlotsTo(p, d)) \subseteq AllRefs(d)
          /\ Cardinality(Row(p, SlotsTo(p, d))) = RefsTo(p, d)
          /\ IsFiniteSet(AllRefs(d))
      BY RowRefs, RefsFinite
    <3> QED
      BY <2>1, <3>1, RemoveSet
  <2> QED
    BY <1>6, <2>2
<1>8. DescCounts'
  BY <1>7 DEF DescCounts, ExactDesc
<1>9. FileCounts(c)'
  <2>1. ASSUME NEW f \in File
        PROVE  count'[f] \in Int /\ count'[f] = Cardinality(AllFileRefs(f)')
    <3>1. \A x \in Proc \X Fds : Pointer(x)' # 0 =>
             Pointer(x)' = Pointer(x) /\ desc'[Pointer(x)].fcb = desc[Pointer(x)].fcb
      <4> SUFFICES ASSUME NEW x \in Proc \X Fds, Pointer(x)' # 0
                   PROVE  Pointer(x)' = Pointer(x) /\ desc'[Pointer(x)].fcb = desc[Pointer(x)].fcb
        OBVIOUS
      <4>1. PICK d \in Descs : Pointer(x)' = d /\ Pointer(x) = d
        BY <1>4 DEF Pointer
      <4>2. x \in AllRefs(d)'
        BY <4>1 DEF AllRefs
      <4>3. Cardinality(AllRefs(d)') # 0
        <5>1. AllRefs(d)' = AllRefs(d) \ Row(p, SlotsTo(p, d))
          BY <1>4, <1>5 DEF AllRefs, Pointer, Row, SlotsTo
        <5>2. IsFiniteSet(AllRefs(d)')
          BY <5>1, RefsFinite, FS_Difference
        <5> QED
          BY <4>2, <5>2, FS_EmptySet
      <4> QED
        BY <1>7, <4>1, <4>3
    <3>2. AllFileRefs(f)' = AllFileRefs(f) \ Row(p, SlotsToFile(p, f))
      <4>1. \A x \in Proc \X Fds : Pointer(x)' = IF x[1] = p THEN 0 ELSE Pointer(x)
        BY <1>4 DEF Pointer
      <4>2. \A x \in Proc \X Fds : x[1] = p =>
               (x \in Row(p, SlotsToFile(p, f)) <=> Pointer(x) # 0 /\ desc[Pointer(x)].fcb = f)
        BY DEF Row, SlotsToFile, Pointer
      <4>3. \A x \in Row(p, SlotsToFile(p, f)) : x \in Proc \X Fds /\ x[1] = p
        BY DEF Row
      <4> QED
        BY <3>1, <4>1, <4>2, <4>3 DEF AllFileRefs
    <3>3. Cardinality(AllFileRefs(f)') = Cardinality(AllFileRefs(f)) - FileRefs(p, f)
      <4>1. /\ Row(p, SlotsToFile(p, f)) \subseteq AllFileRefs(f)
            /\ Cardinality(Row(p, SlotsToFile(p, f))) = FileRefs(p, f)
            /\ IsFiniteSet(AllFileRefs(f))
        BY RowRefs, RefsFinite
      <4> QED
        BY <3>2, <4>1, RemoveSet
    <3>4. count'[f] = count[f] - FileRefs(p, f)
      BY DEF ReapFiles
    <3>5. count[f] = Cardinality(AllFileRefs(f)) /\ FileRefs(p, f) \in Nat /\ count[f] \in Int
      BY <1>1, <1>2, CountsOfUser, RefsAreNaturals DEF Inv, Tables
    <3> QED
      BY <3>3, <3>4, <3>5
  <2> QED
    BY <1>1, <1>2, <2>1, CountsOfUser
<1>10. NoFiles'
  BY <1>1, <1>4 DEF Inv, NoFiles
<1>11. CallOK(c)'
  BY <1>1, <1>2, CountsOfUser
<1> QED
  BY <1>8, <1>9, <1>10, <1>11
-----------------------------------------------------------------------------
(* While the core is in a call, its next step is one of the call. *)
LEMMA StepOfCall ==
  ASSUME NEW c, Core = {c}, pc[c] # "user", [Next]_vars
  PROVE  Kernel(c) \/ UNCHANGED vars
<1>1. \A p \in Proc : CoreOf[p] = c
  BY FileTableAssumption
<1>2. /\ \A p \in Proc, f \in File : ~Open(p, f)
      /\ \A p \in Proc, fd \in Fds : ~Close(p, fd)
      /\ \A p \in Proc, fd \in Fds, size \in Uint32 : ~ReadFile(p, fd, size)
      /\ \A p, q \in Proc : ~ForkFiles(p, q)
      /\ \A p \in Proc : ~ReapFiles(p)
  BY <1>1 DEF Open, Close, ReadFile, PassesTest, ForkFiles, ReapFiles
<1>3. Halted(c) => UNCHANGED vars
  BY DEF Halted
<1> QED
  BY <1>2, <1>3 DEF Next

LEMMA InvInit ==
  ASSUME Init, NEW c \in Core
  PROVE  Inv(c)
<1>1. Tables /\ Calls
  BY TablesInit
<1>2. pc[c] = "user" /\ \A x \in Proc \X Fds : Pointer(x) = 0
  BY DEF Init, Pointer
<1>3. 0 \notin Descs
  BY DEF Descs
<1>4. CallOK(c) /\ ReadInv(c) /\ pc[c] \notin Half
  BY <1>2 DEF CallOK, ReadInv, Opening, Closing, Reading, Half
<1>5. \A d \in Descs : AllRefs(d) = {}
  BY <1>2, <1>3 DEF AllRefs
<1>6. DescCounts
  BY <1>5, FreeDescTyped, FS_EmptySet DEF Init, DescCounts, ExactDesc
<1>7. \A f \in File : AllFileRefs(f) = {} /\ More(c, f) = 0 /\ Less(c, f) = 0
  BY <1>2, NoCountOff DEF AllFileRefs, Placing
<1>8. FileCounts(c)
  BY <1>7, FS_EmptySet DEF Init, FileCounts
<1>9. NoFiles
  BY DEF Init, NoFiles
<1> QED
  BY <1>1, <1>4, <1>6, <1>8, <1>9 DEF Inv

LEMMA InvStep ==
  ASSUME NEW c, Core = {c}, Inv(c), [Next]_vars
  PROVE  Inv(c)'
<1>1. Tables' /\ Calls'
  BY TablesStep DEF Inv
<1>e. \A l : Goto(c, l) => pc'[c] = l
  BY DEF Goto, Inv, Calls
<1>q. pc'[c] \notin Reading => ReadInv(c)'
  BY DEF ReadInv, Reading
<1>2. CASE UNCHANGED vars
  <2>1. count' = count /\ desc' = desc /\ file' = file /\ alive' = alive /\ pc' = pc /\ op' = op
    BY <1>2 DEF vars
  <2>2. NoFiles' /\ \A d : AllRefs(d)' = AllRefs(d) /\ \A f : AllFileRefs(f)' = AllFileRefs(f)
    BY <2>1 DEF Inv, NoFiles, AllRefs, AllFileRefs, Pointer
  <2>3. (DescCounts' <=> DescCounts) /\ (HalfCounts(c)' <=> HalfCounts(c))
    BY <2>1, <2>2 DEF DescCounts, HalfCounts, ExactDesc
  <2>4. CallOK(c)' /\ ReadInv(c)'
    BY <2>1 DEF Inv, CallOK, ReadInv
  <2>5. \A f : More(c, f)' = More(c, f) /\ Less(c, f)' = Less(c, f)
    BY <2>1 DEF More, Less
  <2>6. FileCounts(c)'
    BY <2>1, <2>2, <2>5 DEF Inv, FileCounts
  <2> QED
    BY <1>1, <2>1, <2>2, <2>3, <2>4, <2>6 DEF Inv
<1>3. CASE Kernel(c)
  <2>1. pc[c] \notin Half => DescCounts
    BY DEF Inv
  <2>2. CASE GetFcbLoad(c) \/ PutFcbLoad(c)
    <3>1. pc[c] \notin Half /\ pc'[c] \notin Half \cup Reading
      BY <1>e, <2>2 DEF GetFcbLoad, PutFcbLoad, Half, Reading
    <3> QED
      BY <1>1, <1>q, <2>1, <2>2, <3>1, LoadOK DEF Inv
  <2>3. CASE GetFcbStore(c) \/ PutFcbStore(c)
    <3>1. pc[c] \notin Half /\ pc'[c] \notin Half \cup Reading
      BY <1>e, <2>3 DEF GetFcbStore, PutFcbStore, Half, Reading
    <3> QED
      BY <1>1, <1>q, <2>1, <2>3, <3>1, StoreOK DEF Inv
  <2>4. CASE OpenClear(c)
    <3>1. pc[c] \notin Half /\ pc'[c] \notin Half \cup Reading
      BY <1>e, <2>4 DEF OpenClear, Half, Reading
    <3> QED
      BY <1>1, <1>q, <2>1, <2>4, <3>1, OpenClearOK DEF Inv
  <2>5. CASE OpenFcb(c)
    <3>1. pc[c] \notin Half /\ pc'[c] \notin Reading
      BY <1>e, <2>5 DEF OpenFcb, Half, Reading
    <3> QED
      BY <1>1, <1>q, <2>1, <2>5, <3>1, OpenFcbOK DEF Inv
  <2>6. CASE OpenCount(c)
    <3>1. pc'[c] \notin Reading
      BY <1>e, <2>6 DEF OpenCount, Reading
    <3> QED
      BY <1>1, <1>q, <2>6, <3>1, OpenCountOK DEF Inv
  <2>7. CASE OpenLink(c)
    <3>1. pc'[c] \notin Half \cup Reading
      BY <1>e, <2>7 DEF OpenLink, Half, Reading
    <3> QED
      BY <1>1, <1>q, <2>7, <3>1, OpenLinkOK DEF Inv
  <2>8. CASE CloseDesc(c)
    <3>1. pc[c] \notin Half /\ pc'[c] \notin Half \cup Reading
      BY <1>e, <2>8 DEF CloseDesc, Half, Reading
    <3> QED
      BY <1>1, <1>q, <2>1, <2>8, <3>1, CloseDescOK DEF Inv
  <2>9. CASE ReadRaw(c)
    <3>1. pc[c] \notin Half
      BY <2>9 DEF ReadRaw, Half
    <3>2. pc'[c] \notin Half /\ ReadInv(c)'
      BY <2>1, <2>9, <3>1, ReadRawOK DEF Half
    <3> QED
      BY <1>1, <2>1, <2>9, <3>1, <3>2, ReadRawOK DEF Inv
  <2>10. CASE ReadLoad(c)
    <3>1. pc[c] \notin Half
      BY <2>10 DEF ReadLoad, Half
    <3>2. pc'[c] \notin Half /\ ReadInv(c)'
      BY <2>1, <2>10, <3>1, ReadLoadOK DEF Half
    <3> QED
      BY <1>1, <2>1, <2>10, <3>1, <3>2, ReadLoadOK DEF Inv
  <2>11. CASE ReadStore(c)
    <3>1. pc[c] \notin Half /\ pc'[c] \notin Half \cup Reading
      BY <1>e, <2>11 DEF ReadStore, Half, Reading
    <3> QED
      BY <1>1, <1>q, <2>1, <2>11, <3>1, ReadStoreOK DEF Inv
  <2> QED
    BY <1>3, <2>2, <2>3, <2>4, <2>5, <2>6, <2>7, <2>8, <2>9, <2>10, <2>11 DEF Kernel
<1>4. CASE pc[c] = "user"
  <2>1. DescCounts
    BY <1>4 DEF Inv, Half
  <2>p. \A p \in Proc : CoreOf[p] = c
    BY FileTableAssumption
  <2>2. ASSUME NEW p \in Proc, NEW f \in File, Open(p, f) PROVE Inv(c)'
    <3>1. pc'[c] \notin Half \cup Reading
      BY <1>e, <2>2, <2>p DEF Open, Half, Reading
    <3> QED
      BY <1>1, <1>q, <2>1, <2>2, <3>1, OpenOK DEF Inv
  <2>3. ASSUME NEW p \in Proc, NEW fd \in Fds, Close(p, fd) PROVE Inv(c)'
    <3>1. pc'[c] \notin Half \cup Reading
      BY <1>e, <2>3, <2>p DEF Close, Half, Reading
    <3> QED
      BY <1>1, <1>q, <2>1, <2>3, <3>1, CloseOK DEF Inv
  <2>4. ASSUME NEW p \in Proc, NEW fd \in Fds, NEW size \in Uint32, ReadFile(p, fd, size) PROVE Inv(c)'
    <3>1. pc'[c] \notin Half
      BY <2>1, <2>4, ReadFileOK DEF Half
    <3> QED
      BY <1>1, <2>1, <2>4, <3>1, ReadFileOK DEF Inv
  <2>5. ASSUME NEW p \in Proc, NEW q \in Proc, ForkFiles(p, q) PROVE Inv(c)'
    <3>1. pc'[c] \notin Half \cup Reading
      BY <1>4, <2>5 DEF ForkFiles, Half, Reading
    <3> QED
      BY <1>1, <1>q, <2>1, <2>5, <3>1, ForkFilesOK DEF Inv
  <2>6. ASSUME NEW p \in Proc, ReapFiles(p) PROVE Inv(c)'
    <3>1. pc'[c] \notin Half \cup Reading
      BY <1>4, <2>6 DEF ReapFiles, Half, Reading
    <3> QED
      BY <1>1, <1>q, <2>1, <2>6, <3>1, ReapFilesOK DEF Inv
  <2>7. ASSUME Halted(c) PROVE Inv(c)'
    BY <1>4, <2>7 DEF Halted, Stopped
  <2> QED
    BY <1>2, <1>3, <2>2, <2>3, <2>4, <2>5, <2>6, <2>7 DEF Next
<1>5. CASE pc[c] # "user"
  <2>1. Kernel(c) \/ UNCHANGED vars
    BY <1>5, StepOfCall DEF Inv
  <2> QED
    BY <1>2, <1>3, <2>1
<1> QED
  BY <1>4, <1>5

LEMMA Invariance ==
  ASSUME NEW CONSTANT c, Core = {c}
  PROVE  Spec => []Inv(c)
<1>1. Init => Inv(c)
  BY InvInit
<1>2. Inv(c) /\ [Next]_vars => Inv(c)'
  BY InvStep
<1> QED
  BY <1>1, <1>2, PTL DEF Spec

(* What the invariant says of a core. *)
LEMMA InvImplies ==
  ASSUME NEW c, Core = {c}, Inv(c)
  PROVE  TypeOK /\ CountsExact /\ PutFcbAssertion
<1>1. PutFcbAssertion
  BY DEF Inv, CallOK, PutFcbAssertion
<1>2. CountsExact
  <2> SUFFICES ASSUME pc[c] = "user"
               PROVE  /\ \A d \in Descs : /\ desc[d].count = Cardinality(AllRefs(d))
                                          /\ desc[d].fcb = NULL <=> desc[d].count = 0
                      /\ \A f \in File : count[f] = Cardinality(AllFileRefs(f))
    BY DEF CountsExact
  <2>1. \A f : More(c, f) = 0 /\ Less(c, f) = 0
    BY NoCountOff DEF Placing
  <2> QED
    BY <2>1, RefsFinite DEF Inv, FileCounts, DescCounts, ExactDesc, Half, Tables
<1>3. \A d \in Descs : desc[d] \in [fcb : File \cup {NULL}, position : Uint32, count : Nat]
  <2>1. \A d \in Descs : ExactDesc(d) => desc[d].count \in Nat
    BY RefsFinite DEF ExactDesc
  <2>2. \A d \in Descs : desc[d].count \in Nat
    BY <2>1 DEF Inv, DescCounts, HalfCounts
  <2> QED
    BY <2>2 DEF Inv, Tables, DescType
<1>4. \A f \in File : count[f] \in Nat
  <2> SUFFICES ASSUME NEW f \in File PROVE count[f] \in Nat
    OBVIOUS
  <2>1. count[f] \in Int /\ count[f] + Less(c, f) = Cardinality(AllFileRefs(f)) + More(c, f)
        /\ Cardinality(AllFileRefs(f)) \in Nat
    BY RefsFinite DEF Inv, Tables, FileCounts
  <2>2. More(c, f) \in {0, 1} /\ Less(c, f) \in {0, 1}
    BY DEF More, Less
  <2>3. Less(c, f) = 1 => Cardinality(AllFileRefs(f)) > 0
    <3> SUFFICES ASSUME Less(c, f) = 1 PROVE Cardinality(AllFileRefs(f)) > 0
      OBVIOUS
    <3>1. pc[c] = "close_desc" /\ op[c].f = f
      BY DEF Less
    <3>2. op[c].p \in Proc /\ op[c].fd \in Fds /\ op[c].d \in Descs
      BY <3>1 DEF Inv, Calls, Locals, Opening, Closing, Reading
    <3>3. file[op[c].p][op[c].fd] = op[c].d /\ desc[op[c].d].fcb = f
      BY <3>1 DEF Inv, CallOK, Opening, Closing, Reading, Half
    <3>4. Tables /\ DescCounts
      BY <3>1 DEF Inv, Half
    <3> QED
      BY <3>2, <3>3, <3>4, LinkedDesc
  <2> QED
    BY <2>1, <2>2, <2>3
<1>5. /\ desc \in [Descs -> [fcb : File \cup {NULL}, position : Uint32, count : Nat]]
      /\ count \in [File -> Nat]
  BY <1>3, <1>4 DEF Inv, Tables
<1>6. TypeOK
  BY <1>5 DEF Inv, Tables, Calls, Labels, TypeOK
<1> QED
  BY <1>1, <1>2, <1>6

-----------------------------------------------------------------------------
(* Only the store of a read, and open_file's memset of a free descriptor, change a position. *)
LEMMA PositionKept ==
  ASSUME NEW c, Core = {c}, Inv(c), [Next]_vars, ~ReadStore(c), ~OpenClear(c)
  PROVE  \A d \in Descs : desc'[d].position = desc[d].position
<1>1. CASE desc' = desc
  BY <1>1
<1>2. CASE OpenFcb(c) \/ OpenCount(c) \/ CloseDesc(c)
  <2>1. op[c].d \in Descs
    BY <1>2 DEF OpenFcb, OpenCount, CloseDesc, Inv, Calls, Locals, Opening, Closing, Reading
  <2>2. desc[op[c].d] \in DescType
    BY <2>1 DEF Inv, Tables
  <2>3. CASE OpenFcb(c)
    <3>1. op[c].f \in File
      BY <2>3 DEF OpenFcb, Inv, Calls, Locals, Opening
    <3>2. PICK r \in DescType : r = [desc[op[c].d] EXCEPT !.fcb = op[c].f] /\ r.position = desc[op[c].d].position
      BY <2>2, <3>1, FcbTyped
    <3>3. desc' = [desc EXCEPT ![op[c].d] = r]
      BY <2>1, <2>3, <3>2 DEF OpenFcb, Inv, Tables
    <3> QED
      BY <2>1, <3>2, <3>3 DEF Inv, Tables
  <2>4. CASE OpenCount(c)
    <3>1. PICK n \in Int : n = 1
      OBVIOUS
    <3>2. PICK r \in DescType : r = [desc[op[c].d] EXCEPT !.count = n] /\ r.position = desc[op[c].d].position
      BY <2>2, CountTyped
    <3>3. desc' = [desc EXCEPT ![op[c].d] = r]
      BY <2>1, <2>4, <3>1, <3>2 DEF OpenCount, Inv, Tables
    <3> QED
      BY <2>1, <3>2, <3>3 DEF Inv, Tables
  <2>5. CASE CloseDesc(c)
    <3>1. PICK n \in Nat : n = 1
      OBVIOUS
    <3>2. PICK r \in DescType : r = Drop(desc[op[c].d], n) /\ r.position = desc[op[c].d].position
      BY <2>2, DropTyped
    <3>3. desc' = [desc EXCEPT ![op[c].d] = r]
      BY <2>1, <2>5, <3>1, <3>2 DEF CloseDesc, Inv, Tables
    <3> QED
      BY <2>1, <3>2, <3>3 DEF Inv, Tables
  <2> QED
    BY <1>2, <2>3, <2>4, <2>5
<1>3. ASSUME NEW p \in Proc, NEW q \in Proc, ForkFiles(p, q)
      PROVE  \A d \in Descs : desc'[d].position = desc[d].position
  BY <1>3, RefsAreNaturals, RaiseTyped DEF ForkFiles, Inv, Tables
<1>4. ASSUME NEW p \in Proc, ReapFiles(p)
      PROVE  \A d \in Descs : desc'[d].position = desc[d].position
  BY <1>4, RefsAreNaturals, DropTyped DEF ReapFiles, Inv, Tables
<1>5. ASSUME Kernel(c)
      PROVE  desc' = desc \/ OpenFcb(c) \/ OpenCount(c) \/ CloseDesc(c)
  BY <1>5 DEF Kernel, GetFcbLoad, GetFcbStore, OpenLink, PutFcbLoad, PutFcbStore, ReadRaw, ReadLoad
<1>6. /\ \A p \in Proc, f \in File : Open(p, f) => desc' = desc
      /\ \A p \in Proc, fd \in Fds : Close(p, fd) => desc' = desc
      /\ \A p \in Proc, fd \in Fds, size \in Uint32 : ReadFile(p, fd, size) => desc' = desc
      /\ Halted(c) => desc' = desc
      /\ UNCHANGED vars => desc' = desc
  BY DEF Open, Close, ReadFile, PassesTest, Halted, vars
<1> QED
  BY <1>1, <1>2, <1>3, <1>4, <1>5, <1>6 DEF Next

(* The bytes from start: all of size when the sum does not wrap, else those of the chain. *)
LEMMA ReadSizeOfSum ==
  ASSUME NEW f \in File, NEW start \in Uint32, NEW size \in Uint32, start < Chain[f],
         (start + size) % Word <= FileSize[f]
  PROVE  /\ start + size < Word => /\ ReadSize(f, start, size) = size
                                   /\ start + size <= FileSize[f]
                                   /\ (start + ReadSize(f, start, size)) % Word = start + size
         /\ start + size >= Word => (start + ReadSize(f, start, size)) % Word = Chain[f]
<1>1. /\ FileSize[f] \in Nat /\ Chain[f] \in Nat /\ Word \in Nat /\ FileSize[f] <= Chain[f]
      /\ Chain[f] < Word /\ start \in Nat /\ size \in Nat
  BY FileTableAssumption DEF Uint32
<1>2. ASSUME start + size < Word
      PROVE  /\ ReadSize(f, start, size) = size /\ start + size <= FileSize[f]
             /\ (start + ReadSize(f, start, size)) % Word = start + size
  <2>1. start + size \in Nat
    BY <1>1
  <2>2. (start + size) % Word = start + size
    BY <1>2, <2>1, Wraps
  <2>3. ReadSize(f, start, size) = size
    BY <1>1, <2>2 DEF ReadSize
  <2> QED
    BY <2>2, <2>3
<1>3. ASSUME start + size >= Word
      PROVE  (start + ReadSize(f, start, size)) % Word = Chain[f]
  <2>1. start + ReadSize(f, start, size) = Chain[f]
    BY <1>1, <1>3 DEF ReadSize
  <2> QED
    BY <1>1, <2>1, Wraps
<1> QED
  BY <1>2, <1>3

LEMMA ReadStoreAdvances ==
  ASSUME NEW c, Core = {c}, Inv(c), ReadStore(c)
  PROVE  AdvanceOK
<1>1. pc[c] = "read_store"
  BY DEF ReadStore
<1>2. /\ op[c].d \in Descs
      /\ \A d \in Descs : d # op[c].d => desc'[d] = desc[d]
      /\ desc'[op[c].d].position = (op[c].loaded + op[c].read_size) % Word
  BY ReadStored
<1>3. desc[op[c].d].fcb = op[c].f /\ op[c].f \in File
  BY <1>1 DEF Inv, CallOK, Opening, Closing, Reading, Half
<1>4. /\ desc[op[c].d].position = op[c].start /\ op[c].loaded = op[c].start
      /\ (op[c].start + op[c].size) % Word <= FileSize[op[c].f]
      /\ op[c].start < Chain[op[c].f] /\ op[c].read_size = ReadSize(op[c].f, op[c].start, op[c].size)
  BY <1>1 DEF Inv, ReadInv, Reading
<1>5. op[c].start \in Uint32 /\ op[c].size \in Uint32
  BY DEF Inv, Calls, OpType
<1>6. /\ op[c].start + op[c].size < Word =>
           /\ desc'[op[c].d].position = op[c].start + op[c].size
           /\ op[c].start + op[c].size <= FileSize[op[c].f]
      /\ op[c].start + op[c].size >= Word => desc'[op[c].d].position = Chain[op[c].f]
  BY <1>2, <1>3, <1>4, <1>5, ReadSizeOfSum
<1>7. op[c].start + op[c].size < Word \/ op[c].start + op[c].size >= Word
  BY <1>5, FileTableAssumption DEF Uint32
<1> SUFFICES ASSUME NEW d \in Descs, desc'[d].position # desc[d].position
             PROVE  /\ op[c].d = d /\ op[c].start = desc[d].position
                    /\ LET end == op[c].start + op[c].size
                       IN IF end < Word
                          THEN desc'[d].position = end /\ end <= FileSize[desc[d].fcb]
                          ELSE desc'[d].position = Chain[desc[d].fcb]
  BY DEF AdvanceOK
<1>8. op[c].d = d
  BY <1>2
<1> QED
  BY <1>3, <1>4, <1>6, <1>7, <1>8

LEMMA StepAdvances ==
  ASSUME NEW c, Core = {c}, Inv(c), [Next]_vars
  PROVE  AdvanceOK
<1>1. CASE ReadStore(c)
  BY <1>1, ReadStoreAdvances
<1>2. CASE OpenClear(c)
  <2>1. op[c].d \in Descs /\ desc[op[c].d].fcb = NULL
    <3>1. pc[c] = "open_clear"
      BY <1>2 DEF OpenClear
    <3> QED
      BY <3>1 DEF Inv, CallOK, Calls, Locals, Opening, Closing, Reading, Half
  <2>2. \A d \in Descs : d # op[c].d => desc'[d] = desc[d]
    BY <1>2 DEF OpenClear, Inv, Tables
  <2> QED
    BY <2>1, <2>2 DEF AdvanceOK
<1>3. CASE ~ReadStore(c) /\ ~OpenClear(c)
  BY <1>3, PositionKept DEF AdvanceOK
<1> QED
  BY <1>1, <1>2, <1>3

-----------------------------------------------------------------------------
(***************************************************************************)
(* The hypothesis of what follows.  On two cores the counts are wrong and  *)
(* the assertion fails, as neither table has a lock: MCFileTableRace.      *)
(***************************************************************************)
SingleCore == \E c : Core = {c}

(***************************************************************************)
(* On one core the counts of file.c are never negative and the tables have *)
(* their types, for any number of processes, files and descriptors.        *)
(***************************************************************************)
THEOREM TablesTyped == SingleCore => (Spec => []TypeOK)
<1> SUFFICES ASSUME SingleCore PROVE Spec => []TypeOK
  OBVIOUS
<1>1. PICK c : Core = {c}
  BY DEF SingleCore
<1>2. Spec => []Inv(c)
  BY <1>1, Invariance
<1>3. Inv(c) => TypeOK
  BY <1>1, InvImplies
<1> QED
  BY <1>2, <1>3, PTL

(***************************************************************************)
(* On one core, between calls, a descriptor counts the pointers to it, an  *)
(* FCB the pointers to its descriptors, and a descriptor is free exactly   *)
(* when nothing points to it: fork and wait add and drop what open_file    *)
(* and close_file would have.                                              *)
(***************************************************************************)
THEOREM CountsStayExact == SingleCore => (Spec => []CountsExact)
<1> SUFFICES ASSUME SingleCore PROVE Spec => []CountsExact
  OBVIOUS
<1>1. PICK c : Core = {c}
  BY DEF SingleCore
<1>2. Spec => []Inv(c)
  BY <1>1, Invariance
<1>3. Inv(c) => CountsExact
  BY <1>1, InvImplies
<1> QED
  BY <1>2, <1>3, PTL

(***************************************************************************)
(* On one core ASSERT(fcb->count > 0) of put_fcb holds, which on two it    *)
(* does not.                                                               *)
(***************************************************************************)
THEOREM PutFcbAsserts == SingleCore => (Spec => []PutFcbAssertion)
<1> SUFFICES ASSUME SingleCore PROVE Spec => []PutFcbAssertion
  OBVIOUS
<1>1. PICK c : Core = {c}
  BY DEF SingleCore
<1>2. Spec => []Inv(c)
  BY <1>1, Invariance
<1>3. Inv(c) => PutFcbAssertion
  BY <1>1, InvImplies
<1> QED
  BY <1>2, <1>3, PTL

(***************************************************************************)
(* On one core a read moves a position from where its test read it, by all *)
(* of the size it was asked for, to at most the end of the file, whatever  *)
(* other processes with the same descriptor did before: or else the 32-bit *)
(* sum of the test has wrapped around, and the position is then the end of *)
(* the file's last cluster.                                                *)
(***************************************************************************)
THEOREM ReadsAdvanceBySize == SingleCore => (Spec => ReadsAdvance)
<1> SUFFICES ASSUME SingleCore PROVE Spec => ReadsAdvance
  OBVIOUS
<1>1. PICK c : Core = {c}
  BY DEF SingleCore
<1>2. Spec => []Inv(c)
  BY <1>1, Invariance
<1>3. Inv(c) /\ [Next]_vars => [AdvanceOK]_vars
  BY <1>1, StepAdvances
<1> QED
  BY <1>2, <1>3, PTL DEF Spec, ReadsAdvance
=============================================================================

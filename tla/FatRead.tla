------------------------------ MODULE FatRead ------------------------------
(***************************************************************************)
(* Reading a file of the FAT16 image: read_file and read_raw_data of       *)
(* src/src/file.c, one loop iteration per action, for a program that reads *)
(* the file in pieces of any size.  A byte of the image is known by its    *)
(* cluster and its offset in it; memcpy is the copying of those.           *)
(***************************************************************************)
EXTENDS Integers, Sequences, SequencesExt

CONSTANTS ClusterSize,   \* bytes_per_sector * sectors_per_cluster
          LastCluster,   \* the image has the clusters 2..LastCluster
          MaxLen         \* bound on the number of clusters of the file

Clusters == 2..LastCluster

EndOfChain == LastCluster + 1   \* any entry of at least 0xfff7

VARIABLES fat,        \* the file allocation table
          cluster_index, file_size,   \* the directory entry, copied to the FCB
          position,   \* of the file descriptor
          got,        \* history: all bytes that the reads have returned
          rpc,        \* where the reader is
          size, count, offset, index, read_size, buffer   \* of read_raw_data

file == <<fat, cluster_index, file_size>>
locals == <<size, count, offset, index, read_size, buffer>>
vars == <<file, position, got, rpc, locals>>

(* The files: a chain of distinct clusters, the last one used at least in part. *)
Chains == {c \in UNION {[1..n -> Clusters] : n \in 1..MaxLen} : IsInjective(c)}

FatOf(chain) == [i \in Clusters |->
                   IF i \in Range(chain)
                   THEN LET k == CHOOSE k \in DOMAIN chain : chain[k] = i
                        IN IF k = Len(chain) THEN EndOfChain ELSE chain[k + 1]
                   ELSE 0]

Init ==
  /\ fat = [i \in Clusters |-> 0] /\ cluster_index = 0 /\ file_size = 0
  /\ position = 0
  /\ got = <<>>
  /\ rpc = "closed"
  /\ size = 0 /\ count = 0 /\ offset = 0 /\ index = 0 /\ read_size = 0
  /\ buffer = <<>>

TypeOK ==
  /\ position \in 0..file_size
  /\ rpc \in {"closed", "user", "walk", "first", "loop", "return", "asserted"}
  /\ index \in {0, EndOfChain} \cup Clusters
  /\ count \in 0..MaxLen /\ offset \in 0..ClusterSize-1
  /\ read_size \in 0..size

(* The n bytes of cluster i from offset o on, as memcpy copies them. *)
Bytes(i, o, n) == [b \in 1..n |-> <<i, o + b - 1>>]
-----------------------------------------------------------------------------
(* open_file of a file with that chain and size. *)
OpenFile(chain, bytes) ==
  /\ rpc' = "user"
  /\ fat' = FatOf(chain)
  /\ cluster_index' = chain[1]
  /\ file_size' = bytes
  /\ UNCHANGED <<position, got, locals>>

(* read_file refuses a read past the end of the file. *)
ReadRefused(n) ==
  /\ rpc = "user"
  /\ position + n > file_size
  /\ UNCHANGED vars

(* Mutant for TypeOK: only the position is compared with the size of the file. *)
ReadFilePast(n) ==
  /\ rpc = "user"
  /\ position <= file_size
  /\ size' = n
  /\ count' = position \div ClusterSize
  /\ offset' = position % ClusterSize
  /\ index' = cluster_index
  /\ read_size' = 0 /\ buffer' = <<>>
  /\ rpc' = "walk"
  /\ UNCHANGED <<file, position, got>>

(* read_file of n bytes enters read_raw_data. *)
ReadFile(n) ==
  /\ rpc = "user"
  /\ position + n <= file_size
  /\ size' = n
  /\ count' = position \div ClusterSize
  /\ offset' = position % ClusterSize
  /\ index' = cluster_index
  /\ read_size' = 0 /\ buffer' = <<>>
  /\ rpc' = "walk"
  /\ UNCHANGED <<file, position, got>>

(* One step along the chain, ASSERT(index < 0xfff7) included. *)
Walk ==
  /\ rpc = "walk" /\ count > 0
  /\ index' = fat[index]
  /\ count' = count - 1
  /\ rpc' = IF fat[index] < EndOfChain THEN "walk" ELSE "asserted"
  /\ UNCHANGED <<file, position, got, size, offset, read_size, buffer>>

(* Mutant for ReadsTheFile: the rest of the first cluster is not cut off. *)
FirstWholeSize ==
  /\ rpc = "walk" /\ count = 0 /\ offset # 0
  /\ read_size' = size
  /\ buffer' = Bytes(index, offset, size)
  /\ index' = fat[index]
  /\ rpc' = "loop"
  /\ UNCHANGED <<file, position, got, size, count, offset>>

(* The first cluster, when the position is inside it. *)
FirstCluster ==
  /\ rpc = "walk" /\ count = 0 /\ offset # 0
  /\ LET n == IF offset + size <= ClusterSize THEN size ELSE ClusterSize - offset
     IN read_size' = n /\ buffer' = Bytes(index, offset, n)
  /\ index' = fat[index]
  /\ rpc' = "loop"
  /\ UNCHANGED <<file, position, got, size, count, offset>>

AtBoundary ==
  /\ rpc = "walk" /\ count = 0 /\ offset = 0
  /\ rpc' = "loop"
  /\ UNCHANGED <<file, position, got, locals>>

(* A whole cluster that is not the last one of the read. *)
WholeCluster ==
  /\ rpc = "loop" /\ read_size < size /\ index < EndOfChain
  /\ read_size + ClusterSize < size
  /\ buffer' = buffer \o Bytes(index, 0, ClusterSize)
  /\ read_size' = read_size + ClusterSize
  /\ index' = fat[index]
  /\ UNCHANGED <<file, position, got, rpc, size, count, offset>>

(* The last cluster of the read. *)
LastPart ==
  /\ rpc = "loop" /\ read_size < size /\ index < EndOfChain
  /\ read_size + ClusterSize >= size
  /\ buffer' = buffer \o Bytes(index, 0, size - read_size)
  /\ read_size' = size
  /\ rpc' = "return"
  /\ UNCHANGED <<file, position, got, size, count, offset, index>>

LoopEnds ==
  /\ rpc = "loop" /\ ~(read_size < size /\ index < EndOfChain)
  /\ rpc' = "return"
  /\ UNCHANGED <<file, position, got, locals>>

(* read_file moves the position by what read_raw_data has returned. *)
Return ==
  /\ rpc = "return"
  /\ position' = position + read_size
  /\ got' = got \o buffer
  /\ rpc' = "user"
  /\ size' = 0 /\ count' = 0 /\ offset' = 0 /\ index' = 0 /\ read_size' = 0
  /\ buffer' = <<>>
  /\ UNCHANGED file

(* error_check prints and does not return. *)
Halted == rpc = "asserted" /\ UNCHANGED vars

Sizes(chain) == (Len(chain) - 1) * ClusterSize + 1 .. Len(chain) * ClusterSize

Next ==
  \/ rpc = "closed" /\ \E chain \in Chains : \E bytes \in Sizes(chain) : OpenFile(chain, bytes)
  \/ \E n \in 0..file_size + 1 : ReadFile(n) \/ ReadRefused(n)
  \/ Walk \/ FirstCluster \/ AtBoundary \/ WholeCluster \/ LastPart \/ LoopEnds
  \/ Return \/ Halted

Spec == Init /\ [][Next]_vars
-----------------------------------------------------------------------------
(* The k-th cluster of the file. *)
Nth[k \in Nat] == IF k = 0 THEN cluster_index ELSE fat[Nth[k - 1]]

(* The first n bytes of the file. *)
Prefix(n) == [b \in 1..n |-> <<Nth[(b - 1) \div ClusterSize], (b - 1) % ClusterSize>>]

(***************************************************************************)
(* However a program cuts its reads, it gets the file's bytes in order and *)
(* each of them once: what it has read so far are the first position bytes *)
(* of the file.  And a read returns as many bytes as it was asked for: the *)
(* chain does not end before the read does.                                *)
(***************************************************************************)
ReadsTheFile ==
  /\ got = Prefix(position)
  /\ rpc = "return" => read_size = size /\ Len(buffer) = size

(***************************************************************************)
(* ASSERT(index < 0xfff7) of read_raw_data holds: the walk to the position *)
(* stays on the chain.                                                     *)
(***************************************************************************)
WalkStaysOnChain == rpc # "asserted"
=============================================================================

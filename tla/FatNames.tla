----------------------------- MODULE FatNames -----------------------------
(***************************************************************************)
(* Finding a file by its path: split_path and search_file of               *)
(* src/src/file.c.  A path is split into a name of up to NameLen and an    *)
(* extension of up to ExtLen characters (8 and 3 in the code), both padded *)
(* with blanks, and compared with the entries of the root directory.       *)
(***************************************************************************)
EXTENDS Integers, Sequences, SequencesExt, FiniteSetsExt

CONSTANTS NameLen, ExtLen,
          Letter,       \* the characters of names
          MaxPath,      \* bound on the length of paths
          Entries       \* root_entry_count

Blank == " "

NotFound == -1   \* 0xffffffff

(***************************************************************************)
(* What a slot of the directory holds: nothing or a deleted file (seen in  *)
(* the first byte of its name), a piece of a long name (its attributes are *)
(* 0xf), or a file.                                                        *)
(***************************************************************************)
Kinds == {"empty", "deleted", "longname", "file"}

Padded(s, n) == [i \in 1..n |-> IF i <= Len(s) THEN s[i] ELSE Blank]

Words(n) == UNION {[1..k -> Letter] : k \in 0..n}

DirEntries == [kind : Kinds,
               name : {Padded(w, NameLen) : w \in Words(NameLen) \ {<<>>}},
               ext  : {Padded(w, ExtLen) : w \in Words(ExtLen)}]

Paths == UNION {[1..k -> Letter \cup {".", "/"}] : k \in 0..MaxPath}

VARIABLES dir,    \* the root directory
          path,   \* the argument of search_file
          found   \* its result

vars == <<dir, path, found>>
-----------------------------------------------------------------------------
(* How many characters the first loop of split_path copies. *)
NameStops(p) == Min({i \in 0..Len(p) : i = NameLen \/ i = Len(p) \/ p[i + 1] = "."})

(* What is left behind the name and the dot. *)
AfterDot(p) == SubSeq(p, NameStops(p) + 2, Len(p))

HasDot(p) == NameStops(p) < Len(p) /\ p[NameStops(p) + 1] = "."

(* The extension that the second loop copies: at most ExtLen characters. *)
Extension(p) == IF HasDot(p) THEN SubSeq(AfterDot(p), 1, Min({ExtLen, Len(AfterDot(p))}))
                             ELSE <<>>

(* Mutant for SearchIsExact: the test of the path's end is missing. *)
AnyEnd(p) == "/" \notin Range(SubSeq(p, 1, NameStops(p))) /\ "/" \notin Range(Extension(p))

(* split_path returns true: no slash on the way, and nothing is left over. *)
Accepts(p) ==
  /\ "/" \notin Range(SubSeq(p, 1, NameStops(p)))
  /\ "/" \notin Range(Extension(p))
  /\ NameStops(p) + (IF HasDot(p) THEN 1 + Len(Extension(p)) ELSE 0) = Len(p)

is_file_name_equal(entry, p) ==
  /\ entry.name = Padded(SubSeq(p, 1, NameStops(p)), NameLen)
  /\ entry.ext = Padded(Extension(p), ExtLen)

Matches(d, p) == {i \in DOMAIN d : d[i].kind = "file" /\ is_file_name_equal(d[i], p)}

(* The index of the first matching entry; entries count from 1 here. *)
search_file(d, p) == IF Accepts(p) /\ Matches(d, p) # {} THEN Min(Matches(d, p)) ELSE NotFound

Init == dir = <<>> /\ path = <<>> /\ found = 0

(* search_file of any path, on an image with any root directory. *)
Search(d, p) == dir' = d /\ path' = p /\ found' = search_file(d, p)

Next == found = 0 /\ \E d \in [1..Entries -> DirEntries], p \in Paths : Search(d, p)

Spec == Init /\ [][Next]_vars
-----------------------------------------------------------------------------
(* The words that a directory entry holds as the padded field s. *)
Unpadded(s, n) == {w \in Words(n) : Padded(w, n) = s}

(* The ways to write the name of an entry as a path; without an extension the dot may go. *)
Spellings(entry) ==
  LET Names == Unpadded(entry.name, NameLen)
      Exts == Unpadded(entry.ext, ExtLen)
  IN {w \o <<".">> \o e : w \in Names, e \in Exts} \cup {w \in Names : <<>> \in Exts}

(***************************************************************************)
(* search_file returns an entry only if it is a file and the path is one   *)
(* of its spellings: no path that is too long, has a slash, or names a     *)
(* deleted file or a piece of a long name finds anything.                  *)
(***************************************************************************)
FoundIsNamed == found > 0 => dir[found].kind = "file" /\ path \in Spellings(dir[found])

(***************************************************************************)
(* Every file of the directory is found by each spelling of its name, the  *)
(* first one if there are several of that name.                            *)
(***************************************************************************)
ListedIsFound ==
  \A i \in DOMAIN dir :
     found # 0 /\ dir[i].kind = "file" /\ path \in Spellings(dir[i]) =>
        found \in 1..i /\ dir[found].name = dir[i].name /\ dir[found].ext = dir[i].ext

(* search_file finds what the path names, and nothing else. *)
SearchIsExact == FoundIsNamed /\ ListedIsFound
=============================================================================

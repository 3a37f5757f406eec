----------------------------- MODULE FileSystem -----------------------------
(***************************************************************************)
(* The directory entries and files the tools publish through: open with    *)
(* truncation, writes at the offset of a stream, rename and remove.  A     *)
(* name is a link to a file: who opened a file keeps writing that file     *)
(* when its name is moved.  Of the file system the code relies on.         *)
(***************************************************************************)
EXTENDS SequencesExt, Integers

CONSTANT Paths

VARIABLES
  names,          (* path -> index of its file, or None.                   *)
  files           (* file -> its parts.                                    *)

None == 0
Hole == [kind |-> "hole", of |-> <<>>]

Exists(p)  == names[p] # None
Content(p) == files[names[p]]

NoFiles == names = [p \in Paths |-> None] /\ files = <<>>

(* ofstream(p, trunc): the file the stream of p writes.                    *)
Opened(p) == IF Exists(p) THEN names[p] ELSE Len(files) + 1
OpenTruncated(p) ==
  IF Exists(p) THEN files' = [files EXCEPT ![names[p]] = <<>>] /\ UNCHANGED names
  ELSE /\ files' = Append(files, <<>>)
       /\ names' = [names EXCEPT ![p] = Len(files) + 1]

(* A write at an offset beyond the end leaves a hole.                      *)
WriteAt(f, offset, part) ==
  /\ files' = [files EXCEPT ![f] =
       [i \in 1 .. IF Len(@) > offset THEN Len(@) ELSE offset + 1 |->
          IF i = offset + 1 THEN part ELSE IF i <= Len(@) THEN @[i] ELSE Hole]]
  /\ UNCHANGED names

AppendTo(p, part) == WriteAt(names[p], Len(Content(p)), part)

Move(from, to) ==
  /\ names' = [names EXCEPT ![to] = names[from], ![from] = None]
  /\ UNCHANGED files

RemoveAll(s) ==
  /\ names' = [p \in Paths |-> IF p \in s THEN None ELSE names[p]]
  /\ UNCHANGED files
=============================================================================

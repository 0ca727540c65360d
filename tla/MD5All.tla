------------------------------- MODULE MD5All -------------------------------
(***************************************************************************)
(* What a caller of MD5All(root) may rely on, whichever of the three       *)
(* programs (serial.go, par-serial.go, bounded-serial.go) provides it: one *)
(* return, whose map and kind of error are fixed by the file tree alone.   *)
(* Which of several unreadable files the error names is not promised:      *)
(* serial.go names the first one in walk order, the other two the one      *)
(* whose digester is received first.                                       *)
(*                                                                         *)
(* filepath.Walk presents the tree as a sequence of entries 1..N in        *)
(* lexical order.  The kind of an entry is all MD5All can tell about it:   *)
(*   "regular"     a file whose bytes can be read                          *)
(*   "unreadable"  a regular file on which ioutil.ReadFile fails           *)
(*   "other"       a directory, a link, a device: not digested             *)
(*   "broken"      an entry Walk itself reports an error for               *)
(***************************************************************************)
EXTENDS Naturals

CONSTANT N                       \* the number of entries Walk would present

VARIABLES kind,                  \* the tree: the kind of each entry
          ret                    \* what MD5All returned, or Pending

Entry   == 1..N
Kind    == {"regular", "unreadable", "other", "broken"}
Pending == [sums |-> {}, err |-> "pending", file |-> 0]

\* Walk stops at the first entry it cannot stat or list, so that entry and
\* those after it are never handed to a digester.
Visited == {i \in Entry : \A j \in 1..i : kind[j] # "broken"}

\* The files whose *PathError MD5All may return, in the field file; Walk's own
\* error is always that of the first broken entry, so its file stays 0.
Unreadable == {i \in Visited : kind[i] = "unreadable"}

\* A failed read decides the result whenever Walk reaches such a file; an
\* error of Walk decides it only when every file before it could be read.  On
\* success the map holds exactly the regular files.
Outcomes ==
  IF Unreadable # {}
  THEN {[sums |-> {}, err |-> "read", file |-> i] : i \in Unreadable}
  ELSE IF \E i \in Entry : kind[i] = "broken"
       THEN {[sums |-> {}, err |-> "walk", file |-> 0]}
       ELSE {[sums |-> {i \in Entry : kind[i] = "regular"}, err |-> "nil", file |-> 0]}

Init == /\ kind \in [Entry -> Kind]
        /\ ret = Pending

Return == /\ ret = Pending
          /\ ret' \in Outcomes
          /\ UNCHANGED kind

Spec == Init /\ [][Return]_<<kind, ret>>
=============================================================================

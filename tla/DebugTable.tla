------------------------------ MODULE DebugTable ------------------------------
(***************************************************************************)
(* debug.c: the source files whose debug messages are shown.  add_debug_to *)
(* keeps their names sorted, __is_debugged searches them by bisection.     *)
(*                                                                         *)
(* A name is a number, its rank in the order of strcmp.  The table is only *)
(* read once the options are parsed, so one search at a time shows what    *)
(* the searches of several threads do.                                     *)
(***************************************************************************)
EXTENDS Integers, Sequences

CONSTANTS Names,       \* names of source files
          MaxFiles     \* MAX_FILES_NUMBER, 64

ASSUME TableAssumption == Names \subseteq Int /\ MaxFiles \in Nat \ {0}

VARIABLES
  files,     \* debugged_files[0 .. nb_debugged_files - 1]
  overrun,   \* an entry was written behind the end of the array
  search     \* the search of __is_debugged: its state ("idle", "probing" or
             \*   "done"), the name, from and to, and the result

tableVars == <<files, overrun, search>>

Idle == [state |-> "idle", name |-> 0, from |-> 0, to |-> -1, found |-> FALSE]

TableInit == files = <<>> /\ overrun = FALSE /\ search = Idle

(* Entry i of the array. *)
File(i) == files[i + 1]

(* Where add_debug_to stops: at the first name that is not smaller.        *)
IsPlace(i, name) ==
  /\ i \in 0 .. Len(files) /\ i <= MaxFiles
  /\ \A j \in 0 .. i - 1 : File(j) < name
  /\ i < Len(files) /\ i < MaxFiles => File(i) >= name

Inserted(i, name) ==
  [j \in 1 .. Len(files) + 1 |->
     IF j <= i THEN files[j] ELSE IF j = i + 1 THEN name ELSE files[j - 1]]

(* Mutant: the names are kept in the order of the options. *)
add_debug_to_last(name) ==
  /\ IF Len(files) < MaxFiles
     THEN files' = Append(files, name) ELSE UNCHANGED files
  /\ UNCHANGED <<overrun, search>>

(* The array may be full already: what was its last entry is then moved    *)
(* behind its end, and what that overwrites is not modelled.               *)
add_debug_to(name) ==
  /\ \E i \in 0 .. Len(files) :
       /\ IsPlace(i, name)
       /\ IF i >= MaxFiles THEN UNCHANGED <<files, overrun>>
          ELSE IF Len(files) < MaxFiles
               THEN files' = Inserted(i, name) /\ UNCHANGED overrun
               ELSE overrun' = TRUE /\ UNCHANGED files
  /\ UNCHANGED search

-----------------------------------------------------------------------------
(* __is_debugged, one turn of its loop at a time *)

BeginSearch(name) ==
  /\ search.state = "idle"
  /\ search' = [state |-> "probing", name |-> name, from |-> 0, to |-> Len(files) - 1,
                found |-> FALSE]
  /\ UNCHANGED <<files, overrun>>

Probing == search.state = "probing"

Found(found) == search' = [search EXCEPT !.state = "done", !.found = found]

Middle == (search.from + search.to) \div 2

(* Mutant: the upper half begins with the middle that was too small.       *)
Bisect_overlapping ==
  /\ Probing /\ search.from < search.to
  /\ \/ File(Middle) < search.name /\ search' = [search EXCEPT !.from = Middle]
     \/ File(Middle) > search.name /\ search' = [search EXCEPT !.to = Middle - 1]
     \/ File(Middle) = search.name /\ Found(TRUE)
  /\ UNCHANGED <<files, overrun>>

Bisect ==
  /\ Probing /\ search.from < search.to
  /\ \/ File(Middle) < search.name /\ search' = [search EXCEPT !.from = Middle + 1]
     \/ File(Middle) > search.name /\ search' = [search EXCEPT !.to = Middle - 1]
     \/ File(Middle) = search.name /\ Found(TRUE)
  /\ UNCHANGED <<files, overrun>>

LastProbe ==
  /\ Probing /\ search.from >= search.to
  /\ Found(search.from = search.to /\ File(search.from) = search.name)
  /\ UNCHANGED <<files, overrun>>

EndSearch ==
  /\ search.state = "done"
  /\ search' = Idle
  /\ UNCHANGED <<files, overrun>>

Search == Bisect \/ LastProbe \/ EndSearch

-----------------------------------------------------------------------------
(* A search finds exactly the names that were added, as long as the table  *)
(* was not overrun: the order add_debug_to keeps is the one __is_debugged  *)
(* relies on.                                                              *)
SearchFindsNamed ==
  ~overrun /\ search.state = "done" =>
    (search.found <=> \E i \in DOMAIN files : files[i] = search.name)

(* And it ends: each turn of the loop leaves out at least the middle.      *)
SearchEnds == Probing ~> ~Probing
=============================================================================

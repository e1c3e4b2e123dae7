---------------------------- MODULE ScannerTables ----------------------------
(***************************************************************************)
(* The scanner that flex has made of scanner.l, as it stands in scanner.c: *)
(* the tables of its automaton and the loop that matches with them.        *)
(***************************************************************************)
EXTENDS Integers, Sequences, FiniteSetsExt

Table(entries) == [i \in 0 .. Len(entries) - 1 |-> entries[i + 1]]

(* The rule a state accepts, 0 for none; 6 is the end of the buffer. *)
yy_accept == Table(<<0, 0, 0, 6, 4, 5, 4, 1, 2, 0, 0, 0, 3, 0>>)

(* The classes of characters: end of line, "#", "$", "+", "-", the         *)
(* hexadecimal digits, and the others.  A NUL is one of the others.        *)
yy_ec == [ch \in 0 .. 255 |->
  CASE ch = 10 -> 2
    [] ch = 35 -> 3
    [] ch = 36 -> 4
    [] ch = 43 -> 5
    [] ch = 45 -> 6
    [] ch \in (48 .. 57) \cup (65 .. 70) \cup (97 .. 102) -> 7
    [] OTHER -> 1]

(* Mutant: "$" is not told from the other characters. *)
yy_meta_single == Table(<<0, 1, 1, 1, 1, 1, 1, 1>>)

yy_meta == Table(<<0, 1, 1, 1, 2, 1, 1, 1>>)
yy_base == Table(<<0, 0, 0, 13, 14, 14, 9, 14, 14, 8, 3, 2, 14, 14, 7>>)
yy_def  == Table(<<0, 13, 1, 13, 13, 13, 14, 13, 13, 14, 13, 13, 13, 0, 13>>)
yy_nxt  == Table(<<0, 4, 5, 4, 6, 7, 8, 4, 9, 12, 11, 10, 10, 13, 3, 13, 13,
                   13, 13, 13, 13, 13>>)
yy_chk  == Table(<<0, 1, 1, 1, 1, 1, 1, 1, 14, 11, 10, 9, 6, 3, 13, 13, 13,
                   13, 13, 13, 13, 13>>)

(* The successor of a state: its own entry of the table if it has one,     *)
(* that of its default otherwise.                                          *)
Successor ==
  LET go[s \in 0 .. 14] ==
        [c \in 0 .. 7 |->
           IF yy_chk[yy_base[s] + c] = s THEN yy_nxt[yy_base[s] + c]
           ELSE go[yy_def[s]][IF yy_def[s] >= 14 THEN yy_meta[c] ELSE c]]
  IN  [s \in 1 .. 13 |-> [c \in 1 .. 7 |-> go[s][c]]]

(* The states before each of the characters and after the last. *)
StatesOf(chars) ==
  LET state[i \in 1 .. Len(chars) + 1] ==
        IF i = 1 THEN 1 ELSE Successor[state[i - 1]][yy_ec[chars[i - 1]]]
  IN  state

Waiting == [rule |-> 0, length |-> 0]

(* What is matched at the beginning of the characters: the rule and the    *)
(* length, or Waiting while more characters could change the answer.  The  *)
(* loop ends in a state without successors; when that one accepts nothing  *)
(* it backs up to the last that did.                                       *)
yy_match(chars, eof) ==
  LET state    == StatesOf(chars)
      Accepted(i) == [rule |-> yy_accept[state[i]], length |-> i - 1]
      stops    == {i \in DOMAIN state : yy_base[state[i]] = 14}
      end      == IF stops = {} THEN Len(chars) + 1 ELSE Min(stops)
      accepted == {i \in 1 .. end : yy_accept[state[i]] # 0}
  IN  IF (stops = {} /\ ~eof) \/ accepted = {} THEN Waiting
      ELSE Accepted(Max(accepted))
=============================================================================

---------------------------- MODULE RequestAnswer ----------------------------
(***************************************************************************)
(* What the link between the debugger and the simulator promises.  The     *)
(* debugger asks one request at a time and takes one answer for each.      *)
(*                                                                         *)
(* On an undisturbed link every request is executed exactly once, in       *)
(* order, before its answer is taken, and the answer is its own.  A        *)
(* disturbance is anything worse than a damaged body.  Packets carry no    *)
(* numbers, so after a disturbance a request may be executed again, or     *)
(* never, and an answer may be taken for a later request; but the order is *)
(* kept.                                                                   *)
(***************************************************************************)
EXTENDS Integers, Sequences

CONSTANT Requests       \* number of requests of a session

VARIABLES asked,        \* requests asked so far
          executed,     \* the requests executed, in order
          taken,        \* the request whose answer was taken, for each request
          disturbances  \* how often the link was disturbed

vars == <<asked, executed, taken, disturbances>>

Latest(seq) == IF seq = <<>> THEN 0 ELSE seq[Len(seq)]

Init == asked = 0 /\ executed = <<>> /\ taken = <<>> /\ disturbances = 0

Ask ==
  /\ Len(taken) = asked /\ asked < Requests
  /\ asked' = asked + 1
  /\ UNCHANGED <<executed, taken, disturbances>>

Execute ==
  /\ \E n \in 1 .. asked :
       /\ Latest(executed) <= n
       /\ disturbances = 0 => Latest(executed) < n /\ n = asked
       /\ executed' = Append(executed, n)
  /\ UNCHANGED <<asked, taken, disturbances>>

Take ==
  /\ Len(taken) < asked
  /\ \E i \in DOMAIN executed :
       /\ Latest(taken) <= executed[i]
       /\ disturbances = 0 => executed[i] = asked
       /\ taken' = Append(taken, executed[i])
  /\ UNCHANGED <<asked, executed, disturbances>>

Disturb ==
  /\ disturbances' = disturbances + 1
  /\ UNCHANGED <<asked, executed, taken>>

Next == Ask \/ Execute \/ Take \/ Disturb

Spec == Init /\ [][Next]_vars
=============================================================================

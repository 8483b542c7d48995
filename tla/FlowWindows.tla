---------------------------- MODULE FlowWindows ----------------------------
(***************************************************************************)
(* What the aggregator of manager/internal/aggregator promises, without    *)
(* its clock, mutex, channel or goroutines: the reports of a flow are      *)
(* counted in windows, a window that closes with enough packets is handed  *)
(* to at most one evaluation, and a window that is lost is lost whole.     *)
(***************************************************************************)
EXTENDS Integers

CONSTANTS
  Keys,         \* flows: source, destination, port and protocol
  minPackets,   \* a window that expires with fewer packets is discarded
  maxPackets    \* a window that reaches this many packets closes at once

VARIABLES
  open,         \* packets counted in the window of each flow, 0 for none
  serial,       \* windows opened so far for each flow
  pending,      \* closed windows nobody has evaluated yet
  evaluated     \* windows handed to an evaluation

absVars == <<open, serial, pending, evaluated>>

Window(k, n, p) == [key |-> k, window |-> n, packets |-> p]

AbsInit ==
  /\ open = [k \in Keys |-> 0]
  /\ serial = [k \in Keys |-> 0]
  /\ pending = {}
  /\ evaluated = {}

(* A report is counted; the one that fills the window also closes it.      *)
Count(k) ==
  LET n == IF open[k] = 0 THEN serial[k] + 1 ELSE serial[k]
      full == open[k] + 1 >= maxPackets
  IN /\ serial' = [serial EXCEPT ![k] = n]
     /\ open' = [open EXCEPT ![k] = IF full THEN 0 ELSE @ + 1]
     /\ pending' = IF full THEN pending \cup {Window(k, n, open[k] + 1)}
                           ELSE pending
     /\ UNCHANGED evaluated

(* The windows of the flows in K expire together.                          *)
Expire(K) ==
  /\ \A k \in K : open[k] > 0
  /\ open' = [k \in Keys |-> IF k \in K THEN 0 ELSE open[k]]
  /\ pending' = pending \cup {Window(k, serial[k], open[k]) :
                                k \in {q \in K : open[q] >= minPackets}}
  /\ UNCHANGED <<serial, evaluated>>

Evaluate(w) ==
  /\ pending' = pending \ {w}
  /\ evaluated' = evaluated \cup {w}
  /\ UNCHANGED <<open, serial>>

Lose(w) ==
  /\ pending' = pending \ {w}
  /\ UNCHANGED <<open, serial, evaluated>>

AbsNext ==
  \/ \E k \in Keys : Count(k)
  \/ \E K \in SUBSET Keys : Expire(K)
  \/ \E w \in pending : Evaluate(w) \/ Lose(w)

AbsSpec == AbsInit /\ [][AbsNext]_absVars
=============================================================================

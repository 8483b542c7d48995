---------------------------- MODULE ReportStream ----------------------------
(***************************************************************************)
(* What the agent promises about its reports: a stream that the manager    *)
(* reads in the order of capture, with no report missing or repeated, until*)
(* it breaks, for good; it closes only when nothing is left to deliver.    *)
(***************************************************************************)
EXTENDS Integers, Sequences

VARIABLES
  status,    \* "open", "closed" or "broken"
  waiting,   \* captured and not yet delivered
  delivered  \* received by the manager

streamVars == <<status, waiting, delivered>>

StreamInit == status = "open" /\ waiting = <<>> /\ delivered = <<>>

(* The next packet is captured: reports are numbered as they come.         *)
Capture ==
  /\ status = "open"
  /\ waiting' = Append(waiting, Len(delivered) + Len(waiting) + 1)
  /\ UNCHANGED <<status, delivered>>

(* The oldest is delivered; what was under way may arrive after the break. *)
Deliver ==
  /\ waiting # <<>>
  /\ delivered' = Append(delivered, Head(waiting)) /\ waiting' = Tail(waiting)
  /\ UNCHANGED status

Break ==
  /\ status = "open" /\ status' = "broken"
  /\ \E k \in 0 .. Len(waiting) : waiting' = SubSeq(waiting, 1, k)
  /\ UNCHANGED delivered

Close ==
  /\ status = "open" /\ waiting = <<>> /\ status' = "closed"
  /\ UNCHANGED <<waiting, delivered>>

StreamNext == Capture \/ Deliver \/ Break \/ Close

StreamSpec == StreamInit /\ [][StreamNext]_streamVars
=============================================================================

--------------------------- MODULE BoundedChannel ---------------------------
(***************************************************************************)
(* What a valid-ready buffer promises: items leave in the order in which   *)
(* they came, none is lost or made up, at most capacity of them wait, and  *)
(* an item that was offered and not taken stays on offer.                  *)
(***************************************************************************)
EXTENDS Integers, Sequences

CONSTANTS Items, None

VARIABLES
  capacity,
  queue,                 \* items inside
  accepted, delivered,   \* what came and what left at the last edge
  offer                  \* item offered and not taken at the last edge

channelVars == <<capacity, queue, accepted, delivered, offer>>

AtMostOne == {<<>>} \cup {<<item>> : item \in Items}

Init ==
  /\ capacity >= 1
  /\ queue = <<>>
  /\ accepted = <<>>
  /\ delivered = <<>>
  /\ offer = None

Reset ==
  /\ queue' = <<>>
  /\ accepted' = <<>>
  /\ delivered' = <<>>
  /\ offer' = None
  /\ UNCHANGED capacity

Transfer ==
  /\ accepted' \in AtMostOne
  /\ delivered' \in AtMostOne
  /\ queue \o accepted' = delivered' \o queue'
  /\ Len(queue') <= capacity
  /\ offer' # None => delivered' = <<>> /\ queue' # <<>> /\ offer' = Head(queue')
  /\ offer # None => delivered' = <<offer>> \/ offer' = offer
  /\ UNCHANGED capacity

Next == Reset \/ Transfer

Spec == Init /\ [][Next]_channelVars
=============================================================================

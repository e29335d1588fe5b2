---------------------------- MODULE CommandQueue ----------------------------
(***************************************************************************)
(* What the proposal rail promises the owner, with no lanes, taps,         *)
(* heartbeats or clocks: a command is offered, is either dropped or handed *)
(* to an EA once, may be carried out only after it was handed over, and is *)
(* reported as executed only if it really was carried out.  CommandRail    *)
(* implements this specification.                                          *)
(***************************************************************************)
EXTENDS Naturals

CONSTANT Ids

VARIABLES
  stage,    \* stage[i]: where command i stands
  carried   \* the commands an EA carried out successfully

vars == <<stage, carried>>

Stages == {"unborn", "open", "dropped", "handed", "executed", "refused"}

TypeOK ==
  /\ stage \in [Ids -> Stages]
  /\ carried \subseteq Ids

Init ==
  /\ stage = [i \in Ids |-> "unborn"]
  /\ carried = {}

MoveStage(i, from, to) ==
  /\ stage[i] = from
  /\ stage' = [stage EXCEPT ![i] = to]

Offer(i) == MoveStage(i, "unborn", "open") /\ UNCHANGED carried

\* The rail may drop several commands at once (a sweep) and hand one over in
\* the same step (the heartbeat that swept).
DropAndHand ==
  /\ \E dropped \in SUBSET Ids, refused \in SUBSET Ids, handed \in SUBSET Ids :
       /\ \A i \in dropped : stage[i] = "open"
       /\ \A i \in refused : stage[i] = "handed"
       /\ \A i \in handed : stage[i] = "open" /\ handed = {i}
       /\ dropped \cap handed = {}
       /\ stage' = [i \in Ids |-> CASE i \in dropped -> "dropped"
                                    [] i \in refused -> "refused"
                                    [] i \in handed  -> "handed"
                                    [] OTHER         -> stage[i]]
  /\ UNCHANGED carried

\* Carrying out a command the rail has already given up on ("refused": no
\* confirmation in time) is possible; carrying out one twice is not.
CarryOut(i) ==
  /\ stage[i] \in {"handed", "refused"}
  /\ i \notin carried
  /\ carried' = carried \cup {i}
  /\ UNCHANGED stage

Confirm(i) == i \in carried /\ MoveStage(i, "handed", "executed") /\ UNCHANGED carried

Refuse(i) == MoveStage(i, "handed", "refused") /\ UNCHANGED carried

Next ==
  \/ DropAndHand
  \/ \E i \in Ids : Offer(i) \/ CarryOut(i) \/ Confirm(i) \/ Refuse(i)

Spec == Init /\ [][Next]_vars
=============================================================================

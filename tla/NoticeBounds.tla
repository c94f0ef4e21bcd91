---------------------------- MODULE NoticeBounds ----------------------------
(* What Datafy may tell, and the bounds of DatafyNotices.                   *)
EXTENDS Naturals, Sequences

CONSTANTS
  Delivery,
  Carries,      \* the events of each delivery in their order: of the story, or Came
  Story,        \* what may become of the message sent: its statuses, each at a second
  MaxTries,     \* MAX_ATTEMPTS
  MaxTroubles   \* bound: transactions that fail, processes that stop, replays

ASSUME BoundedAssumption == MaxTries \in Nat /\ MaxTroubles \in Nat

ASSUME CarriesAssumption ==
  \A d \in Delivery :
    /\ Carries[d] \in Seq(Nat)
    /\ \A m, n \in DOMAIN Carries[d] : Carries[d][m] = Carries[d][n] => m = n

\* A message is sent, delivered and read in this order, and one that fails was
\* not delivered; of several in one second the times do not tell the order.
ASSUME StoryAssumption ==
  \A s \in Story :
    /\ s \in Seq([status : {"sent", "delivered", "read", "failed"}, second : Nat \ {0}])
    /\ \A i, j \in DOMAIN s : i < j =>
         /\ s[i].second <= s[j].second
         /\ s[j].status \in {"sent", "failed"} => s[i].status \in {"sent", "failed"}
         /\ s[j].status = "delivered" => s[i].status # "read"
=============================================================================

---------------------------- MODULE MCMessaging -----------------------------
(***************************************************************************)
(* What becomes of a message, on small instances: its sending,             *)
(* OutboundMessage, takes a unit of the channel, ChannelCapacity, before   *)
(* it transmits, and gives it the identifier by which DatafyNotices finds  *)
(* it. They meet in the database only, and a behaviour of this module      *)
(* follows one of them, with the others at rest.                           *)
(***************************************************************************)
EXTENDS OutboundMessage, ChannelBounds, NoticeBounds, TLC

CONSTANT Reader  \* the workers of the notices

VARIABLES
  part,
  tier, reserved, sending, read, unit,
  story, row, job, event, past, message, came, inbox, troubles

\* Three messages, to two recipients.
Messages == {"i1", "i2", "i3"}
Recipients == "i1" :> "x" @@ "i2" :> "x" @@ "i3" :> "y"
\* Two deliveries: each tells one of the two statuses and of the message that came.
Deliveries == {"a", "b"}
Events == "a" :> <<0, 1>> @@ "b" :> <<2, 0>>
At(status, second) == [status |-> status, second |-> second]
\* In two seconds, and in one.
Stories == {<<At("sent", 1), At("failed", 2)>>, <<At("delivered", 1), At("read", 1)>>}

C == INSTANCE ChannelCapacity WITH at <- sending
N == INSTANCE DatafyNotices WITH Worker <- Reader, at <- job

capacityVars == <<tier, reserved, sending, read, unit>>
noticeVars == <<story, row, job, event, past, message, came, inbox, troubles>>
parts == <<part, vars, capacityVars, noticeVars>>

MCInit ==
  /\ part \in {"sending", "capacity", "notices"}
  /\ Init /\ C!Init /\ N!Init
  /\ part # "sending" => granted
  /\ part # "notices" => story = CHOOSE s \in Story : TRUE

MCNext ==
  /\ UNCHANGED part
  /\ \/ part = "sending" /\ Next /\ UNCHANGED <<capacityVars, noticeVars>>
     \/ part = "capacity" /\ C!Next /\ UNCHANGED <<vars, noticeVars>>
     \/ part = "notices" /\ N!Next /\ UNCHANGED <<vars, capacityVars>>

\* The parts at rest have no step that fairness asks for.
MCSpec == MCInit /\ [][MCNext]_parts /\ Fairness /\ N!Fairness

(* The type invariants of the parts.                                        *)
PartsTypeOK == TypeOK /\ C!TypeOK /\ N!TypeOK

(* The properties of the parts, stated in their modules.                    *)
LimitIsKept == C!LimitIsKept
NoticesAddUp == N!NoticesAddUp

(* Every message and every notice comes to an end: Settles and NoticesEnd.  *)
MessagingEnds == Settles /\ N!NoticesEnd
=============================================================================

-------------------------- MODULE ChannelCapacity ---------------------------
(***************************************************************************)
(* The capacity of the central WhatsApp channel: every company's messages  *)
(* share one limit of distinct recipients in a moving window. The limit is *)
(* a tier the provider told in the last window, or a fallback, and is read *)
(* before the lock under which a message takes its unit.                   *)
(***************************************************************************)
EXTENDS ChannelBounds

VARIABLES
  tier,      \* the limit in the cache, and since when
  reserved,  \* ticks since quotaReservedAt, Window when there is none in the window
  at, read,  \* what the sending of each message does, and the limit it read
  unit       \* the limit under which each recipient took its unit

vars == <<tier, reserved, at, read, unit>>

Recipient == {To[i] : i \in Intent}
NoTier == [limit |-> Fallback, age |-> Window]

Init ==
  /\ tier = NoTier
  /\ reserved = [i \in Intent |-> Window]
  /\ at = [i \in Intent |-> "waits"] /\ read = [i \in Intent |-> Fallback]
  /\ unit = [r \in Recipient |-> Fallback]

Sync(limit) ==
  /\ tier' = [limit |-> limit, age |-> 0]
  /\ UNCHANGED <<reserved, at, read, unit>>

ChannelLimit == IF tier.age < Window THEN tier.limit ELSE Fallback

Ask(i) ==
  /\ at[i] = "waits"
  /\ at' = [at EXCEPT ![i] = "asks"] /\ read' = [read EXCEPT ![i] = ChannelLimit]
  /\ UNCHANGED <<tier, reserved, unit>>

(* A recipient leaves the window a day after its latest reservation.        *)
Recent == {To[i] : i \in {j \in Intent : reserved[j] < Window}}

(* A variant: what is still to be sent is not counted.                      *)
FreeBySent(i) ==
  \/ read[i] = Unlimited \/ To[i] \in Recent
  \/ Cardinality({To[j] : j \in {k \in Intent : at[k] = "sent" /\ reserved[k] < Window}}) < read[i]

Free(i) ==
  \/ read[i] = Unlimited \/ To[i] \in Recent
  \/ Cardinality(Recent) < read[i]

(* A message that has its unit, however long, takes no other; without one   *)
(* it waits.                                                                *)
Reserve(i) ==
  /\ at[i] = "asks"
  /\ \/ /\ reserved[i] < Window
        /\ at' = [at EXCEPT ![i] = "sends"] /\ UNCHANGED <<reserved, unit>>
     \/ /\ reserved[i] = Window /\ Free(i)
        /\ at' = [at EXCEPT ![i] = "sends"] /\ reserved' = [reserved EXCEPT ![i] = 0]
        /\ unit' = IF To[i] \in Recent THEN unit ELSE [unit EXCEPT ![To[i]] = read[i]]
     \/ /\ reserved[i] = Window /\ ~Free(i)
        /\ at' = [at EXCEPT ![i] = "waits"] /\ UNCHANGED <<reserved, unit>>
  /\ read' = [read EXCEPT ![i] = Fallback]
  /\ UNCHANGED tier

Transmit(i) ==
  /\ at[i] = "sends"
  /\ at' = [at EXCEPT ![i] = "sent"]
  /\ UNCHANGED <<tier, reserved, read, unit>>

(* The provider asks to wait: the message is tried again.                   *)
TransmitFails(i) ==
  /\ at[i] = "sends"
  /\ at' = [at EXCEPT ![i] = "waits"]
  /\ UNCHANGED <<tier, reserved, read, unit>>

Older(age) == IF age < Window THEN age + 1 ELSE Window

\* Bound: a sending takes less than a tick.
Tick ==
  /\ \A i \in Intent : at[i] \in {"waits", "sent"}
  /\ tier' = [tier EXCEPT !.age = Older(@)]
  /\ reserved' = [i \in Intent |-> Older(reserved[i])]
  /\ UNCHANGED <<at, read, unit>>

Next ==
  \/ \E limit \in Limits : Sync(limit)
  \/ \E i \in Intent : Ask(i) \/ Reserve(i) \/ Transmit(i) \/ TransmitFails(i)
  \/ Tick

Spec == Init /\ [][Next]_vars

(***************************************************************************)
(* Properties.                                                             *)
(***************************************************************************)
Ages == 0 .. Window
TypeOK ==
  /\ tier \in [limit : Limits \cup {Fallback}, age : Ages]
  /\ reserved \in [Intent -> Ages]
  /\ at \in [Intent -> {"waits", "asks", "sends", "sent"}]
  /\ read \in [Intent -> Limits \cup {Fallback}]
  /\ unit \in [Recipient -> Limits \cup {Fallback}]

(* However many processes ask at once, and whatever became of the tier since *)
(* they read it: a message is sent only while its unit is counted, and the   *)
(* recipients with a unit in the window are never more than a limit under    *)
(* which one of them took its own. The units are counted by the time they    *)
(* were taken, as reserveDispatchQuota does: who is reached by a retry hours *)
(* later counts from its reservation.                                        *)
LimitIsKept ==
  /\ \A i \in Intent : at[i] = "sends" => To[i] \in Recent
  /\ Recent = {} \/ \E r \in Recent : unit[r] = Unlimited \/ Cardinality(Recent) <= unit[r]
=============================================================================

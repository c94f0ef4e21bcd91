--------------------------- MODULE ChannelBounds ----------------------------
(* The messages that share the channel, and the limits it may have.         *)
EXTENDS Naturals, FiniteSets

CONSTANTS
  Intent,     \* the messages to be sent
  To,         \* the recipient of each
  Limits,     \* of the tiers a provider may tell
  Fallback,   \* FALLBACK_CHANNEL_LIMIT
  Unlimited,
  Window      \* CAPACITY_WINDOW_MS, in ticks

ASSUME ChannelAssumption ==
  /\ IsFiniteSet(Intent)
  /\ Limits \subseteq Nat /\ Fallback \in Nat
  /\ Window \in Nat \ {0}
=============================================================================

-------------------------- MODULE ReadyValidChannel --------------------------
(***************************************************************************)
(* What a ready/valid buffering helper of rrtl-core promises: the items    *)
(* that fire on its input come out on its output once, in order, at most   *)
(* Capacity of them held back.  A cycle may take an item and give one at   *)
(* once (an item may even pass straight through); reset empties it.        *)
(***************************************************************************)
EXTENDS Naturals, Sequences

CONSTANTS Values,    \* payloads
          Capacity,  \* items the helper may hold
          None       \* "no transfer in this cycle"

VARIABLES q,     \* items taken and not yet given
          took,  \* item that fired on the input in the last cycle, or None
          gave   \* item that fired on the output in the last cycle, or None

channelVars == <<q, took, gave>>

ChannelInit == q = <<>> /\ took = None /\ gave = None

Offered(t) == IF t = None THEN q ELSE Append(q, t)

Cycle(t, g) ==
    LET all == Offered(t)
    IN  /\ g # None => all # <<>> /\ g = Head(all)
        /\ q' = IF g = None THEN all ELSE Tail(all)
        /\ Len(q') <= Capacity
        /\ took' = t
        /\ gave' = g

Flush == q' = <<>> /\ took' = None /\ gave' = None

ChannelNext ==
    \/ \E t, g \in Values \cup {None} : Cycle(t, g)
    \/ Flush

Spec == ChannelInit /\ [][ChannelNext]_channelVars
==============================================================================

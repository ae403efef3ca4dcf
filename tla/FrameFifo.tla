------------------------------ MODULE FrameFifo ------------------------------
(***************************************************************************)
(* What the driver's point-cloud path promises the rest of the robot: per  *)
(* lidar, a bounded first-in first-out channel.  A frame is either refused *)
(* (the channel is full) or it is handed to the publisher exactly once,    *)
(* whole, and after every frame accepted before it.  Frames are numbered,  *)
(* so "after" is visible in the frames themselves.                         *)
(***************************************************************************)
EXTENDS Naturals, Sequences

CONSTANTS Lidars,    \* the lidars
          Capacity,  \* frames a channel holds
          Frames,    \* whole frames
          NoFrame    \* nothing in hand / nothing published yet

VARIABLES
  channel,  \* channel[l]: frames accepted and not yet taken, oldest first
  hand,     \* hand[l]: the frame the publisher has taken and not yet published
  last      \* last[l]: the last frame published

fifoVars == <<channel, hand, last>>

FifoInit ==
  /\ channel = [l \in Lidars |-> <<>>]
  /\ hand = [l \in Lidars |-> NoFrame]
  /\ last = [l \in Lidars |-> NoFrame]

\* The youngest frame ever accepted for l that can still be told apart.
Newest(l) == LET s == <<last[l], hand[l]>> \o channel[l] IN s[Len(s)]

Follows(f, g) == g = NoFrame \/ f.head > g.head

Accept(l, f) ==
  /\ Len(channel[l]) < Capacity
  /\ \A g \in {last[l], hand[l], Newest(l)} : Follows(f, g)
  /\ channel' = [channel EXCEPT ![l] = Append(@, f)]
  /\ UNCHANGED <<hand, last>>

Take(l) ==
  /\ channel[l] # <<>>
  /\ hand[l] = NoFrame
  /\ hand' = [hand EXCEPT ![l] = Head(channel[l])]
  /\ channel' = [channel EXCEPT ![l] = Tail(@)]
  /\ UNCHANGED last

Deliver(l) ==
  /\ hand[l] # NoFrame
  /\ last' = [last EXCEPT ![l] = hand[l]]
  /\ hand' = [hand EXCEPT ![l] = NoFrame]
  /\ UNCHANGED channel

FifoNext ==
  \E l \in Lidars : (\E f \in Frames : Accept(l, f)) \/ Take(l) \/ Deliver(l)

FifoSpec == FifoInit /\ [][FifoNext]_fifoVars
==============================================================================

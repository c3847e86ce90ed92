------------------------ MODULE DescriptorAllocator ------------------------
(***************************************************************************)
(* What the tensor descriptor calls promise their callers, with no pool,   *)
(* no lock and no memory: a create call finds descriptors that nobody has, *)
(* neither a caller nor another call, and gives them to its caller; a      *)
(* destroy call takes descriptors its caller has and lets go of them.      *)
(* DescriptorPool.tla implements this specification.                       *)
(***************************************************************************)
EXTENDS Naturals, FiniteSets

CONSTANT Threads    \* the threads that call the library

VARIABLES
  live,             \* the descriptors callers hold
  hand              \* the descriptors the call of each thread holds

AInit ==
  /\ live = {}
  /\ hand = [t \in Threads |-> {}]

\* A create call finds one more descriptor.
Find(t, d) ==
  /\ d \notin live
  /\ \A u \in Threads : d \notin hand[u]
  /\ hand' = [hand EXCEPT ![t] = @ \cup {d}]
  /\ UNCHANGED live

\* A create call returns: what it found is its caller's.
Give(t) ==
  /\ live' = live \cup hand[t]
  /\ hand' = [hand EXCEPT ![t] = {}]

\* A destroy call begins: its caller gives S up.
TakeBack(t, S) ==
  /\ hand[t] = {}
  /\ S \subseteq live
  /\ live' = live \ S
  /\ hand' = [hand EXCEPT ![t] = S]

\* A destroy call lets go of a descriptor, which is nobody's then.
LetGo(t, d) ==
  /\ d \in hand[t]
  /\ hand' = [hand EXCEPT ![t] = @ \ {d}]
  /\ UNCHANGED live

ANext ==
  \E t \in Threads :
    \/ \E d \in hand'[t] : Find(t, d)
    \/ Give(t)
    \/ \E S \in SUBSET live : TakeBack(t, S)
    \/ \E d \in hand[t] : LetGo(t, d)

ASpec == AInit /\ [][ANext]_<<live, hand>>

\* A descriptor is with one caller or one call at a time.
Exclusive ==
  \A t \in Threads :
    /\ hand[t] \cap live = {}
    /\ \A u \in Threads : u # t => hand[t] \cap hand[u] = {}
=============================================================================

---------------------------- MODULE EventRegistry ----------------------------
(***************************************************************************)
(* What the publisher promises the tools that subscribe to it, with no     *)
(* maps, no keys, no lock and no destructor: a publish calls each handler  *)
(* that its event has when it begins, once and one after the other; a      *)
(* handler comes or goes only between publishes, and one that is removed   *)
(* never comes back.  PubSub.tla implements this specification.            *)
(***************************************************************************)
CONSTANTS
  Threads,      \* the threads that publish
  Events,       \* the events
  Names,        \* the names of the handlers
  None          \* no handler

VARIABLES
  subs,         \* the handlers subscribed: [event, sub]
  removed,      \* the names of those that were unsubscribed
  publishing,   \* the threads that are in a publish
  owed,         \* the handlers the publish of each thread has yet to call
  running       \* the handler each thread is in

rvars == <<subs, removed, publishing, owed, running>>

RInit ==
  /\ subs = {} /\ removed = {} /\ publishing = {}
  /\ owed = [t \in Threads |-> {}]
  /\ running = [t \in Threads |-> None]

\* A handler that never was subscribed is, to one event.
Add(e, n) ==
  /\ publishing = {}
  /\ n \notin removed
  /\ \A s \in subs : s.sub # n
  /\ subs' = subs \cup {[event |-> e, sub |-> n]}
  /\ UNCHANGED <<removed, publishing, owed, running>>

\* That handler is removed, and no other.
Remove(s) ==
  /\ publishing = {}
  /\ subs' = subs \ {s}
  /\ removed' = removed \cup {s.sub}
  /\ UNCHANGED <<publishing, owed, running>>

\* A publish begins: it is to call the handlers of its event.
Begin(t, e) ==
  /\ t \notin publishing
  /\ publishing' = publishing \cup {t}
  /\ owed' = [owed EXCEPT ![t] = {s \in subs : s.event = e}]
  /\ UNCHANGED <<subs, removed, running>>

CallHandler(t, s) ==
  /\ running[t] = None
  /\ owed' = [owed EXCEPT ![t] = @ \ {s}]
  /\ running' = [running EXCEPT ![t] = s.sub]
  /\ UNCHANGED <<subs, removed, publishing>>

ReturnFromHandler(t) ==
  /\ running' = [running EXCEPT ![t] = None]
  /\ UNCHANGED <<subs, removed, publishing, owed>>

\* A publish ends: it has called all it was to call, and they have returned.
Finish(t) ==
  /\ owed[t] = {} /\ running[t] = None
  /\ publishing' = publishing \ {t}
  /\ UNCHANGED <<subs, removed, owed, running>>

RNext ==
  \/ \E e \in Events, n \in Names : Add(e, n)
  \/ \E s \in subs : Remove(s)
  \/ \E t \in Threads :
       \/ \E e \in Events : Begin(t, e)
       \/ \E s \in owed[t] : CallHandler(t, s)
       \/ ReturnFromHandler(t)
       \/ Finish(t)

RSpec == RInit /\ [][RNext]_rvars

\* A thread is in a handler, or is to call one, only in a publish and only while
\* that handler is subscribed; what was removed is not subscribed again.
CallsTheSubscribed ==
  /\ \A t \in Threads :
       /\ owed[t] \subseteq subs
       /\ running[t] # None => \E s \in subs : s.sub = running[t]
       /\ owed[t] # {} \/ running[t] # None => t \in publishing
  /\ \A s \in subs : s.sub \notin removed
=============================================================================

------------------------------- MODULE PubSub -------------------------------
(***************************************************************************)
(* The publisher of kernel launches and API calls (src/core/subscriber.hpp,*)
(* subscriber.cpp): tools subscribe handlers to events, threads publish    *)
(* events, and the publisher is destroyed at exit, when threads may still  *)
(* run.  A subscription is known by the heap address of a byte allocated   *)
(* for it, which malloc may give again once the byte is freed.             *)
(*                                                                         *)
(* What is done with the write lock held is one step, possible when no     *)
(* thread reads; a publish holds the read lock over its handlers.          *)
(***************************************************************************)
EXTENDS Naturals, FiniteSets

CONSTANTS
  Threads,      \* the threads that publish, subscribe and unsubscribe
  Events,       \* the events
  Addresses,    \* what malloc may return
  None,         \* no event, no subscription, no handler
  MayRepeat,    \* whether callers unsubscribe a subscriber they already have
  MaxSubs       \* bound: the subscriptions made

\* A handler is the number of its subscription.
Entries == [event : Events, key : Addresses, sub : 1..MaxSubs]

ASSUME PubSubAssumption ==
  /\ None \notin Events \cup 1..MaxSubs \cup Entries
  /\ MayRepeat \in BOOLEAN
  /\ MaxSubs \in Nat

VARIABLES
  manager,      \* subscriber_manager_: the handler of an event and a key
  store,        \* ugly_key_store_: the keys
  internal,     \* internal_subscribers_
  exit,         \* ~Publisher(): "no", "begun", "swept" (its loop is), "over"
  pc,           \* where each thread is in its call
  new,          \* the subscription its call has yet to put in the maps
  event,        \* the event its call publishes
  called,       \* what its publish has called
  running,      \* the handler it is in
  made,         \* the number of subscriptions made
  held,         \* the subscribers that callers may unsubscribe
  gone,         \* history: the handlers whose unsubscribe has returned
  dangling      \* the publisher was used after its destruction

mapVars == <<manager, store>>
callVars == <<pc, new, event, called, running>>
vars == <<mapVars, internal, exit, callVars, made, held, gone, dangling>>

\* An address is taken while a map or a call has a pointer to it.
Taken ==
  {m.key : m \in manager} \cup store
    \cup {new[t].key : t \in {u \in Threads : pc[u] = "keyed"}}

Handlers(e) == {m \in manager : m.event = e}

\* mtx_pubsub_: the threads that hold the read lock.
Readers == {t \in Threads : pc[t] \in {"reading", "calling"}}

Init ==
  /\ manager = {} /\ store = {} /\ internal = {}
  /\ exit = "no"
  /\ pc = [t \in Threads |-> "idle"]
  /\ event = [t \in Threads |-> None]
  /\ new = [t \in Threads |-> None]
  /\ called = [t \in Threads |-> {}]
  /\ running = [t \in Threads |-> None]
  /\ made = 0
  /\ held = {} /\ gone = {}
  /\ dangling = FALSE

At(t, place) == pc[t] = place /\ exit # "over"

Goto(t, place) == pc' = [pc EXCEPT ![t] = place]

-----------------------------------------------------------------------------
\* subscribe() allocates its key ...
Subscribe(t, e, a) ==
  /\ At(t, "idle")
  /\ made < MaxSubs
  /\ a \notin Taken
  /\ new' = [new EXCEPT ![t] = [event |-> e, key |-> a, sub |-> made + 1]]
  /\ made' = made + 1
  /\ Goto(t, "keyed")
  /\ UNCHANGED <<mapVars, internal, exit, event, called, running, held, gone, dangling>>

\* A bug: the call keeps a pointer to the key, which is never freed.
MutInsert(t) ==
  LET m == new[t]
  IN
  /\ At(t, "keyed")
  /\ Readers = {}
  /\ manager' = {n \in manager : n.event # m.event \/ n.key # m.key} \cup {m}
  /\ store' = store \cup {m.key}
  /\ held' = held \cup {m}
  /\ Goto(t, "idle")
  /\ UNCHANGED <<internal, exit, new, event, called, running, made, gone, dangling>>

\* ... and writes the maps.  mluOpInternalSubscribe gives the caller the event
\* and the address, to unsubscribe with.
Insert(t) ==
  LET m == new[t]
  IN
  /\ At(t, "keyed")
  /\ Readers = {}
  /\ manager' = {n \in manager : n.event # m.event \/ n.key # m.key} \cup {m}
  /\ store' = store \cup {m.key}
  /\ held' = held \cup {m}
  /\ new' = [new EXCEPT ![t] = None]
  /\ Goto(t, "idle")
  /\ UNCHANGED <<internal, exit, event, called, running, made, gone, dangling>>

\* save_internal_subscriber(): the destructor is to unsubscribe it, and nobody
\* else.  It holds a mutex that the loop of the destructor does not take: what
\* is appended to the list before the loop has found its end is visited.
SaveInternal(s) ==
  /\ exit # "over"
  /\ s \in held
  /\ held' = held \ {s}
  /\ internal' = internal \cup {s}
  /\ UNCHANGED <<mapVars, exit, callVars, made, gone, dangling>>

\* A bug: the handler is erased, its key stays in the store.
MutErased(s) ==
  /\ manager' = {m \in manager : m.event # s.event \/ m.key # s.key}
  /\ UNCHANGED store

\* What unsubscribe() does to the maps: nothing, for an address not stored.
Erased(s) ==
  \/ /\ s.key \notin store
     /\ UNCHANGED mapVars
  \/ /\ s.key \in store
     /\ manager' = {m \in manager : m.event # s.event \/ m.key # s.key}
     /\ store' = store \ {s.key}

\* A bug: unsubscribe() takes the read lock, with the publishes under way.
MutUnsubscribe(t, s) ==
  /\ At(t, "idle")
  /\ s \in held
  /\ Erased(s)
  /\ held' = IF MayRepeat THEN held ELSE held \ {s}
  /\ gone' = gone \cup {s.sub}
  /\ UNCHANGED <<internal, exit, callVars, made, dangling>>

\* mluOpInternalUnsubscribe.
Unsubscribe(t, s) ==
  /\ At(t, "idle")
  /\ s \in held
  /\ Readers = {}
  /\ Erased(s)
  /\ held' = IF MayRepeat THEN held ELSE held \ {s}
  /\ gone' = gone \cup {s.sub}
  /\ UNCHANGED <<internal, exit, callVars, made, dangling>>

-----------------------------------------------------------------------------
\* publish() returns if delete_flag is set, which it tests with no lock ...
Publish(t, e) ==
  /\ At(t, "idle")
  /\ event' = [event EXCEPT ![t] = e]
  /\ Goto(t, "tested")
  /\ UNCHANGED <<mapVars, internal, exit, new, called, running, made, held, gone, dangling>>

\* ... takes the read lock ...
Read(t) ==
  /\ At(t, "tested")
  /\ Goto(t, "reading")
  /\ UNCHANGED <<mapVars, internal, exit, new, event, called, running, made, held, gone,
                 dangling>>

\* ... calls the handlers of its event, one after the other ...
Visit(t, m) ==
  /\ At(t, "reading")
  /\ m \in Handlers(event[t]) \ called[t]
  /\ called' = [called EXCEPT ![t] = @ \cup {m}]
  /\ running' = [running EXCEPT ![t] = m.sub]
  /\ Goto(t, "calling")
  /\ UNCHANGED <<mapVars, internal, exit, new, event, made, held, gone, dangling>>

HandlerReturns(t) ==
  /\ At(t, "calling")
  /\ running' = [running EXCEPT ![t] = None]
  /\ Goto(t, "reading")
  /\ UNCHANGED <<mapVars, internal, exit, new, event, called, made, held, gone, dangling>>

\* A bug: the first handler that is found is the only one called.
MutEndPublish(t) ==
  /\ At(t, "reading")
  /\ Handlers(event[t]) = {} \/ called[t] # {}
  /\ event' = [event EXCEPT ![t] = None]
  /\ called' = [called EXCEPT ![t] = {}]
  /\ Goto(t, "idle")
  /\ UNCHANGED <<mapVars, internal, exit, new, running, made, held, gone, dangling>>

\* ... and lets the lock go.
EndPublish(t) ==
  /\ At(t, "reading")
  /\ Handlers(event[t]) \subseteq called[t]
  /\ event' = [event EXCEPT ![t] = None]
  /\ called' = [called EXCEPT ![t] = {}]
  /\ Goto(t, "idle")
  /\ UNCHANGED <<mapVars, internal, exit, new, running, made, held, gone, dangling>>

-----------------------------------------------------------------------------
\* ~Publisher(), at exit, unsubscribes the internal subscribers one by one ...
Exit ==
  /\ exit = "no"
  /\ exit' = "begun"
  /\ UNCHANGED <<mapVars, internal, callVars, made, held, gone, dangling>>

ExitUnsubscribe(s) ==
  /\ exit = "begun"
  /\ s \in internal
  /\ Readers = {}
  /\ Erased(s)
  /\ internal' = internal \ {s}
  /\ gone' = gone \cup {s.sub}
  /\ UNCHANGED <<exit, callVars, made, held, dangling>>

\* ... until the loop is at the end of the list ...
ExitSweeps ==
  /\ exit = "begun"
  /\ internal = {}
  /\ exit' = "swept"
  /\ UNCHANGED <<mapVars, internal, callVars, made, held, gone, dangling>>

\* ... sets delete_flag under the read lock, which waits for nobody that reads,
\* and the maps are destroyed.
Destroy ==
  /\ exit = "swept"
  /\ exit' = "over"
  /\ UNCHANGED <<mapVars, internal, callVars, made, held, gone, dangling>>

\* Then a publish that tested delete_flag before, and every subscribe() or
\* unsubscribe(), which do not test it, use what is not there.
Dangle(t) ==
  /\ exit = "over"
  /\ pc[t] # "idle" \/ made < MaxSubs \/ held # {}
  /\ dangling' = TRUE
  /\ UNCHANGED <<mapVars, internal, exit, callVars, made, held, gone>>

Next ==
  \/ \E t \in Threads :
       \/ \E e \in Events : Publish(t, e) \/ \E a \in Addresses : Subscribe(t, e, a)
       \/ \E s \in held : Unsubscribe(t, s)
       \/ \E m \in manager : Visit(t, m)
       \/ Insert(t) \/ Read(t) \/ HandlerReturns(t) \/ EndPublish(t) \/ Dangle(t)
  \/ \E s \in held : SaveInternal(s)
  \/ \E s \in internal : ExitUnsubscribe(s)
  \/ Exit \/ ExitSweeps \/ Destroy

Spec == Init /\ [][Next]_vars

-----------------------------------------------------------------------------
TypeOK ==
  /\ manager \subseteq Entries /\ internal \subseteq Entries /\ held \subseteq Entries
  /\ store \subseteq Addresses
  /\ exit \in {"no", "begun", "swept", "over"}
  /\ pc \in [Threads -> {"idle", "keyed", "tested", "reading", "calling"}]
  /\ event \in [Threads -> Events \cup {None}]
  /\ new \in [Threads -> Entries \cup {None}]
  /\ called \in [Threads -> SUBSET Entries]
  /\ running \in [Threads -> (1..MaxSubs) \cup {None}]
  /\ \A t \in Threads :
       /\ new[t] # None <=> pc[t] = "keyed"
       /\ running[t] # None <=> pc[t] = "calling"
       /\ event[t] # None <=> pc[t] \in {"tested", "reading", "calling"}
  /\ made \in 0..MaxSubs
  /\ gone \subseteq 1..MaxSubs
  /\ dangling \in BOOLEAN

\* Once unsubscribe() has returned its handler neither runs in any thread nor
\* will: a tool may free what the handler uses (subscriber.cpp:48-58).
GoneIsSilent ==
  /\ \A m \in manager : m.sub \notin gone
  /\ \A t \in Threads : running[t] \notin gone

\* Nobody else's unsubscribe() takes a handler away, though the address that
\* names it may have named another before (subscriber.cpp:40-44, 52-57).
OthersAreKept == \A s \in held \cup internal : s.sub \notin gone => s \in manager

\* The maps agree: a stored address is the key of one handler and the other way
\* round, so an address is never free while a map points to it.
MapsAgree ==
  /\ {m.key : m \in manager} = store
  /\ \A m, n \in manager : m.key = n.key => m = n

\* While a publish goes over the handlers of its event the map does not change
\* beneath its iterator: it calls each of them, and none twice.
MapIsStill ==
  [][\A t \in Readers \cap Readers' : Handlers(event[t])' = Handlers(event[t])]_vars

\* The publisher implements what it promises to tools: whatever addresses malloc
\* gives and however calls interleave, a publish calls each handler that its
\* event has, once, and a handler comes or goes only between publishes.
Named(S) == {[event |-> m.event, sub |-> m.sub] : m \in S}
Owed(t)  == IF t \in Readers THEN Named(Handlers(event[t]) \ called[t]) ELSE {}

Registry ==
  INSTANCE EventRegistry
    WITH Names <- 1..MaxSubs, subs <- Named(manager), removed <- gone,
         publishing <- Readers, owed <- [t \in Threads |-> Owed(t)]

ImplementsRegistry == Registry!RSpec
=============================================================================

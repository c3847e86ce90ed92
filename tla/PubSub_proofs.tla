---------------------------- MODULE PubSub_proofs ----------------------------
(***************************************************************************)
(* Proofs about PubSub for any threads, events and addresses, and any      *)
(* number of subscriptions, when no caller unsubscribes a subscriber twice.*)
(***************************************************************************)
EXTENDS PubSub, TLAPS

(***************************************************************************)
(* The strengthening.  A key allocated for a call is in no map and no two  *)
(* calls share one; every subscriber somebody is to unsubscribe is in the  *)
(* map; a handler's number is used once; a handler that runs is in the map.*)
(***************************************************************************)
NewIsFresh ==
  \A t \in Threads :
    new[t] # None =>
      /\ new[t].key \notin store
      /\ \A m \in manager : m.sub # new[t].sub
      /\ new[t].sub <= made /\ new[t].sub \notin gone
      /\ \A u \in Threads :
           u # t /\ new[u] # None => new[u].key # new[t].key /\ new[u].sub # new[t].sub

SubscribersAreKept ==
  /\ held \cup internal \subseteq manager
  /\ held \cap internal = {}

NumbersAreUsedOnce ==
  /\ \A m \in manager : m.sub <= made /\ m.sub \notin gone
  /\ \A g \in gone : g <= made
  /\ \A m, n \in manager : m.sub = n.sub => m = n

RunningIsKept ==
  \A t \in Threads : running[t] # None => \E m \in manager : m.sub = running[t]

PInv ==
  /\ TypeOK /\ MapsAgree /\ NewIsFresh /\ SubscribersAreKept
  /\ NumbersAreUsedOnce /\ RunningIsKept

-----------------------------------------------------------------------------
LEMMA InitInv == Init => PInv
<1> SUFFICES ASSUME Init PROVE PInv
  OBVIOUS
<1> USE DEF Init
<1>1. TypeOK
  <2>1. /\ pc \in [Threads -> {"idle", "keyed", "tested", "reading", "calling"}]
        /\ event \in [Threads -> Events \cup {None}]
        /\ new \in [Threads -> Entries \cup {None}]
        /\ called \in [Threads -> SUBSET Entries]
        /\ running \in [Threads -> (1..MaxSubs) \cup {None}]
    OBVIOUS
  <2>2. \A t \in Threads : pc[t] = "idle" /\ new[t] = None /\ running[t] = None
                                         /\ event[t] = None
    OBVIOUS
  <2>3. made \in 0..MaxSubs
    BY PubSubAssumption
  <2> QED
    BY ONLY Init, <2>1, <2>2, <2>3 DEF Init, TypeOK
<1>2. MapsAgree
  <2>1. {m.key : m \in manager} = {}
    BY Zenon
  <2> QED  BY <2>1 DEF MapsAgree
<1>3. NewIsFresh /\ RunningIsKept
  BY DEF NewIsFresh, RunningIsKept
<1>4. SubscribersAreKept /\ NumbersAreUsedOnce
  BY DEF SubscribersAreKept, NumbersAreUsedOnce
<1> QED  BY <1>1, <1>2, <1>3, <1>4 DEF PInv

\* Erasing a subscriber that is in the map erases that one only.
LEMMA ErasedOne ==
  ASSUME PInv, NEW s \in manager, Erased(s)
  PROVE  manager' = manager \ {s} /\ store' = store \ {s.key}
<1>1. s.key \in store
  BY DEF PInv, MapsAgree
<1>2. /\ manager' = {m \in manager : m.event # s.event \/ m.key # s.key}
      /\ store' = store \ {s.key}
  BY <1>1 DEF Erased
<1>3. \A m \in manager : m.key = s.key <=> m = s
  BY DEF PInv, MapsAgree
<1> QED  BY <1>2, <1>3

\* A subscriber is unsubscribed while nobody reads, by the caller that holds it
\* or by the destructor.
LEMMA EraseKeepsInv ==
  ASSUME PInv, NEW s \in held \cup internal, Erased(s), Readers = {},
         held' \subseteq held, internal' \subseteq internal,
         s \notin held' \cup internal',
         gone' = gone \cup {s.sub},
         UNCHANGED <<callVars, made, dangling, exit>>
  PROVE  PInv'
<1>1. s \in manager
  BY DEF PInv, SubscribersAreKept
<1>2. manager' = manager \ {s} /\ store' = store \ {s.key}
  BY <1>1, ErasedOne
<1>3. \A m \in manager' : m.key # s.key /\ m.sub # s.sub
  BY <1>1, <1>2 DEF PInv, MapsAgree, NumbersAreUsedOnce
<1>4. TypeOK'
  <2>1. s.sub \in 1..MaxSubs
    BY <1>1 DEF PInv, TypeOK, Entries
  <2> QED  BY <1>2, <2>1 DEF PInv, TypeOK, callVars
<1>5. MapsAgree'
  BY <1>1, <1>2, <1>3 DEF PInv, MapsAgree
<1>6. NewIsFresh'
  BY <1>1, <1>2 DEF PInv, NewIsFresh, callVars
<1>7. SubscribersAreKept'
  BY <1>2 DEF PInv, SubscribersAreKept
<1>8. NumbersAreUsedOnce'
  BY <1>1, <1>2, <1>3 DEF PInv, NumbersAreUsedOnce
<1>9. RunningIsKept'
  <2>1. \A t \in Threads : running[t] = None
    BY DEF PInv, TypeOK, Readers
  <2> QED  BY <2>1 DEF RunningIsKept, callVars
<1> QED  BY <1>4, <1>5, <1>6, <1>7, <1>8, <1>9 DEF PInv

\* A new handler gets a key and a number that are nobody's.
LEMMA SubscribeKeepsInv ==
  ASSUME PInv, NEW t \in Threads, NEW e \in Events, NEW a \in Addresses,
         Subscribe(t, e, a)
  PROVE  PInv'
<1> DEFINE m == [event |-> e, key |-> a, sub |-> made + 1]
<1>1. /\ pc[t] = "idle" /\ made < MaxSubs /\ a \notin Taken
      /\ new' = [new EXCEPT ![t] = m] /\ made' = made + 1
      /\ pc' = [pc EXCEPT ![t] = "keyed"]
      /\ UNCHANGED <<mapVars, internal, exit, event, called, running, held, gone,
                     dangling>>
  BY DEF Subscribe, At, Goto
<1>2. made \in Nat /\ made + 1 \in 1..MaxSubs
  BY <1>1, PubSubAssumption DEF PInv, TypeOK
<1>3. m \in Entries /\ m.key = a /\ m.sub = made + 1 /\ m # None
  BY <1>2, PubSubAssumption DEF Entries
<1> HIDE DEF m
<1>4. /\ new'[t] = m /\ pc'[t] = "keyed"
      /\ \A u \in Threads : u # t => new'[u] = new[u] /\ pc'[u] = pc[u]
  BY <1>1 DEF PInv, TypeOK
<1>5. TypeOK'
  <2>1. \A u \in Threads : /\ new'[u] # None <=> pc'[u] = "keyed"
                           /\ running'[u] # None <=> pc'[u] = "calling"
                           /\ event'[u] # None
                                <=> pc'[u] \in {"tested", "reading", "calling"}
    BY <1>1, <1>3, <1>4 DEF PInv, TypeOK
  <2> QED  BY <1>1, <1>2, <1>3, <2>1 DEF PInv, TypeOK, mapVars
<1>6. MapsAgree' /\ SubscribersAreKept' /\ RunningIsKept'
  BY <1>1 DEF PInv, MapsAgree, SubscribersAreKept, RunningIsKept, mapVars
<1>7. /\ \A n \in manager : n.sub \in Nat /\ n.sub <= made
      /\ \A g \in gone : g \in Nat /\ g <= made
      /\ \A u \in Threads : new[u] # None => new[u].sub \in Nat /\ new[u].sub <= made
  <2>1. \A n \in Entries : n.sub \in Nat
    BY PubSubAssumption DEF Entries
  <2>2. \A g \in 1..MaxSubs : g \in Nat
    BY PubSubAssumption
  <2>3. \A n \in manager : n.sub \in Nat /\ n.sub <= made
    BY <2>1 DEF PInv, TypeOK, NumbersAreUsedOnce
  <2>4. \A g \in gone : g \in Nat /\ g <= made
    BY <2>2 DEF PInv, TypeOK, NumbersAreUsedOnce
  <2>5. \A u \in Threads : new[u] # None => new[u] \in Entries /\ new[u].sub <= made
    BY DEF PInv, TypeOK, NewIsFresh
  <2> QED  BY <2>1, <2>3, <2>4, <2>5
<1>8. NumbersAreUsedOnce'
  BY <1>1, <1>2, <1>7 DEF PInv, NumbersAreUsedOnce, mapVars
<1>9. NewIsFresh'
  <2>1. a \notin store /\ \A u \in Threads : new[u] # None => new[u].key # a
    BY <1>1 DEF Taken, PInv, TypeOK
  <2>2. ASSUME NEW u \in Threads, new'[u] # None
        PROVE  /\ new'[u].key \notin store'
               /\ \A n \in manager' : n.sub # new'[u].sub
               /\ new'[u].sub <= made' /\ new'[u].sub \notin gone'
    <3>1. CASE u = t
      BY <1>1, <1>2, <1>3, <1>4, <1>7, <2>1, <3>1 DEF mapVars
    <3>2. CASE u # t
      BY <1>1, <1>2, <1>4, <1>7, <2>2, <3>2 DEF mapVars, PInv, NewIsFresh
    <3> QED  BY <3>1, <3>2
  <2>3. ASSUME NEW u \in Threads, NEW v \in Threads, u # v,
               new'[u] # None, new'[v] # None
        PROVE  new'[v].key # new'[u].key /\ new'[v].sub # new'[u].sub
    <3>1. CASE u = t
      BY <1>2, <1>3, <1>4, <1>7, <2>1, <2>3, <3>1
    <3>2. CASE v = t
      BY <1>2, <1>3, <1>4, <1>7, <2>1, <2>3, <3>2
    <3>3. CASE u # t /\ v # t
      BY <1>4, <2>3, <3>3 DEF PInv, NewIsFresh
    <3> QED  BY <3>1, <3>2, <3>3
  <2> QED  BY <2>2, <2>3 DEF NewIsFresh
<1> QED  BY <1>5, <1>6, <1>8, <1>9 DEF PInv

\* The maps with the handler of a new key in them.
LEMMA InsertKeepsInv ==
  ASSUME PInv, NEW t \in Threads, Insert(t)
  PROVE  PInv'
<1> DEFINE m == new[t]
<1>1. /\ pc[t] = "keyed" /\ Readers = {}
      /\ manager' = {n \in manager : n.event # m.event \/ n.key # m.key} \cup {m}
      /\ store' = store \cup {m.key} /\ held' = held \cup {m}
      /\ new' = [new EXCEPT ![t] = None] /\ pc' = [pc EXCEPT ![t] = "idle"]
      /\ UNCHANGED <<internal, exit, event, called, running, made, gone, dangling>>
  BY DEF Insert, At, Goto
<1>2. m \in Entries /\ m # None
  BY <1>1 DEF PInv, TypeOK
<1> HIDE DEF m
<1>3. /\ m.key \notin store /\ \A n \in manager : n.key # m.key
      /\ \A n \in manager : n.sub # m.sub
      /\ m.sub <= made /\ m.sub \notin gone
  BY <1>2 DEF PInv, NewIsFresh, MapsAgree, m
<1>4. manager' = manager \cup {m}
  BY <1>1, <1>3
<1>5. /\ new'[t] = None /\ pc'[t] = "idle"
      /\ \A u \in Threads : u # t => new'[u] = new[u] /\ pc'[u] = pc[u]
  BY <1>1 DEF PInv, TypeOK
<1>6. TypeOK'
  <2>1. m.key \in Addresses
    BY <1>2 DEF Entries
  <2>2. \A u \in Threads : /\ new'[u] # None <=> pc'[u] = "keyed"
                           /\ running'[u] # None <=> pc'[u] = "calling"
                           /\ event'[u] # None
                                <=> pc'[u] \in {"tested", "reading", "calling"}
    BY <1>1, <1>5 DEF PInv, TypeOK
  <2> QED  BY <1>1, <1>2, <1>4, <2>1, <2>2 DEF PInv, TypeOK
<1>7. MapsAgree'
  BY <1>1, <1>3, <1>4 DEF PInv, MapsAgree
<1>8. NewIsFresh'
  <2>1. \A u \in Threads : u # t /\ new[u] # None
                              => new[u].key # m.key /\ new[u].sub # m.sub
    BY <1>2 DEF PInv, NewIsFresh, m
  <2> QED  BY <1>1, <1>4, <1>5, <2>1 DEF PInv, NewIsFresh
<1>9. SubscribersAreKept'
  BY <1>1, <1>3, <1>4 DEF PInv, SubscribersAreKept
<1>10. NumbersAreUsedOnce'
  BY <1>1, <1>3, <1>4 DEF PInv, NumbersAreUsedOnce
<1>11. RunningIsKept'
  BY <1>1, <1>4 DEF PInv, RunningIsKept
<1> QED  BY <1>6, <1>7, <1>8, <1>9, <1>10, <1>11 DEF PInv

\* A step of a publish, or of the destructor, that leaves the maps alone.
LEMMA QuietKeepsInv ==
  ASSUME PInv, TypeOK',
         UNCHANGED <<mapVars, new, made, gone>>,
         held' \cup internal' = held \cup internal, held' \cap internal' = {},
         RunningIsKept'
  PROVE  PInv'
<1>1. MapsAgree' /\ NewIsFresh' /\ SubscribersAreKept' /\ NumbersAreUsedOnce'
  BY DEF PInv, MapsAgree, NewIsFresh, SubscribersAreKept, NumbersAreUsedOnce, mapVars
<1> QED  BY <1>1 DEF PInv

LEMMA NextInv == MayRepeat = FALSE /\ PInv /\ [Next]_vars => PInv'
<1> SUFFICES ASSUME MayRepeat = FALSE, PInv, [Next]_vars PROVE PInv'
  OBVIOUS
<1>1. ASSUME NEW t \in Threads, NEW e \in Events, Publish(t, e) PROVE PInv'
  <2>1. TypeOK'
    BY <1>1, PubSubAssumption DEF Publish, At, Goto, PInv, TypeOK, mapVars
  <2>2. RunningIsKept'
    BY <1>1 DEF Publish, PInv, RunningIsKept, mapVars
  <2> QED
    BY <1>1, <2>1, <2>2, QuietKeepsInv DEF Publish, PInv, SubscribersAreKept
<1>2. ASSUME NEW t \in Threads, NEW e \in Events, NEW a \in Addresses,
             Subscribe(t, e, a)
      PROVE  PInv'
  BY <1>2, SubscribeKeepsInv
<1>3. ASSUME NEW t \in Threads, NEW s \in held, Unsubscribe(t, s) PROVE PInv'
  <2>1. s \notin held' \cup internal'
    BY <1>3 DEF Unsubscribe, PInv, SubscribersAreKept
  <2> QED  BY <1>3, <2>1, EraseKeepsInv DEF Unsubscribe
<1>4. ASSUME NEW t \in Threads, NEW m \in manager, Visit(t, m) PROVE PInv'
  <2>1. /\ pc[t] = "reading" /\ running' = [running EXCEPT ![t] = m.sub]
        /\ called' = [called EXCEPT ![t] = @ \cup {m}]
        /\ pc' = [pc EXCEPT ![t] = "calling"]
        /\ UNCHANGED <<mapVars, internal, exit, new, event, made, held, gone, dangling>>
    BY <1>4 DEF Visit, At, Goto
  <2>2. m \in Entries /\ m.sub \in 1..MaxSubs /\ m.sub # None
    BY PubSubAssumption DEF PInv, TypeOK, Entries
  <2>3. TypeOK'
    BY <2>1, <2>2 DEF PInv, TypeOK, mapVars
  <2>4. RunningIsKept'
    BY <2>1 DEF PInv, TypeOK, RunningIsKept, mapVars
  <2> QED  BY <2>1, <2>3, <2>4, QuietKeepsInv DEF PInv, SubscribersAreKept
<1>5. ASSUME NEW t \in Threads, Insert(t) PROVE PInv'
  BY <1>5, InsertKeepsInv
<1>6. ASSUME NEW t \in Threads, Read(t) PROVE PInv'
  <2>1. TypeOK'
    BY <1>6 DEF Read, At, Goto, PInv, TypeOK, mapVars
  <2>2. RunningIsKept'
    BY <1>6 DEF Read, PInv, RunningIsKept, mapVars
  <2> QED  BY <1>6, <2>1, <2>2, QuietKeepsInv DEF Read, PInv, SubscribersAreKept
<1>7. ASSUME NEW t \in Threads, HandlerReturns(t) PROVE PInv'
  <2>1. TypeOK'
    BY <1>7 DEF HandlerReturns, At, Goto, PInv, TypeOK, mapVars
  <2>2. RunningIsKept'
    BY <1>7 DEF HandlerReturns, PInv, TypeOK, RunningIsKept, mapVars
  <2> QED
    BY <1>7, <2>1, <2>2, QuietKeepsInv DEF HandlerReturns, PInv, SubscribersAreKept
<1>8. ASSUME NEW t \in Threads, EndPublish(t) PROVE PInv'
  <2>1. TypeOK'
    BY <1>8 DEF EndPublish, At, Goto, PInv, TypeOK, mapVars
  <2>2. RunningIsKept'
    BY <1>8 DEF EndPublish, PInv, RunningIsKept, mapVars
  <2> QED
    BY <1>8, <2>1, <2>2, QuietKeepsInv DEF EndPublish, PInv, SubscribersAreKept
<1>9. ASSUME NEW t \in Threads, Dangle(t) PROVE PInv'
  <2>1. TypeOK' /\ RunningIsKept'
    BY <1>9 DEF Dangle, PInv, TypeOK, RunningIsKept, mapVars, callVars
  <2> QED
    BY <1>9, <2>1, QuietKeepsInv DEF Dangle, PInv, SubscribersAreKept, callVars
<1>10. ASSUME NEW s \in held, SaveInternal(s) PROVE PInv'
  <2>1. TypeOK' /\ RunningIsKept'
    BY <1>10 DEF SaveInternal, PInv, TypeOK, RunningIsKept, mapVars, callVars
  <2> QED
    BY <1>10, <2>1, QuietKeepsInv
    DEF SaveInternal, PInv, SubscribersAreKept, callVars
<1>11. ASSUME NEW s \in internal, ExitUnsubscribe(s) PROVE PInv'
  <2>1. s \notin held' \cup internal'
    BY <1>11 DEF ExitUnsubscribe, PInv, SubscribersAreKept
  <2> QED  BY <1>11, <2>1, EraseKeepsInv DEF ExitUnsubscribe
<1>12. ASSUME Exit \/ ExitSweeps \/ Destroy PROVE PInv'
  <2>1. TypeOK' /\ RunningIsKept'
    BY <1>12 DEF Exit, ExitSweeps, Destroy, PInv, TypeOK, RunningIsKept, mapVars, callVars
  <2> QED
    BY <1>12, <2>1, QuietKeepsInv DEF Exit, ExitSweeps, Destroy, PInv, SubscribersAreKept, callVars
<1>13. CASE UNCHANGED vars
  <2>1. TypeOK' /\ RunningIsKept'
    BY <1>13 DEF vars, PInv, TypeOK, RunningIsKept, mapVars, callVars
  <2> QED
    BY <1>13, <2>1, QuietKeepsInv DEF vars, PInv, SubscribersAreKept, callVars
<1> QED
  BY <1>1, <1>2, <1>3, <1>4, <1>5, <1>6, <1>7, <1>8, <1>9, <1>10, <1>11, <1>12, <1>13
  DEF Next

-----------------------------------------------------------------------------
\* Every variable keeps its type, and a call holds a subscription, a handler or an
\* event exactly where its place in the code has one.
THEOREM Types ==
  ASSUME MayRepeat = FALSE
  PROVE  Spec => []TypeOK
<1>1. PInv => TypeOK
  BY DEF PInv
<1>2. PInv /\ [Next]_vars => PInv'
  BY NextInv
<1> QED  BY <1>1, <1>2, InitInv, PTL DEF Spec

\* When nobody unsubscribes twice, a handler whose unsubscribe() has returned
\* neither runs nor will, though malloc gives its address to others.
THEOREM Silence ==
  ASSUME MayRepeat = FALSE
  PROVE  Spec => []GoneIsSilent
<1>1. PInv => GoneIsSilent
  <2> SUFFICES ASSUME PInv PROVE GoneIsSilent
    OBVIOUS
  <2>1. \A m \in manager : m.sub \notin gone
    BY DEF PInv, NumbersAreUsedOnce
  <2>2. \A t \in Threads : running[t] \notin gone
    BY <2>1, PubSubAssumption DEF PInv, RunningIsKept, TypeOK
  <2> QED  BY <2>1, <2>2 DEF GoneIsSilent
<1>2. PInv /\ [Next]_vars => PInv'
  BY NextInv
<1> QED  BY <1>1, <1>2, InitInv, PTL DEF Spec

\* Nor does anybody's unsubscribe() take another's handler away.
THEOREM Kept ==
  ASSUME MayRepeat = FALSE
  PROVE  Spec => []OthersAreKept
<1>1. PInv => OthersAreKept
  BY DEF PInv, SubscribersAreKept, OthersAreKept
<1>2. PInv /\ [Next]_vars => PInv'
  BY NextInv
<1> QED  BY <1>1, <1>2, InitInv, PTL DEF Spec

\* The two maps always agree.
THEOREM Agreement ==
  ASSUME MayRepeat = FALSE
  PROVE  Spec => []MapsAgree
<1>1. PInv => MapsAgree
  BY DEF PInv
<1>2. PInv /\ [Next]_vars => PInv'
  BY NextInv
<1> QED  BY <1>1, <1>2, InitInv, PTL DEF Spec

\* Whatever callers do, twice too, the map does not change while a thread reads
\* it.
THEOREM Stillness == Spec => MapIsStill
<1> DEFINE PcOK == pc \in [Threads -> {"idle", "keyed", "tested", "reading", "calling"}]
<1>1. Init => PcOK
  BY DEF Init
<1>2. PcOK /\ [Next]_vars => PcOK'
  BY DEF Next, vars, callVars, Publish, Subscribe, Unsubscribe, Visit, Insert, Read,
         HandlerReturns, EndPublish, Dangle, SaveInternal, ExitUnsubscribe, Exit,
         ExitSweeps, Destroy, Goto
<1>3. PcOK /\ [Next]_vars => [\A t \in Readers \cap Readers' :
                                Handlers(event[t])' = Handlers(event[t])]_vars
  <2> SUFFICES ASSUME PcOK, Next, NEW t \in Readers \cap Readers'
               PROVE  Handlers(event[t])' = Handlers(event[t])
    BY DEF Readers
  <2>1. t \in Threads /\ pc[t] \in {"reading", "calling"}
                      /\ pc'[t] \in {"reading", "calling"}
    BY DEF Readers
  <2>2. UNCHANGED manager
    BY <2>1 DEF Next, Publish, Subscribe, Unsubscribe, Visit, Insert, Read,
         HandlerReturns, EndPublish, Dangle, SaveInternal, ExitUnsubscribe, Exit,
         ExitSweeps, Destroy, mapVars, Readers
  <2>3. event'[t] = event[t]
    <3>1. ASSUME NEW u \in Threads, EndPublish(u) PROVE event'[t] = event[t]
      BY <2>1, <3>1 DEF EndPublish, Goto
    <3>2. ASSUME NEW u \in Threads, NEW e \in Events, Publish(u, e)
          PROVE  event'[t] = event[t]
      BY <2>1, <3>2 DEF Publish, At
    <3>3. ASSUME NEW u \in Threads, NEW e \in Events, NEW a \in Addresses,
                 Subscribe(u, e, a)
          PROVE  event' = event
      BY <3>3 DEF Subscribe
    <3>4. ASSUME NEW u \in Threads, NEW s \in held, Unsubscribe(u, s)
          PROVE  event' = event
      BY <3>4 DEF Unsubscribe, callVars
    <3>5. ASSUME NEW u \in Threads, NEW m \in manager, Visit(u, m)
          PROVE  event' = event
      BY <3>5 DEF Visit
    <3>6. ASSUME NEW u \in Threads,
                 Insert(u) \/ Read(u) \/ HandlerReturns(u) \/ Dangle(u)
          PROVE  event' = event
      BY <3>6 DEF Insert, Read, HandlerReturns, Dangle, callVars
    <3>7. ASSUME NEW s \in held, SaveInternal(s) PROVE event' = event
      BY <3>7 DEF SaveInternal, callVars
    <3>8. ASSUME NEW s \in internal, ExitUnsubscribe(s) PROVE event' = event
      BY <3>8 DEF ExitUnsubscribe, callVars
    <3>9. ASSUME Exit \/ ExitSweeps \/ Destroy PROVE event' = event
      BY <3>9 DEF Exit, ExitSweeps, Destroy, callVars
    <3> QED
      BY <3>1, <3>2, <3>3, <3>4, <3>5, <3>6, <3>7, <3>8, <3>9 DEF Next
  <2> QED  BY <2>2, <2>3 DEF Handlers
<1> QED  BY <1>1, <1>2, <1>3, PTL DEF Spec, MapIsStill

-----------------------------------------------------------------------------
(* The publisher implements what it promises *)

\* What a publish called is forgotten when it ends.
CalledIsForgotten ==
  \A t \in Threads : pc[t] \notin {"reading", "calling"} => called[t] = {}

RInv == PInv /\ CalledIsForgotten

\* A publish records what it called where it reads the map, and there only.
LEMMA NextCalled == TypeOK /\ CalledIsForgotten /\ [Next]_vars => CalledIsForgotten'
<1> SUFFICES ASSUME TypeOK, CalledIsForgotten, [Next]_vars, NEW u \in Threads,
                    pc'[u] \notin {"reading", "calling"}
             PROVE  called'[u] = {}
  BY DEF CalledIsForgotten
<1>1. /\ pc \in [Threads -> {"idle", "keyed", "tested", "reading", "calling"}]
      /\ called \in [Threads -> SUBSET Entries]
  BY DEF TypeOK
<1>2. pc[u] \notin {"reading", "calling"} => called[u] = {}
  BY DEF CalledIsForgotten
<1>3. ASSUME NEW t \in Threads, NEW e \in Events, Publish(t, e) PROVE called'[u] = {}
  BY <1>1, <1>2, <1>3 DEF Publish, At, Goto
<1>4. ASSUME NEW t \in Threads, NEW e \in Events, NEW a \in Addresses,
             Subscribe(t, e, a)
      PROVE  called'[u] = {}
  BY <1>1, <1>2, <1>4 DEF Subscribe, At, Goto
<1>5. ASSUME NEW t \in Threads, NEW s \in held, Unsubscribe(t, s)
      PROVE  called'[u] = {}
  BY <1>2, <1>5 DEF Unsubscribe, callVars
<1>6. ASSUME NEW t \in Threads, NEW m \in manager, Visit(t, m) PROVE called'[u] = {}
  BY <1>1, <1>2, <1>6 DEF Visit, At, Goto
<1>7. ASSUME NEW t \in Threads, Insert(t) \/ Read(t) \/ HandlerReturns(t)
      PROVE  called'[u] = {}
  BY <1>1, <1>2, <1>7 DEF Insert, Read, HandlerReturns, At, Goto
<1>8. ASSUME NEW t \in Threads, EndPublish(t) PROVE called'[u] = {}
  BY <1>1, <1>2, <1>8 DEF EndPublish, At, Goto
<1>9. ASSUME \/ Exit \/ ExitSweeps \/ Destroy \/ \E t \in Threads : Dangle(t)
             \/ \E s \in held : SaveInternal(s)
             \/ \E s \in internal : ExitUnsubscribe(s)
      PROVE  called'[u] = {}
  BY <1>2, <1>9 DEF Exit, ExitSweeps, Destroy, Dangle, SaveInternal, ExitUnsubscribe, callVars
<1>10. CASE UNCHANGED vars
  BY <1>2, <1>10 DEF vars, callVars
<1> QED
  BY <1>3, <1>4, <1>5, <1>6, <1>7, <1>8, <1>9, <1>10 DEF Next

\* A handler is known by its number, so one leaves the map when its name leaves.
LEMMA NamedWithout ==
  ASSUME PInv, NEW S \in SUBSET manager, NEW m \in manager
  PROVE  Named(S \ {m}) = Named(S) \ {[event |-> m.event, sub |-> m.sub]}
<1>1. \A n \in manager : n.sub = m.sub => n = m
  BY DEF PInv, NumbersAreUsedOnce
<1> QED  BY <1>1 DEF Named

\* What a publish owes depends on its own place and on the map.
LEMMA OwedStays ==
  ASSUME NEW u \in Threads, manager' = manager,
         pc[u] \in {"reading", "calling"} <=> pc'[u] \in {"reading", "calling"},
         event'[u] = event[u], called'[u] = called[u]
  PROVE  Owed(u)' = Owed(u)
BY DEF Owed, Readers, Handlers, Named

LEMMA NobodyOwes ==
  ASSUME Readers = {}
  PROVE  [t \in Threads |-> Owed(t)] = [t \in Threads |-> {}]
BY DEF Owed

\* A handler leaves the map between publishes.
LEMMA EraseRemoves ==
  ASSUME PInv, NEW s \in held \cup internal, Erased(s), Readers = {},
         gone' = gone \cup {s.sub}, UNCHANGED callVars
  PROVE  Registry!RNext
<1> DEFINE r == [event |-> s.event, sub |-> s.sub]
<1>1. s \in manager /\ manager' = manager \ {s}
  BY ErasedOne DEF PInv, SubscribersAreKept
<1>2. r \in Named(manager) /\ Named(manager)' = Named(manager) \ {r}
  BY <1>1, NamedWithout DEF Named
<1>3. Readers' = {} /\ running' = running
  BY DEF Readers, callVars
<1>4. [t \in Threads |-> Owed(t)]' = [t \in Threads |-> Owed(t)]
  BY <1>3 DEF Owed
<1>5. r.sub = s.sub
  OBVIOUS
<1> HIDE DEF r
<1>6. Registry!Remove(r)
  BY <1>2, <1>3, <1>4, <1>5 DEF Registry!Remove
<1> QED  BY <1>2, <1>6 DEF Registry!RNext

\* A handler enters the map between publishes, under a number of its own.
LEMMA InsertAdds ==
  ASSUME PInv, NEW t \in Threads, Insert(t)
  PROVE  Registry!RNext
<1> DEFINE m == new[t]
<1>1. /\ pc[t] = "keyed" /\ Readers = {}
      /\ manager' = {n \in manager : n.event # m.event \/ n.key # m.key} \cup {m}
      /\ pc' = [pc EXCEPT ![t] = "idle"]
      /\ UNCHANGED <<event, called, running, gone>>
  BY DEF Insert, At, Goto
<1>2. m \in Entries /\ m # None
  BY <1>1 DEF PInv, TypeOK
<1>3. /\ \A n \in manager : n.key # m.key /\ n.sub # m.sub
      /\ m.sub \notin gone
  BY <1>2 DEF PInv, NewIsFresh, MapsAgree
<1> HIDE DEF m
<1>4. manager' = manager \cup {m}
  BY <1>1, <1>3
<1>5. m.event \in Events /\ m.sub \in 1..MaxSubs
  BY <1>2 DEF Entries
<1>6. Named(manager)' = Named(manager) \cup {[event |-> m.event, sub |-> m.sub]}
  BY <1>4 DEF Named
<1>7. \A s \in Named(manager) : s.sub # m.sub
  BY <1>3 DEF Named
<1>8. Readers' = {}
  BY <1>1 DEF Readers, PInv, TypeOK
<1>9. [u \in Threads |-> Owed(u)]' = [u \in Threads |-> Owed(u)]
  BY <1>1, <1>8 DEF Owed
<1>10. Registry!Add(m.event, m.sub)
  BY <1>1, <1>3, <1>6, <1>7, <1>8, <1>9 DEF Registry!Add
<1> QED  BY <1>5, <1>10 DEF Registry!RNext

\* A publish that has the lock owes what its event has then ...
LEMMA ReadBegins ==
  ASSUME RInv, NEW t \in Threads, Read(t)
  PROVE  Registry!RNext
<1>1. /\ pc[t] = "tested" /\ pc' = [pc EXCEPT ![t] = "reading"]
      /\ UNCHANGED <<manager, event, called, running, gone>>
  BY DEF Read, At, Goto, mapVars
<1>2. /\ pc'[t] = "reading"
      /\ \A u \in Threads : u # t => pc'[u] = pc[u]
  BY <1>1 DEF RInv, PInv, TypeOK
<1>3. t \notin Readers /\ Readers' = Readers \cup {t}
  BY <1>1, <1>2 DEF Readers
<1>4. called[t] = {} /\ event[t] \in Events
  <2>1. event[t] \in Events \cup {None} /\ event[t] # None
    BY <1>1 DEF RInv, PInv, TypeOK
  <2> QED  BY <1>1, <2>1 DEF RInv, CalledIsForgotten
<1>5. Owed(t)' = {s \in Named(manager) : s.event = event[t]}
  BY <1>1, <1>3, <1>4 DEF Owed, Named, Handlers
<1>6. \A u \in Threads : u # t => Owed(u)' = Owed(u)
  BY <1>1, <1>2, OwedStays
<1>7. [u \in Threads |-> Owed(u)]'
        = [[u \in Threads |-> Owed(u)] EXCEPT
             ![t] = {s \in Named(manager) : s.event = event[t]}]
  BY <1>5, <1>6
<1>8. Named(manager)' = Named(manager)
  BY <1>1 DEF Named
<1>9. Registry!Begin(t, event[t])
  BY <1>1, <1>3, <1>7, <1>8 DEF Registry!Begin
<1> QED  BY <1>4, <1>9 DEF Registry!RNext

\* ... calls a handler that it owes ...
LEMMA VisitCalls ==
  ASSUME RInv, NEW t \in Threads, NEW m \in manager, Visit(t, m)
  PROVE  Registry!RNext
<1> DEFINE r == [event |-> m.event, sub |-> m.sub]
           S == Handlers(event[t]) \ called[t]
<1>1. /\ pc[t] = "reading" /\ pc' = [pc EXCEPT ![t] = "calling"]
      /\ m \in S
      /\ called' = [called EXCEPT ![t] = @ \cup {m}]
      /\ running' = [running EXCEPT ![t] = m.sub]
      /\ UNCHANGED <<manager, event, gone>>
  BY DEF Visit, At, Goto, mapVars
<1>2. /\ pc'[t] = "calling" /\ called'[t] = called[t] \cup {m}
      /\ \A u \in Threads : u # t => pc'[u] = pc[u] /\ called'[u] = called[u]
  BY <1>1 DEF RInv, PInv, TypeOK
<1>3. t \in Readers /\ Readers' = Readers
  BY <1>1, <1>2 DEF Readers
<1>4. Owed(t) = Named(S)
  BY <1>3 DEF Owed
<1>5. Owed(t)' = Named(S \ {m})
  <2>1. Handlers(event[t])' = Handlers(event[t])
    BY <1>1 DEF Handlers
  <2>2. Handlers(event[t]) \ (called[t] \cup {m}) = S \ {m}
    OBVIOUS
  <2>3. Owed(t)' = Named(Handlers(event[t])' \ called'[t])
    BY <1>3 DEF Owed, Named
  <2> QED  BY <1>2, <2>1, <2>2, <2>3
<1>6. Owed(t)' = Owed(t) \ {r}
  <2>1. S \in SUBSET manager
    BY DEF Handlers
  <2> QED  BY <1>4, <1>5, <2>1, NamedWithout DEF RInv
<1>7. r \in Owed(t)
  BY <1>1, <1>4 DEF Named
<1>8. \A u \in Threads : u # t => Owed(u)' = Owed(u)
  BY <1>1, <1>2, OwedStays
<1>9. Named(manager)' = Named(manager)
  BY <1>1 DEF Named
<1>10. running[t] = None
  BY <1>1 DEF RInv, PInv, TypeOK
<1>11. r.sub = m.sub
  OBVIOUS
<1> HIDE DEF r, S
<1>12. [u \in Threads |-> Owed(u)]'
         = [[u \in Threads |-> Owed(u)] EXCEPT ![t] = @ \ {r}]
  BY <1>6, <1>8
<1>13. Registry!CallHandler(t, r)
  BY <1>1, <1>3, <1>9, <1>10, <1>11, <1>12 DEF Registry!CallHandler
<1> QED  BY <1>7, <1>13 DEF Registry!RNext

\* ... and ends when it owes nothing.
LEMMA EndFinishes ==
  ASSUME RInv, NEW t \in Threads, EndPublish(t)
  PROVE  Registry!RNext
<1>1. /\ pc[t] = "reading" /\ pc' = [pc EXCEPT ![t] = "idle"]
      /\ Handlers(event[t]) \subseteq called[t]
      /\ event' = [event EXCEPT ![t] = None]
      /\ called' = [called EXCEPT ![t] = {}]
      /\ UNCHANGED <<manager, running, gone>>
  BY DEF EndPublish, At, Goto, mapVars
<1>2. /\ pc'[t] = "idle"
      /\ \A u \in Threads : u # t => /\ pc'[u] = pc[u] /\ called'[u] = called[u]
                                     /\ event'[u] = event[u]
  BY <1>1 DEF RInv, PInv, TypeOK
<1>3. t \in Readers /\ Readers' = Readers \ {t}
  BY <1>1, <1>2 DEF Readers
<1>4. Owed(t) = {} /\ Owed(t)' = {}
  <2>1. Handlers(event[t]) \ called[t] = {}
    BY <1>1
  <2> QED  BY <1>3, <2>1 DEF Owed, Named
<1>5. \A u \in Threads : u # t => Owed(u)' = Owed(u)
  BY <1>1, <1>2, OwedStays
<1>6. [u \in Threads |-> Owed(u)]' = [u \in Threads |-> Owed(u)]
  BY <1>4, <1>5
<1>7. Named(manager)' = Named(manager)
  BY <1>1 DEF Named
<1>8. running[t] = None
  BY <1>1 DEF RInv, PInv, TypeOK
<1>9. Registry!Finish(t)
  BY <1>1, <1>3, <1>4, <1>6, <1>7, <1>8 DEF Registry!Finish
<1> QED  BY <1>9 DEF Registry!RNext

\* Where nothing that tools see changes, the publisher stutters.
LEMMA Stutters ==
  ASSUME manager' = manager, gone' = gone, running' = running,
         \A u \in Threads :
           /\ pc[u] \in {"reading", "calling"} <=> pc'[u] \in {"reading", "calling"}
           /\ called'[u] = called[u]
           /\ pc[u] \in {"reading", "calling"} => event'[u] = event[u]
  PROVE  UNCHANGED Registry!rvars
<1>1. Readers' = Readers
  BY DEF Readers
<1>2. \A u \in Threads : Owed(u)' = Owed(u)
  BY <1>1 DEF Owed, Readers, Handlers, Named
<1>3. [u \in Threads |-> Owed(u)]' = [u \in Threads |-> Owed(u)]
  BY <1>2
<1>4. Named(manager)' = Named(manager)
  BY DEF Named
<1> QED  BY <1>1, <1>3, <1>4 DEF Registry!rvars

LEMMA StepImplements ==
  MayRepeat = FALSE /\ RInv /\ [Next]_vars => [Registry!RNext]_(Registry!rvars)
<1> SUFFICES ASSUME RInv, [Next]_vars
             PROVE  Registry!RNext \/ UNCHANGED Registry!rvars
  OBVIOUS
<1>1. pc \in [Threads -> {"idle", "keyed", "tested", "reading", "calling"}]
  BY DEF RInv, PInv, TypeOK
<1>2. ASSUME NEW t \in Threads, NEW e \in Events, Publish(t, e)
      PROVE  UNCHANGED Registry!rvars
  <2>1. \A u \in Threads :
          /\ pc[u] \in {"reading", "calling"} <=> pc'[u] \in {"reading", "calling"}
          /\ pc[u] \in {"reading", "calling"} => event'[u] = event[u]
    BY <1>1, <1>2 DEF Publish, At, Goto
  <2> QED  BY <1>2, <2>1, Stutters DEF Publish, mapVars
<1>3. ASSUME NEW t \in Threads, NEW e \in Events, NEW a \in Addresses,
             Subscribe(t, e, a)
      PROVE  UNCHANGED Registry!rvars
  <2>1. \A u \in Threads :
          pc[u] \in {"reading", "calling"} <=> pc'[u] \in {"reading", "calling"}
    BY <1>1, <1>3 DEF Subscribe, At, Goto
  <2> QED  BY <1>3, <2>1, Stutters DEF Subscribe, mapVars
<1>4. ASSUME NEW t \in Threads, NEW s \in held, Unsubscribe(t, s)
      PROVE  Registry!RNext
  BY <1>4, EraseRemoves DEF Unsubscribe, RInv
<1>5. ASSUME NEW t \in Threads, NEW m \in manager, Visit(t, m)
      PROVE  Registry!RNext
  BY <1>5, VisitCalls
<1>6. ASSUME NEW t \in Threads, Insert(t) PROVE Registry!RNext
  BY <1>6, InsertAdds DEF RInv
<1>7. ASSUME NEW t \in Threads, Read(t) PROVE Registry!RNext
  BY <1>7, ReadBegins
<1>8. ASSUME NEW t \in Threads, HandlerReturns(t) PROVE Registry!RNext
  <2>1. /\ pc[t] = "calling" /\ pc' = [pc EXCEPT ![t] = "reading"]
        /\ running' = [running EXCEPT ![t] = None]
        /\ UNCHANGED <<manager, event, called, gone>>
    BY <1>8 DEF HandlerReturns, At, Goto, mapVars
  <2>2. \A u \in Threads :
          pc[u] \in {"reading", "calling"} <=> pc'[u] \in {"reading", "calling"}
    BY <1>1, <2>1
  <2>3. Readers' = Readers
    BY <2>2 DEF Readers
  <2>4. \A u \in Threads : Owed(u)' = Owed(u)
    BY <2>1, <2>2, OwedStays
  <2>5. [u \in Threads |-> Owed(u)]' = [u \in Threads |-> Owed(u)]
    BY <2>4
  <2>6. Named(manager)' = Named(manager)
    BY <2>1 DEF Named
  <2>7. Registry!ReturnFromHandler(t)
    BY <2>1, <2>3, <2>5, <2>6 DEF Registry!ReturnFromHandler
  <2> QED  BY <2>7 DEF Registry!RNext
<1>9. ASSUME NEW t \in Threads, EndPublish(t) PROVE Registry!RNext
  BY <1>9, EndFinishes
<1>10. ASSUME NEW s \in internal, ExitUnsubscribe(s) PROVE Registry!RNext
  BY <1>10, EraseRemoves DEF ExitUnsubscribe, RInv
<1>11. ASSUME \/ Exit \/ ExitSweeps \/ Destroy \/ \E t \in Threads : Dangle(t)
              \/ \E s \in held : SaveInternal(s)
       PROVE  UNCHANGED Registry!rvars
  <2>1. UNCHANGED <<mapVars, callVars, gone>>
    BY <1>11 DEF Exit, ExitSweeps, Destroy, Dangle, SaveInternal
  <2> QED  BY <2>1, Stutters DEF mapVars, callVars
<1>12. CASE UNCHANGED vars
  BY <1>12, Stutters DEF vars, mapVars, callVars
<1> QED
  BY <1>2, <1>3, <1>4, <1>5, <1>6, <1>7, <1>8, <1>9, <1>10, <1>11, <1>12 DEF Next

\* When nobody unsubscribes twice, the maps, the reused addresses and the lock
\* show tools nothing but a publisher that calls each handler of an event once in
\* a publish, and adds or removes one only between publishes.
THEOREM Refinement ==
  ASSUME MayRepeat = FALSE
  PROVE  Spec => ImplementsRegistry
<1>1. Init => RInv
  BY InitInv DEF RInv, CalledIsForgotten, Init
<1>2. RInv /\ [Next]_vars => RInv'
  BY NextInv, NextCalled DEF RInv, PInv
<1>3. Init => Registry!RInit
  <2> SUFFICES ASSUME Init PROVE Registry!RInit
    OBVIOUS
  <2>1. Readers = {} /\ Named(manager) = {}
    BY DEF Init, Readers, Named
  <2> QED  BY <2>1, NobodyOwes DEF Init, Registry!RInit
<1>4. RInv /\ [Next]_vars => [Registry!RNext]_(Registry!rvars)
  BY StepImplements
<1> QED  BY <1>1, <1>2, <1>3, <1>4, PTL DEF Spec, ImplementsRegistry, Registry!RSpec

-----------------------------------------------------------------------------
(* What follows from the promise alone *)

\* Any publisher that keeps the promise, seen by its tools.
VARIABLES subs, removed, publishing, owed
Promise == INSTANCE EventRegistry WITH Names <- 1..MaxSubs

\* A thread is never in a handler that is not subscribed, nor about to be.
THEOREM PromiseIsSafe == Promise!RSpec => []Promise!CallsTheSubscribed
<1> DEFINE Inv == /\ Promise!CallsTheSubscribed
                  /\ \A r, s \in subs : r.sub = s.sub => r = s
                  /\ DOMAIN owed = Threads /\ DOMAIN running = Threads
<1> USE DEF Promise!CallsTheSubscribed
<1>1. Promise!RInit => Inv
  BY DEF Promise!RInit
<1>2. Inv /\ [Promise!RNext]_(Promise!rvars) => Inv'
  <2> SUFFICES ASSUME Inv, [Promise!RNext]_(Promise!rvars) PROVE Inv'
    OBVIOUS
  <2>1. ASSUME NEW e \in Events, NEW n \in 1..MaxSubs, Promise!Add(e, n) PROVE Inv'
    BY <2>1 DEF Promise!Add
  <2>2. ASSUME NEW s \in subs, Promise!Remove(s) PROVE Inv'
    BY <2>2 DEF Promise!Remove
  <2>3. ASSUME NEW t \in Threads, NEW e \in Events, Promise!Begin(t, e) PROVE Inv'
    BY <2>3 DEF Promise!Begin
  <2>4. ASSUME NEW t \in Threads, NEW s \in owed[t], Promise!CallHandler(t, s)
        PROVE  Inv'
    BY <2>4 DEF Promise!CallHandler
  <2>5. ASSUME NEW t \in Threads, Promise!ReturnFromHandler(t) PROVE Inv'
    BY <2>5 DEF Promise!ReturnFromHandler
  <2>6. ASSUME NEW t \in Threads, Promise!Finish(t) PROVE Inv'
    BY <2>6 DEF Promise!Finish
  <2>7. CASE UNCHANGED Promise!rvars
    BY <2>7 DEF Promise!rvars
  <2> QED
    BY <2>1, <2>2, <2>3, <2>4, <2>5, <2>6, <2>7 DEF Promise!RNext
<1>3. Inv => Promise!CallsTheSubscribed
  OBVIOUS
<1> QED  BY <1>1, <1>2, <1>3, PTL DEF Promise!RSpec
=============================================================================

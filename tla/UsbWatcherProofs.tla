-------------------------- MODULE UsbWatcherProofs --------------------------
(***************************************************************************)
(* The safety properties of the USB watcher, for every number of device    *)
(* files, attempts and arrivals.                                           *)
(***************************************************************************)
EXTENDS UsbWatcher, SequenceTheorems, TLAPS

Event == [kind : {"create", "delete"}, usb : Usb]

\* There is a first index, and 0 is no thread.
LEMMA Numbers ==
    /\ 1 \in Usb /\ Usb \subseteq Int /\ Usb \subseteq 1..(NumUsb + 1)
    /\ Threads \subseteq Int /\ 0 \notin Threads
BY UsbWatcherAssumption DEF Usb, Threads

\* A new thread is noted and runs for its index.
LEMMA CreateTypes ==
    ASSUME TypeOK, NEW i \in Usb, StartThread(i)
    PROVE  /\ tid' \in [Usb -> Threads \cup {0}]
           /\ tpc' \in [Threads -> ThreadPcs]
           /\ tusb' \in [Threads -> Usb]
           /\ UNCHANGED <<tries, cancelled>>
<1>1. PICK t \in Unborn :
        /\ tpc' = [tpc EXCEPT ![t] = "start"]
        /\ tusb' = [tusb EXCEPT ![t] = i]
        /\ tid' = [j \in Usb |-> IF j \in {i} THEN t ELSE tid[j]]
        /\ UNCHANGED <<tries, cancelled>>
  BY DEF StartThread, Create
<1>2. t \in Threads
  BY DEF Unborn
<1> QED BY <1>1, <1>2 DEF TypeOK, ThreadPcs

\* Reading the next event leaves a sequence of events.
LEMMA ReadTypes ==
    ASSUME TypeOK, NEW kind, ReadEvent(kind)
    PROVE  events' \in Seq(Event) /\ Head(events) \in Event
<1>1. events \in Seq(Event) /\ events # <<>> /\ events' = Tail(events)
  BY DEF TypeOK, ReadEvent, Event
<1> QED BY <1>1, HeadTailProperties

\* Every step keeps every variable in its type.
LEMMA TypeStep == TypeOK /\ [Next]_vars => TypeOK'
<1> SUFFICES ASSUME TypeOK, [Next]_vars PROVE TypeOK'
  OBVIOUS
<1> USE UsbWatcherAssumption, Numbers
    DEF tableVars, watcherVars, threadVars, envVars
<1>1. ASSUME NEW i \in Usb, Plug(i) \/ Unplug(i)
      PROVE  TypeOK'
  <2>1. PICK kind \in {"create", "delete"} : Moved(i, kind) /\ plugged' \subseteq Usb
    BY <1>1 DEF Plug, Unplug, TypeOK
  <2>2. events' \in Seq([kind : {"create", "delete"}, usb : Usb])
    <3>1. events \in Seq(Event) /\ [kind |-> kind, usb |-> i] \in Event
      BY DEF TypeOK, Event
    <3>2. Append(events, [kind |-> kind, usb |-> i]) \in Seq(Event)
      BY <3>1, AppendProperties
    <3> QED BY <2>1, <3>1, <3>2 DEF Moved, Event
  <2>3. moves' \in 0..MaxMoves /\ calm' \in {0, 1}
    BY <2>1 DEF Moved, TypeOK
  <2> QED BY <2>1, <2>2, <2>3 DEF Moved, TypeOK
<1>2. CASE StatDevice
  <2>1. at \in Usb /\ at' \in 1..(NumUsb + 1)
    BY <1>2 DEF StatDevice, Usb
  <2>2. /\ tid' \in [Usb -> Threads \cup {0}] /\ tpc' \in [Threads -> ThreadPcs]
        /\ tusb' \in [Threads -> Usb] /\ UNCHANGED <<tries, cancelled>>
    BY <1>2, <2>1, CreateTypes DEF StatDevice, TypeOK
  <2> QED BY <1>2, <2>1, <2>2 DEF StatDevice, TypeOK
<1>3. CASE AddWatch
  BY <1>3 DEF AddWatch, TypeOK
<1>4. CASE HandleCreate
  <2>1. events' \in Seq(Event) /\ Head(events).usb \in Usb
    BY <1>4, ReadTypes DEF HandleCreate, CreateEvent, Event
  <2>2. /\ tid' \in [Usb -> Threads \cup {0}] /\ tpc' \in [Threads -> ThreadPcs]
        /\ tusb' \in [Threads -> Usb] /\ UNCHANGED <<tries, cancelled>>
    BY <1>4, <2>1, CreateTypes DEF HandleCreate, CreateEvent, TypeOK
  <2> QED BY <1>4, <2>1, <2>2 DEF HandleCreate, CreateEvent, TypeOK, Event
<1>5. CASE HandleDelete
  <2>1. events' \in Seq(Event) /\ Head(events).usb \in Usb
    BY <1>5, ReadTypes DEF HandleDelete, Event
  <2>2. /\ tid' \in [Usb -> Threads \cup {0}] /\ cancelled' \subseteq Threads
        /\ crashed' \in {0, 1}
    BY <1>5, <2>1 DEF HandleDelete, TypeOK
  <2>3. at' \in 1..(NumUsb + 1)
    BY <1>5, <2>1 DEF HandleDelete
  <2> QED BY <1>5, <2>1, <2>2, <2>3 DEF HandleDelete, TypeOK, Event
<1>6. CASE ClearConnected
  BY <1>6 DEF ClearConnected, TakeOut, TypeOK
<1>7. CASE ClearDeviceId
  BY <1>7 DEF ClearDeviceId, TypeOK
<1>8. CASE CountDown
  BY <1>8 DEF CountDown, TypeOK
<1>9. ASSUME NEW t \in Threads, ThreadStep(t)
      PROVE  TypeOK'
  <2> USE DEF Go, TypeOK, ThreadPcs
  <2>1. CASE Begin(t)
    BY <2>1 DEF Begin
  <2>2. CASE get_devid(t)
    <3>1. /\ \E l \in {"setid", "try", "gaveup"} : Go(t, "try", l)
          /\ \E x \in 0..(MaxTries - 1) : tries' = [tries EXCEPT ![t] = x]
          /\ UNCHANGED <<tableVars, watcherVars, tusb, cancelled, envVars, events, reg, crashed>>
      BY <2>2 DEF get_devid, TryDevice
    <3>2. tpc' \in [Threads -> ThreadPcs] /\ tries' \in [Threads -> 0..(MaxTries - 1)]
      BY <3>1
    <3> QED BY <3>1, <3>2 DEF tableVars, watcherVars, envVars
  <2>3. CASE Die(t)
    BY <2>3 DEF Die
  <2>4. CASE SetDeviceId(t)
    BY <2>4 DEF SetDeviceId, NoteId
  <2>5. CASE CheckConnected(t)
    BY <2>5 DEF CheckConnected
  <2>6. CASE SetConnected(t)
    BY <2>6 DEF SetConnected
  <2>7. CASE CountUp(t)
    <3>1. /\ Go(t, "count", "done") /\ num' \in Int /\ reg' = [reg EXCEPT ![t] = 0]
          /\ UNCHANGED <<attached, connected, known, watcherVars, tusb, tries, cancelled, envVars, events, crashed>>
      BY <2>7 DEF CountUp
    <3>2. tpc' \in [Threads -> ThreadPcs] /\ reg' \in [Threads \cup {0} -> Int]
      BY <3>1
    <3> QED BY <3>1, <3>2 DEF watcherVars, envVars
  <2> QED
    BY <1>9, <2>1, <2>2, <2>3, <2>4, <2>5, <2>6, <2>7 DEF ThreadStep
<1>10. CASE UNCHANGED vars
  BY <1>10 DEF vars, TypeOK
<1> QED
  BY <1>1, <1>2, <1>3, <1>4, <1>5, <1>6, <1>7, <1>8, <1>9, <1>10 DEF Next, WatcherStep

\* The type invariant of the watcher and its threads.
THEOREM TypeCorrect == Spec => []TypeOK
<1>1. Init => TypeOK
  BY UsbWatcherAssumption, Numbers DEF Init, TypeOK, ThreadPcs
<1> QED
  BY <1>1, TypeStep, PTL DEF Spec

-----------------------------------------------------------------------------
(* The events of a device                                                  *)

\* A new event comes after those there are.
LEMMA AppendOf ==
    ASSUME TypeOK, NEW i \in Usb, NEW kind \in {"create", "delete"},
           events' = Append(events, [kind |-> kind, usb |-> i])
    PROVE  \E n \in Int :
             /\ events'[n] = [kind |-> kind, usb |-> i]
             /\ \A k \in DOMAIN events : k \in Int /\ k < n /\ events'[k] = events[k]
             /\ Of(i)' = Of(i) \cup {n}
             /\ \A j \in Usb \ {i} : Of(j)' = Of(j)
<1> DEFINE n == Len(events) + 1
           e == [kind |-> kind, usb |-> i]
<1>1. events \in Seq(Event) /\ e \in Event
  BY DEF TypeOK, Event
<1>2. /\ events' \in Seq(Event) /\ Len(events') = n
      /\ \A k \in 1..Len(events) : events'[k] = events[k]
      /\ events'[n] = e
  BY <1>1, AppendProperties
<1>3. Len(events) \in Nat /\ DOMAIN events = 1..Len(events) /\ DOMAIN events' = 1..n
  BY <1>1, <1>2
<1>4. DOMAIN events' = DOMAIN events \cup {n} /\ \A k \in DOMAIN events : k \in Int /\ k < n
  BY <1>3
<1>5. Of(i)' = Of(i) \cup {n} /\ \A j \in Usb \ {i} : Of(j)' = Of(j)
  BY <1>2, <1>3, <1>4 DEF Of
<1>6. n \in Int
  BY <1>3
<1> QED BY <1>2, <1>3, <1>4, <1>5, <1>6

\* Reading the first event moves the others up.
LEMMA TailOf ==
    ASSUME TypeOK, events # <<>>, events' = Tail(events)
    PROVE  /\ Head(events) = events[1] /\ 1 \in DOMAIN events
           /\ \A k \in DOMAIN events : k \in Int /\ 1 <= k
           /\ \A k \in DOMAIN events' : /\ k \in Int /\ 1 <= k /\ k + 1 \in DOMAIN events
                                        /\ events'[k] = events[k + 1]
           /\ \A k \in DOMAIN events \ {1} : k - 1 \in DOMAIN events'
<1>1. events \in Seq(Event)
  BY DEF TypeOK, Event
<1>2. /\ events' \in Seq(Event) /\ Len(events') = Len(events) - 1
      /\ \A k \in 1..Len(events') : events'[k] = events[k + 1]
  BY <1>1, HeadTailProperties
<1>3. Len(events) \in Nat /\ DOMAIN events = 1..Len(events) /\ DOMAIN events' = 1..Len(events')
  BY <1>1, <1>2
<1>4. Len(events) # 0
  BY <1>1, EmptySeq
<1>5. Head(events) = events[1]
  BY <1>1
<1> QED BY <1>2, <1>3, <1>4, <1>5

\* A device that comes or goes changes nothing the watcher has been told.
LEMMA MoveKeepsSeen ==
    ASSUME TypeOK, EventsAlternate, NEW i \in Usb, Plug(i) \/ Unplug(i)
    PROVE  /\ EventsAlternate'
           /\ wpc \notin {"stat", "failed"} => \A j \in Usb : Seen(j)' => Seen(j)
<1>1. PICK kind \in {"create", "delete"} :
        /\ Moved(i, kind)
        /\ kind = "create" <=> i \notin plugged
        /\ i \in plugged' <=> kind = "create"
        /\ \A j \in Usb \ {i} : j \in plugged' <=> j \in plugged
  BY DEF Plug, Unplug
<1>2. wpc' = wpc
  BY <1>1 DEF Moved, watcherVars
<1>3. CASE wpc \in {"stat", "failed"}
  <2>1. events' = events /\ events = <<>>
    BY <1>1, <1>3 DEF Moved, EventsAlternate
  <2>2. DOMAIN events = {}
    BY <2>1
  <2> QED BY <1>2, <1>3, <2>1, <2>2 DEF EventsAlternate, Of
<1>4. CASE wpc \notin {"stat", "failed"}
  <2>1. events' = Append(events, [kind |-> kind, usb |-> i])
    BY <1>1, <1>4 DEF Moved
  <2>2. PICK n \in Int :
          /\ events'[n] = [kind |-> kind, usb |-> i]
          /\ \A k \in DOMAIN events : k \in Int /\ k < n /\ events'[k] = events[k]
          /\ Of(i)' = Of(i) \cup {n}
          /\ \A j \in Usb \ {i} : Of(j)' = Of(j)
    BY <2>1, AppendOf
  <2>3. \A j \in Usb : \A k \in Of(j) : /\ k \in Int /\ k < n /\ events'[k] = events[k]
    BY <2>2 DEF Of
  <2>4. \A j \in Usb : \A k, m \in Of(j)' :
          k < m /\ (\A x \in Of(j)' : ~(k < x /\ x < m)) => events'[k].kind # events'[m].kind
    <3>1. ASSUME NEW k \in Of(i)', NEW m \in Of(i)', k < m,
                 \A x \in Of(i)' : ~(k < x /\ x < m)
          PROVE  events'[k].kind # events'[m].kind
      <4>1. k \in Of(i)
        BY <2>2, <2>3, <3>1
      <4>2. CASE m \in Of(i)
        BY <2>2, <2>3, <3>1, <4>1, <4>2 DEF EventsAlternate
      <4>3. CASE m = n
        <5>1. ASSUME NEW x \in Of(i) PROVE x <= k
          <6>1. x \in Int /\ k \in Int /\ x < n
            BY <2>3, <4>1
          <6>2. x \in Of(i)'
            BY <2>2
          <6>3. ~(k < x /\ x < m)
            BY <3>1, <6>2
          <6> QED BY <4>3, <6>1, <6>3
        <5>2. events[k].kind = "create" <=> i \in plugged
          BY <4>1, <5>1 DEF EventsAlternate
        <5>3. events'[k] = events[k] /\ events'[m] = [kind |-> kind, usb |-> i]
          BY <2>2, <2>3, <4>1, <4>3
        <5> QED BY <1>1, <5>2, <5>3
      <4> QED BY <2>2, <4>2, <4>3
    <3>2. ASSUME NEW j \in Usb \ {i}, NEW k \in Of(j)', NEW m \in Of(j)', k < m,
                 \A x \in Of(j)' : ~(k < x /\ x < m)
          PROVE  events'[k].kind # events'[m].kind
      BY <2>2, <2>3, <3>2 DEF EventsAlternate
    <3> QED BY <3>1, <3>2
  <2>5. \A j \in Usb : \A k \in Of(j)' :
          (\A x \in Of(j)' : x <= k) => (events'[k].kind = "create" <=> j \in plugged')
    <3>1. \A k \in Of(i)' : (\A x \in Of(i)' : x <= k) => k = n
      BY <2>2, <2>3
    <3>2. events'[n].kind = "create" <=> i \in plugged'
      BY <1>1, <2>2
    <3>3. ASSUME NEW j \in Usb \ {i}
          PROVE  \A k \in Of(j)' :
                   (\A x \in Of(j)' : x <= k) => (events'[k].kind = "create" <=> j \in plugged')
      BY <1>1, <2>2, <2>3 DEF EventsAlternate
    <3> QED BY <3>1, <3>2, <3>3
  <2>6. EventsAlternate'
    BY <1>2, <1>4, <2>4, <2>5 DEF EventsAlternate
  <2>7. ASSUME NEW j \in Usb \ {i}
        PROVE  Seen(j)' => Seen(j)
    BY <1>1, <2>2, <2>3 DEF Seen
  <2>8. Seen(i)' => Seen(i)
    <3> SUFFICES ASSUME NEW k \in Of(i)', events'[k].kind = "delete", \A x \in Of(i)' : k <= x
                 PROVE  Seen(i)
      BY <2>2 DEF Seen
    <3>1. CASE k \in Of(i)
      BY <2>2, <2>3, <3>1 DEF Seen
    <3>2. CASE k \notin Of(i)
      <4>1. k = n /\ Of(i) = {}
        BY <2>2, <2>3, <3>2
      <4> QED BY <1>1, <2>2, <4>1 DEF Seen
    <3> QED BY <3>1, <3>2
  <2> QED BY <2>6, <2>7, <2>8
<1> QED BY <1>3, <1>4

\* Reading an event tells of its own device only; a deletion tells that it is gone.
LEMMA ReadTells ==
    ASSUME TypeOK, EventsAlternate, NEW kind, ReadEvent(kind), plugged' = plugged,
           wpc' \notin {"stat", "failed"}, NEW h \in Usb, h = Head(events).usb
    PROVE  /\ EventsAlternate'
           /\ \A j \in Usb \ {h} : Seen(j)' => Seen(j)
           /\ kind = "delete" => Seen(h) /\ ~Seen(h)'
<1>1. events # <<>> /\ events' = Tail(events) /\ Head(events).kind = kind
  BY DEF ReadEvent
<1>2. /\ Head(events) = events[1] /\ 1 \in DOMAIN events
      /\ \A k \in DOMAIN events : k \in Int /\ 1 <= k
      /\ \A k \in DOMAIN events' : /\ k \in Int /\ 1 <= k /\ k + 1 \in DOMAIN events
                                   /\ events'[k] = events[k + 1]
      /\ \A k \in DOMAIN events \ {1} : k - 1 \in DOMAIN events'
  BY <1>1, TailOf
<1>3. /\ 1 \in Of(h) /\ events[1].kind = kind
      /\ \A j \in Usb : \A k \in Of(j) : k \in Int /\ 1 <= k /\ (k = 1 => j = h)
      /\ \A j \in Usb : \A k \in Of(j)' : /\ k \in Int /\ 1 <= k /\ k + 1 \in Of(j)
                                          /\ events'[k] = events[k + 1]
  BY <1>1, <1>2 DEF Of
<1>4. \A j \in Usb : \A k \in Of(j) \ {1} : k - 1 \in Of(j)'
  BY <1>2 DEF Of
<1>5. ASSUME NEW j \in Usb, NEW k \in Of(j)', NEW m \in Of(j)', k < m,
             \A x \in Of(j)' : ~(k < x /\ x < m)
      PROVE  events'[k].kind # events'[m].kind
  <2>1. \A x \in Of(j) : ~(k + 1 < x /\ x < m + 1)
    BY <1>3, <1>4, <1>5
  <2> QED BY <1>3, <1>5, <2>1 DEF EventsAlternate
<1>6. ASSUME NEW j \in Usb, NEW k \in Of(j)', \A x \in Of(j)' : x <= k
      PROVE  events'[k].kind = "create" <=> j \in plugged'
  <2>1. \A x \in Of(j) : x <= k + 1
    BY <1>3, <1>4, <1>6
  <2> QED BY <1>3, <1>6, <2>1 DEF EventsAlternate
<1>7. EventsAlternate'
  BY <1>5, <1>6 DEF EventsAlternate
<1>8. ASSUME NEW j \in Usb \ {h}, Seen(j)'
      PROVE  Seen(j)
  <2>1. CASE Of(j)' = {} /\ j \in plugged'
    <3>1. Of(j) = {}
      BY <1>3, <1>4, <2>1
    <3> QED BY <2>1, <3>1 DEF Seen
  <2>2. ASSUME NEW k \in Of(j)', events'[k].kind = "delete", \A x \in Of(j)' : k <= x
        PROVE  Seen(j)
    <3>1. \A x \in Of(j) : k + 1 <= x
      BY <1>3, <1>4, <2>2
    <3> QED BY <1>3, <2>2, <3>1 DEF Seen
  <2> QED BY <1>8, <2>1, <2>2 DEF Seen
<1>9. ASSUME kind = "delete"
      PROVE  Seen(h) /\ ~Seen(h)'
  <2>1. Seen(h)
    BY <1>3, <1>9 DEF Seen
  <2>2. ASSUME Of(h)' = {} PROVE h \notin plugged'
    <3>1. \A x \in Of(h) : x <= 1
      BY <1>3, <1>4, <2>2
    <3> QED BY <1>3, <1>9, <3>1 DEF EventsAlternate
  <2>3. ASSUME NEW k \in Of(h)', \A x \in Of(h)' : k <= x
        PROVE  events'[k].kind # "delete"
    <3>1. \A x \in Of(h) : ~(1 < x /\ x < k + 1)
      BY <1>3, <1>4, <2>3
    <3>2. events[1].kind # events[k + 1].kind
      BY <1>3, <2>3, <3>1 DEF EventsAlternate
    <3> QED BY <1>3, <1>9, <2>3, <3>2
  <2> QED BY <2>1, <2>2, <2>3 DEF Seen
<1> QED BY <1>7, <1>8, <1>9

\* Without a change of events or devices nothing is told.
LEMMA ToldFrame ==
    ASSUME UNCHANGED <<events, plugged>>
    PROVE  \A i \in Usb : Of(i)' = Of(i) /\ (Seen(i)' <=> Seen(i))
BY DEF Of, Seen

-----------------------------------------------------------------------------
(* What the threads and the watcher do to the table                        *)

\* The effect of a step of thread t on its own position and on the table.
ThreadEffect(t) ==
    \/ /\ tpc[t] = "start" /\ tpc'[t] = "try"
       /\ attached' = attached \cup {tusb[t]} /\ UNCHANGED <<connected, known>>
    \/ /\ tpc[t] = "try" /\ tpc'[t] \in {"try", "setid", "gaveup"}
       /\ UNCHANGED <<attached, connected, known>>
    \/ /\ tpc[t] = "try" /\ t \in cancelled /\ tpc'[t] = "dead"
       /\ UNCHANGED <<attached, connected, known>>
    \/ /\ tpc[t] = "setid" /\ tpc'[t] = "check"
       /\ known' = known \cup {tusb[t]} /\ UNCHANGED <<attached, connected>>
    \/ /\ tpc[t] = "check" /\ UNCHANGED <<attached, connected, known>>
       /\ tpc'[t] = IF tusb[t] \in connected THEN "done" ELSE "connect"
    \/ /\ tpc[t] = "connect" /\ tpc'[t] = "count"
       /\ connected' = connected \cup {tusb[t]} /\ UNCHANGED <<attached, known>>
    \/ /\ tpc[t] = "count" /\ tpc'[t] = "done"
       /\ UNCHANGED <<attached, connected, known>>

\* A thread moves itself and writes its own entry, nothing else.
LEMMA ThreadSteps ==
    ASSUME TypeOK, NEW t \in Threads, ThreadStep(t)
    PROVE  /\ ThreadEffect(t)
           /\ \A u \in Threads \ {t} : tpc'[u] = tpc[u]
           /\ UNCHANGED <<watcherVars, tusb, envVars, events, crashed>>
           /\ cancelled' \subseteq cancelled
<1> USE DEF Go, TypeOK, ThreadEffect, tableVars, watcherVars, threadVars, envVars
<1>1. CASE Begin(t)
  BY <1>1 DEF Begin
<1>2. CASE get_devid(t)
  BY <1>2 DEF get_devid, TryDevice
<1>3. CASE Die(t)
  BY <1>3 DEF Die
<1>4. CASE SetDeviceId(t)
  BY <1>4 DEF SetDeviceId, NoteId
<1>5. CASE CheckConnected(t)
  BY <1>5 DEF CheckConnected
<1>6. CASE SetConnected(t)
  BY <1>6 DEF SetConnected
<1>7. CASE CountUp(t)
  BY <1>7 DEF CountUp
<1> QED
  BY <1>1, <1>2, <1>3, <1>4, <1>5, <1>6, <1>7 DEF ThreadStep

\* The thread that StartThread starts.
LEMMA NewThread ==
    ASSUME TypeOK, NEW i \in Usb, StartThread(i)
    PROVE  \E t \in Threads :
             /\ tpc[t] = "unborn" /\ tpc'[t] = "start" /\ tusb'[t] = i /\ tid'[i] = t
             /\ \A u \in Threads \ {t} : tpc'[u] = tpc[u] /\ tusb'[u] = tusb[u]
             /\ \A j \in Usb \ {i} : tid'[j] = tid[j]
<1>1. PICK t \in Unborn :
        /\ tpc' = [tpc EXCEPT ![t] = "start"]
        /\ tusb' = [tusb EXCEPT ![t] = i]
        /\ tid' = [j \in Usb |-> IF j \in {i} THEN t ELSE tid[j]]
  BY DEF StartThread, Create
<1>2. t \in Threads /\ tpc[t] = "unborn"
  BY DEF Unborn
<1> QED BY <1>1, <1>2 DEF TypeOK

\* What the invariant says of the threads and the table, without the watcher's position.
Stores ==
    \A i \in Usb : tid[i] # 0 /\ Standing(i) =>
        /\ tpc[tid[i]] \in {"check", "connect", "count", "done"} => i \in known
        /\ tpc[tid[i]] \in {"count", "done"} => i \in connected

\* A new thread replaces the noted one of its index, and has stored nothing yet.
LEMMA WatchCreate ==
    ASSUME TypeOK, WatchInv, NEW i \in Usb, StartThread(i),
           UNCHANGED <<attached, connected, known>>,
           \A j \in Usb \ {i} : Standing(j)' => Standing(j)
    PROVE  NotedThread' /\ StandingHasThread' /\ Stores'
<1>1. PICK t \in Threads :
        /\ tpc[t] = "unborn" /\ tpc'[t] = "start" /\ tusb'[t] = i /\ tid'[i] = t
        /\ \A u \in Threads \ {t} : tpc'[u] = tpc[u] /\ tusb'[u] = tusb[u]
        /\ \A j \in Usb \ {i} : tid'[j] = tid[j]
  BY NewThread
<1>2. t # 0
  BY Numbers
<1>3. \A j \in Usb \ {i} : tid[j] # 0 => tid[j] \in Threads \ {t}
  BY <1>1 DEF WatchInv, NotedThread, TypeOK
<1>4. NotedThread'
  BY <1>1, <1>3 DEF WatchInv, NotedThread
<1>5. StandingHasThread'
  <2> SUFFICES ASSUME NEW j \in Usb \ {i}, Standing(j)', tid'[j] = 0
               PROVE  j \notin attached' /\ \A u \in Threads : tusb'[u] = j => tpc'[u] = "unborn"
    BY <1>1, <1>2 DEF StandingHasThread
  <2>1. j \notin attached /\ \A u \in Threads : tusb[u] = j => tpc[u] = "unborn"
    BY <1>1 DEF WatchInv, StandingHasThread
  <2> QED BY <1>1, <2>1
<1>6. Stores'
  <2> SUFFICES ASSUME NEW j \in Usb, tid'[j] # 0, Standing(j)'
               PROVE  /\ tpc'[tid'[j]] \in {"check", "connect", "count", "done"} => j \in known'
                      /\ tpc'[tid'[j]] \in {"count", "done"} => j \in connected'
    BY DEF Stores
  <2>1. CASE j = i
    BY <1>1, <2>1
  <2>2. CASE j # i
    <3>1. tid'[j] = tid[j] /\ tpc'[tid[j]] = tpc[tid[j]] /\ Standing(j)
      BY <1>1, <1>3, <2>2
    <3> QED BY <3>1 DEF WatchInv, StandingKeepsStores
  <2> QED BY <2>1, <2>2
<1> QED BY <1>4, <1>5, <1>6

\* A thread stores before it moves on, and stores for its own index only.
LEMMA WatchThread ==
    ASSUME TypeOK, WatchInv, NEW t \in Threads, ThreadStep(t)
    PROVE  WatchInv'
<1>1. /\ ThreadEffect(t)
      /\ \A u \in Threads \ {t} : tpc'[u] = tpc[u]
      /\ UNCHANGED <<wpc, at, tid, tusb, plugged, events>>
  BY ThreadSteps DEF watcherVars, envVars
<1>2. /\ \A i \in Usb : Of(i)' = Of(i) /\ (Seen(i)' <=> Seen(i))
      /\ \A i \in Usb : Standing(i)' <=> Standing(i)
  BY <1>1, ToldFrame DEF Standing
<1>3. EventsAlternate'
  BY <1>1, <1>2 DEF WatchInv, EventsAlternate
<1>4. tpc[t] # "unborn" /\ tpc'[t] # "unborn"
  BY <1>1 DEF ThreadEffect
<1>5. NotedThread'
  BY <1>1, <1>4 DEF WatchInv, NotedThread, TypeOK
<1>6. StandingHasThread'
  <2> SUFFICES ASSUME NEW i \in Usb, Standing(i), tid[i] = 0
               PROVE  i \notin attached' /\ \A u \in Threads : tusb[u] = i => tpc'[u] = "unborn"
    BY <1>1, <1>2 DEF StandingHasThread
  <2>1. i \notin attached /\ \A u \in Threads : tusb[u] = i => tpc[u] = "unborn"
    BY DEF WatchInv, StandingHasThread
  <2>2. tusb[t] # i
    BY <1>4, <2>1
  <2> QED BY <1>1, <2>1, <2>2 DEF ThreadEffect
<1>7. Stores'
  <2> SUFFICES ASSUME NEW i \in Usb, tid[i] # 0, Standing(i)
               PROVE  /\ tpc'[tid[i]] \in {"check", "connect", "count", "done"} => i \in known'
                      /\ tpc'[tid[i]] \in {"count", "done"} => i \in connected'
    BY <1>1, <1>2 DEF Stores
  <2>1. /\ tpc[tid[i]] \in {"check", "connect", "count", "done"} => i \in known
        /\ tpc[tid[i]] \in {"count", "done"} => i \in connected
        /\ tusb[tid[i]] = i /\ tid[i] \in Threads
    BY DEF WatchInv, StandingKeepsStores, NotedThread, TypeOK
  <2>2. known \subseteq known' /\ connected \subseteq connected'
    BY <1>1 DEF ThreadEffect
  <2>3. CASE tid[i] # t
    BY <1>1, <2>1, <2>2, <2>3
  <2>4. CASE tid[i] = t
    BY <1>1, <2>1, <2>2, <2>4 DEF ThreadEffect
  <2> QED BY <2>3, <2>4
<1>8. StandingKeepsStores'
  BY <1>1, <1>2, <1>7 DEF WatchInv, StandingKeepsStores, Stores
<1> QED BY <1>3, <1>5, <1>6, <1>8 DEF WatchInv

\* A deletion that is read is told: the index is not standing any more.
LEMMA WatchDelete ==
    ASSUME TypeOK, WatchInv, HandleDelete
    PROVE  WatchInv'
<1>1. PICK h \in Usb : h = Head(events).usb
  BY ReadTypes DEF HandleDelete, Event
<1>2. /\ ReadEvent("delete") /\ wpc' = "update" /\ at' = h
      /\ UNCHANGED <<attached, connected, known, tpc, tusb, plugged>>
      /\ \A i \in Usb \ {h} : tid'[i] = tid[i]
      /\ tid'[h] \in {0, tid[h]}
  BY <1>1 DEF HandleDelete, TypeOK, tableVars, envVars
<1>3. /\ EventsAlternate'
      /\ \A j \in Usb \ {h} : Seen(j)' => Seen(j)
      /\ ~Seen(h)'
  BY <1>1, <1>2, ReadTells DEF WatchInv
<1>4. ~Standing(h)' /\ \A j \in Usb \ {h} : Standing(j)' => Standing(j)
  BY <1>2, <1>3 DEF Standing
<1>5. NotedThread'
  BY <1>2 DEF WatchInv, NotedThread
<1>6. StandingHasThread'
  BY <1>2, <1>4 DEF WatchInv, StandingHasThread
<1>7. StandingKeepsStores'
  BY <1>2, <1>3, <1>4 DEF WatchInv, StandingKeepsStores
<1> QED BY <1>3, <1>5, <1>6, <1>7 DEF WatchInv

\* Taking an entry out touches an index that is not standing.
LEMMA WatchClear ==
    ASSUME TypeOK, WatchInv, ClearConnected \/ ClearDeviceId \/ CountDown
    PROVE  WatchInv'
<1>1. /\ wpc \in {"update", "clear", "count"} /\ wpc' \in {"loop", "clear", "count"}
      /\ wpc' # "loop" => at' = at
      /\ UNCHANGED <<tid, tpc, tusb, plugged, events>>
      /\ \A i \in Usb \ {at} : (i \in connected => i \in connected') /\ (i \in known => i \in known')
      /\ attached' \subseteq attached
  BY DEF ClearConnected, TakeOut, ClearDeviceId, CountDown, threadVars, envVars
<1>2. at \in Usb /\ ~Seen(at)
  BY <1>1 DEF WatchInv, StandingKeepsStores
<1>3. \A i \in Usb : Of(i)' = Of(i) /\ (Seen(i)' <=> Seen(i))
  BY <1>1, ToldFrame
<1>4. \A i \in Usb : Standing(i)' => Standing(i) /\ i # at
  BY <1>1, <1>2, <1>3 DEF Standing
<1>5. EventsAlternate'
  BY <1>1, <1>3 DEF WatchInv, EventsAlternate
<1>6. NotedThread'
  BY <1>1 DEF WatchInv, NotedThread
<1>7. StandingHasThread'
  BY <1>1, <1>4 DEF WatchInv, StandingHasThread
<1>8. Stores'
  BY <1>1, <1>4 DEF WatchInv, StandingKeepsStores, Stores
<1>9. wpc' \in {"update", "clear", "count"} => at' \in Usb /\ at' = at /\ ~Seen(at)
  BY <1>1, <1>2
<1>10. (wpc \in {"update", "clear", "count"} => at \in Usb /\ ~Seen(at))'
  <2> SUFFICES ASSUME wpc' \in {"update", "clear", "count"} PROVE at' \in Usb /\ ~Seen(at)'
    OBVIOUS
  <2> QED BY <1>1, <1>9 DEF Seen, Of
<1> QED BY <1>5, <1>6, <1>7, <1>8, <1>10 DEF WatchInv, StandingKeepsStores, Stores

\* Every step keeps the watcher's books.
LEMMA WatchStep == TypeOK /\ WatchInv /\ [Next]_vars => WatchInv'
<1> SUFFICES ASSUME TypeOK, WatchInv, [Next]_vars PROVE WatchInv'
  OBVIOUS
<1> USE DEF tableVars, watcherVars, threadVars, envVars
<1>1. ASSUME NEW i \in Usb, Plug(i) \/ Unplug(i)
      PROVE  WatchInv'
  <2>1. UNCHANGED <<attached, connected, known, wpc, at, tid, tpc, tusb>>
    BY <1>1 DEF Plug, Unplug, Moved
  <2>2. /\ EventsAlternate'
        /\ wpc \notin {"stat", "failed"} => \A j \in Usb : Seen(j)' => Seen(j)
    BY <1>1, MoveKeepsSeen DEF WatchInv
  <2>3. \A j \in Usb : Standing(j)' => Standing(j)
    BY <2>1, <2>2 DEF Standing
  <2>4. NotedThread' /\ StandingHasThread' /\ Stores'
    BY <2>1, <2>3 DEF WatchInv, NotedThread, StandingHasThread, StandingKeepsStores, Stores
  <2>5. ASSUME wpc \in {"update", "clear", "count"} PROVE at \in Usb /\ ~Seen(at)'
    <3>1. at \in Usb /\ ~Seen(at)
      BY <2>5 DEF WatchInv, StandingKeepsStores
    <3>2. PICK j \in Usb : j = at
      BY <3>1
    <3>3. ~Seen(j)'
      BY <2>2, <2>5, <3>1, <3>2
    <3> QED BY <2>1, <3>1, <3>2, <3>3 DEF Seen, Of
  <2> QED BY <2>1, <2>2, <2>4, <2>5 DEF WatchInv, StandingKeepsStores, Stores
<1>2. CASE StatDevice
  <2>1. /\ wpc = "stat" /\ wpc' = wpc
        /\ UNCHANGED <<attached, connected, known, plugged, events>>
    BY <1>2 DEF StatDevice
  <2>2. \A j \in Usb : Standing(j)' <=> Standing(j)
    BY <2>1 DEF Standing
  <2>3. EventsAlternate'
    BY <2>1, ToldFrame DEF WatchInv, EventsAlternate
  <2>4. NotedThread' /\ StandingHasThread' /\ Stores'
    <3>1. CASE at \in Usb /\ StartThread(at)
      BY <2>1, <2>2, <3>1, WatchCreate
    <3>2. CASE UNCHANGED <<threadVars, tid>>
      BY <2>1, <2>2, <3>2 DEF WatchInv, NotedThread, StandingHasThread, StandingKeepsStores, Stores
    <3> QED BY <1>2, <3>1, <3>2 DEF StatDevice
  <2> QED BY <2>1, <2>3, <2>4 DEF WatchInv, StandingKeepsStores, Stores
<1>3. CASE AddWatch
  <2>1. /\ wpc = "stat" /\ wpc' \in {"loop", "failed"}
        /\ UNCHANGED <<attached, connected, known, plugged, events, tid, tpc, tusb>>
    BY <1>3 DEF AddWatch
  <2>2. \A j \in Usb : Standing(j)
    BY <2>1 DEF Standing
  <2>3. EventsAlternate'
    BY <2>1, ToldFrame DEF WatchInv, EventsAlternate
  <2>4. NotedThread' /\ StandingHasThread' /\ Stores'
    BY <2>1, <2>2 DEF WatchInv, NotedThread, StandingHasThread, StandingKeepsStores, Stores
  <2> QED BY <2>1, <2>3, <2>4 DEF WatchInv, StandingKeepsStores, Stores
<1>4. CASE HandleCreate
  <2>1. PICK h \in Usb : h = Head(events).usb
    BY <1>4, ReadTypes DEF HandleCreate, CreateEvent, Event
  <2>2. /\ ReadEvent("create") /\ wpc = "loop" /\ wpc' = "loop" /\ StartThread(h)
        /\ UNCHANGED <<attached, connected, known, plugged>>
    BY <1>4, <2>1 DEF HandleCreate, CreateEvent, ReadEvent
  <2>3. EventsAlternate' /\ \A j \in Usb \ {h} : Seen(j)' => Seen(j)
    BY <2>1, <2>2, ReadTells DEF WatchInv
  <2>4. \A j \in Usb \ {h} : Standing(j)' => Standing(j)
    BY <2>2, <2>3 DEF Standing
  <2>5. NotedThread' /\ StandingHasThread' /\ Stores'
    BY <2>2, <2>4, WatchCreate
  <2> QED BY <2>2, <2>3, <2>5 DEF WatchInv, StandingKeepsStores, Stores
<1>5. CASE HandleDelete
  BY <1>5, WatchDelete
<1>6. CASE ClearConnected \/ ClearDeviceId \/ CountDown
  BY <1>6, WatchClear
<1>7. ASSUME NEW t \in Threads, ThreadStep(t)
      PROVE  WatchInv'
  BY <1>7, WatchThread
<1>8. CASE UNCHANGED vars
  BY <1>8, ToldFrame DEF vars, WatchInv, EventsAlternate, NotedThread, StandingHasThread,
     StandingKeepsStores, Standing, Of, Seen
<1> QED
  BY <1>1, <1>2, <1>3, <1>4, <1>5, <1>6, <1>7, <1>8 DEF Next, WatcherStep

\* The watcher's books are kept: with the type invariant this is inductive.
LEMMA WatchInvariant == Spec => []WatchInv
<1>1. Init => WatchInv
  <2> SUFFICES ASSUME Init PROVE WatchInv
    OBVIOUS
  <2>1. events = <<>> /\ DOMAIN events = {} /\ \A i \in Usb : Of(i) = {}
    BY DEF Init, Of
  <2>2. \A i \in Usb : tid[i] = 0
    BY DEF Init
  <2>3. \A t \in Threads : tpc[t] = "unborn"
    BY DEF Init
  <2> QED
    BY <2>1, <2>2, <2>3 DEF Init, WatchInv, EventsAlternate, NotedThread, StandingHasThread,
       StandingKeepsStores
<1> QED
  BY <1>1, WatchStep, TypeCorrect, PTL DEF Spec

\* However a device comes and goes and whatever older threads do, the entry of a device
\* whose last thread reached it says so when all is quiet.
THEOREM LastThreadWins == Spec => []LastPlugWins
<1>1. TypeOK /\ WatchInv => LastPlugWins
  <2> SUFFICES ASSUME TypeOK, WatchInv, NEW i \in plugged, Settled(i), Reached(i)
               PROVE  i \in connected /\ i \in known
    BY DEF LastPlugWins
  <2>1. i \in Usb /\ Of(i) = {}
    BY DEF TypeOK, Settled, Of
  <2>2. Standing(i)
    BY <2>1 DEF Standing, Seen
  <2> QED BY <2>1, <2>2 DEF WatchInv, StandingKeepsStores, Reached
<1> QED
  BY <1>1, WatchInvariant, TypeCorrect, PTL

\* A thread that is cancelled because its device went was started for that device.
THEOREM CancelsOwnThread == Spec => CancelHasThread
<1>1. TypeOK /\ WatchInv /\ [Next]_vars =>
        [HandleDelete => LET i == Head(events).usb IN
           i \in attached \ connected => tid[i] # 0 /\ tusb[tid[i]] = i]_vars
  <2> SUFFICES ASSUME TypeOK, WatchInv, HandleDelete, NEW h, h = Head(events).usb,
                      h \in attached \ connected
               PROVE  tid[h] # 0 /\ tusb[tid[h]] = h
    OBVIOUS
  <2>1. h \in Usb /\ ReadEvent("delete") /\ plugged' = plugged /\ wpc' = "update"
    BY ReadTypes DEF HandleDelete, envVars, TypeOK
  <2>2. Seen(h)
    BY <2>1, ReadTells DEF WatchInv
  <2> QED BY <2>1, <2>2 DEF WatchInv, StandingHasThread, NotedThread, Standing
<1> QED
  BY <1>1, WatchInvariant, TypeCorrect, PTL DEF Spec, CancelHasThread

-----------------------------------------------------------------------------
(* Calm histories                                                          *)

\* The step changes nothing of index j: neither its entry, its events and its threads
\* nor whether the watcher works on it.
Untouched(j) ==
    /\ j \in plugged' <=> j \in plugged
    /\ j \in attached' <=> j \in attached
    /\ j \in connected' <=> j \in connected
    /\ j \in known' <=> j \in known
    /\ tid'[j] = tid[j] /\ (tid[j] # 0 => tpc'[tid[j]] = tpc[tid[j]])
    /\ \A t \in Threads : tusb'[t] = j /\ ~Ended(t)' => tusb[t] = j /\ ~Ended(t)
    /\ Handled(j)' <=> Handled(j)
    /\ Handled(j) => wpc' = wpc
    /\ (wpc' = "stat" => j < at') <=> (wpc = "stat" => j < at)

\* What holds of an index that is not touched goes on holding.
LEMMA CalmFrame ==
    ASSUME TypeOK, NEW j \in Usb, CalmIndex(j), Untouched(j),
           \A k, m \in Of(j)' : k = m, Of(j)' = {} <=> Of(j) = {}
    PROVE  CalmIndex(j)'
<1>1. (Awaited(j)' <=> Awaited(j)) /\ (Left(j)' <=> Left(j))
  BY DEF Awaited, Left, Untouched
<1>2. \A t \in Threads : tusb'[t] = j /\ ~Ended(t)' => tid'[j] = t /\ Awaited(j)'
  BY <1>1 DEF CalmIndex, Untouched
<1>3. Handled(j)' => j \notin plugged' /\ Of(j)' = {}
  BY DEF CalmIndex, Untouched
<1>4. Awaited(j)' \/ Left(j)' => tid'[j] # 0 /\ EntryFollows(j, tid[j])'
  <2> SUFFICES ASSUME Awaited(j) \/ Left(j) PROVE tid'[j] # 0 /\ EntryFollows(j, tid[j])'
    BY <1>1
  <2>1. tid[j] # 0 /\ EntryFollows(j, tid[j])
    BY DEF CalmIndex
  <2>2. tid'[j] = tid[j] /\ tpc'[tid[j]] = tpc[tid[j]]
    BY <2>1 DEF Untouched
  <2> QED BY <2>1, <2>2 DEF EntryFollows, Untouched
<1>5. Handled(j)' /\ wpc' = "update" => (j \in connected' <=> j \in known')
  BY DEF CalmIndex, Untouched
<1>6. ~(Awaited(j) \/ Left(j) \/ (Handled(j) /\ wpc = "update"))' =>
         /\ j \notin attached' /\ j \notin connected'
         /\ j \in known' => Handled(j)' /\ wpc' = "clear"
  BY <1>1 DEF CalmIndex, Untouched
<1> QED BY <1>2, <1>3, <1>4, <1>5, <1>6 DEF CalmIndex

\* In calm histories a device comes or goes when its entry is at rest.
LEMMA CalmMove ==
    ASSUME TypeOK, CalmInv, calm' = 1, crashed' = 0,
           NEW i \in Usb, Plug(i) \/ Unplug(i)
    PROVE  CalmInv'
<1> USE DEF tableVars, watcherVars, threadVars, envVars
<1>1. PICK kind \in {"create", "delete"} :
        /\ Moved(i, kind)
        /\ kind = "create" <=> i \notin plugged
        /\ i \in plugged' <=> kind = "create"
        /\ \A j \in Usb \ {i} : j \in plugged' <=> j \in plugged
  BY DEF Plug, Unplug
<1>2. /\ calm = 1 /\ crashed = 0 /\ Settled(i)
      /\ UNCHANGED <<attached, connected, known, wpc, at, tid, tpc, tusb, cancelled>>
  BY <1>1 DEF Moved, TypeOK
<1>3. /\ wpc = "loop" /\ Of(i) = {} /\ \A t \in Threads : tusb[t] = i => Ended(t)
  BY <1>2 DEF Settled, Of
<1>4. events' = Append(events, [kind |-> kind, usb |-> i])
  BY <1>1, <1>3 DEF Moved
<1>5. PICK n \in Int :
        /\ Of(i)' = Of(i) \cup {n}
        /\ \A j \in Usb \ {i} : Of(j)' = Of(j)
  BY <1>4, AppendOf
<1>6. cancelled = {} /\ \A j \in Usb : CalmIndex(j)
  BY <1>2 DEF CalmInv
<1>7. ASSUME NEW j \in Usb \ {i} PROVE CalmIndex(j)'
  <2>1. Untouched(j)
    BY <1>1, <1>2 DEF Untouched, Handled, Ended
  <2> QED BY <1>5, <1>6, <2>1, CalmFrame DEF CalmIndex
<1>8. CalmIndex(i)'
  <2>1. Of(i)' = {n} /\ ~Awaited(i)' /\ ~Handled(i)'
    BY <1>2, <1>3, <1>5 DEF Awaited, Handled
  <2>2. \A t \in Threads : tusb'[t] = i => Ended(t)'
    BY <1>2, <1>3 DEF Ended
  <2>3. CASE i \in plugged
    <3>1. Awaited(i)
      BY <1>3, <2>3 DEF Awaited
    <3>2. tid[i] # 0 /\ EntryFollows(i, tid[i])
      BY <1>6, <3>1 DEF CalmIndex
    <3>3. tid'[i] # 0 /\ EntryFollows(i, tid[i])'
      BY <1>2, <3>2 DEF EntryFollows
    <3>4. Left(i)'
      BY <1>1, <2>1, <2>3 DEF Left
    <3> QED BY <2>1, <2>2, <3>3, <3>4 DEF CalmIndex
  <2>4. CASE i \notin plugged
    <3>1. ~Awaited(i) /\ ~Left(i) /\ ~Handled(i)
      BY <1>3, <2>4 DEF Awaited, Left, Handled
    <3>2. i \notin attached' /\ i \notin connected' /\ i \notin known'
      BY <1>2, <1>6, <3>1 DEF CalmIndex
    <3>3. ~Left(i)'
      BY <1>1, <2>4 DEF Left
    <3> QED BY <2>1, <2>2, <3>2, <3>3 DEF CalmIndex
  <2> QED BY <2>3, <2>4
<1> QED BY <1>2, <1>6, <1>7, <1>8 DEF CalmInv

\* In calm histories the entry of an index follows its only live thread.
LEMMA CalmThread ==
    ASSUME TypeOK, WatchInv, CalmInv, calm' = 1, crashed' = 0, NEW t \in Threads, ThreadStep(t)
    PROVE  CalmInv'
<1>1. /\ ThreadEffect(t)
      /\ \A u \in Threads \ {t} : tpc'[u] = tpc[u]
      /\ UNCHANGED <<wpc, at, tid, tusb, plugged, events, calm, crashed>>
      /\ cancelled' \subseteq cancelled
  BY ThreadSteps DEF watcherVars, envVars
<1>2. cancelled = {} /\ \A j \in Usb : CalmIndex(j)
  BY <1>1 DEF CalmInv
<1>3. PICK i \in Usb : i = tusb[t]
  BY DEF TypeOK
<1>4. ~Ended(t)
  BY <1>1 DEF ThreadEffect, Ended
<1>5. tid[i] = t /\ Awaited(i)
  BY <1>2, <1>3, <1>4 DEF CalmIndex
<1>6. \A j \in Usb : Of(j)' = Of(j)
  BY <1>1, ToldFrame
<1>7. ASSUME NEW j \in Usb \ {i} PROVE CalmIndex(j)'
  <2>1. tid[j] # t /\ tid[j] \in Threads \cup {0}
    BY <1>3, Numbers DEF WatchInv, NotedThread, TypeOK
  <2>2. /\ j \in attached' <=> j \in attached
        /\ j \in connected' <=> j \in connected
        /\ j \in known' <=> j \in known
    BY <1>1, <1>3 DEF ThreadEffect
  <2>3. Untouched(j)
    BY <1>1, <1>3, <2>1, <2>2 DEF Untouched, Handled, Ended
  <2> QED BY <1>2, <1>6, <2>3, CalmFrame DEF CalmIndex
<1>8. CalmIndex(i)'
  <2>1. Awaited(i)' /\ ~Handled(i)' /\ ~Left(i)'
    BY <1>1, <1>2, <1>5, <1>6 DEF Awaited, Left, Handled, CalmIndex
  <2>2. EntryFollows(i, t)
    BY <1>2, <1>5 DEF CalmIndex
  <2>3. tpc'[t] # "dead"
    BY <1>1, <1>2 DEF ThreadEffect
  <2>4. EntryFollows(i, t)'
    BY <1>1, <1>2, <1>3, <2>2 DEF EntryFollows, ThreadEffect
  <2>5. tid'[i] = t /\ t # 0
    BY <1>1, <1>5, Numbers
  <2>6. \A u \in Threads : tusb'[u] = i /\ ~Ended(u)' => tid'[i] = u
    BY <1>1, <1>2, <1>5 DEF CalmIndex, Ended
  <2>7. EntryFollows(i, tid[i])'
    BY <2>4, <2>5 DEF EntryFollows
  <2> QED BY <1>2, <1>6, <2>1, <2>5, <2>6, <2>7 DEF CalmIndex
<1> QED BY <1>1, <1>2, <1>7, <1>8 DEF CalmInv

\* A new thread starts on an index with an empty entry and no other live thread.
LEMMA CalmCreate ==
    ASSUME TypeOK, WatchInv, NEW i \in Usb, CalmIndex(i), StartThread(i),
           UNCHANGED <<attached, connected, known, plugged>>,
           i \in plugged, ~Awaited(i), ~Handled(i), ~Handled(i)', Awaited(i)'
    PROVE  CalmIndex(i)'
<1>1. PICK t \in Threads :
        /\ tpc[t] = "unborn" /\ tpc'[t] = "start" /\ tusb'[t] = i /\ tid'[i] = t
        /\ \A u \in Threads \ {t} : tpc'[u] = tpc[u] /\ tusb'[u] = tusb[u]
        /\ \A j \in Usb \ {i} : tid'[j] = tid[j]
  BY NewThread
<1>2. ~Left(i) /\ ~Left(i)' /\ Of(i)' = {}
  BY DEF Left, Awaited
<1>3. i \notin attached' /\ i \notin connected' /\ i \notin known'
  BY <1>2 DEF CalmIndex
<1>4. \A u \in Threads : tusb'[u] = i /\ ~Ended(u)' => u = t
  BY <1>1 DEF CalmIndex, Ended
<1>5. t # 0
  BY Numbers
<1>6. EntryFollows(i, tid[i])'
  BY <1>1, <1>3 DEF EntryFollows
<1> QED BY <1>1, <1>2, <1>4, <1>5, <1>6 DEF CalmIndex

\* It leaves the other indexes alone.
LEMMA CalmCreateOthers ==
    ASSUME TypeOK, WatchInv, NEW i \in Usb, StartThread(i),
           UNCHANGED <<attached, connected, known, plugged>>,
           NEW j \in Usb \ {i}, Handled(j)' <=> Handled(j), Handled(j) => wpc' = wpc,
           (wpc' = "stat" => j < at') <=> (wpc = "stat" => j < at)
    PROVE  Untouched(j)
<1>1. PICK t \in Threads :
        /\ tpc[t] = "unborn" /\ tpc'[t] = "start" /\ tusb'[t] = i /\ tid'[i] = t
        /\ \A u \in Threads \ {t} : tpc'[u] = tpc[u] /\ tusb'[u] = tusb[u]
        /\ \A k \in Usb \ {i} : tid'[k] = tid[k]
  BY NewThread
<1>2. tid[j] # 0 => tid[j] \in Threads \ {t}
  BY <1>1 DEF WatchInv, NotedThread, TypeOK
<1> QED BY <1>1, <1>2 DEF Untouched, Ended

\* The look at the device files starts one thread for each device that is there.
LEMMA CalmStat ==
    ASSUME TypeOK, WatchInv, CalmInv, calm' = 1, crashed' = 0, StatDevice
    PROVE  CalmInv'
<1> USE DEF tableVars, watcherVars, threadVars, envVars
<1>1. PICK i \in Usb : i = at
  BY DEF StatDevice
<1>2. /\ wpc = "stat" /\ wpc' = wpc /\ at' = i + 1
      /\ UNCHANGED <<attached, connected, known, plugged, events, calm, crashed>>
  BY <1>1 DEF StatDevice
<1>3. cancelled' = cancelled
  BY DEF StatDevice, StartThread, Create
<1>4. cancelled = {} /\ \A j \in Usb : CalmIndex(j)
  BY <1>2 DEF CalmInv
<1>5. \A j \in Usb : Of(j)' = Of(j) /\ Of(j) = {}
  BY <1>2, ToldFrame DEF WatchInv, EventsAlternate, Of
<1>6. \A j \in Usb : ~Handled(j) /\ ~Handled(j)'
  BY <1>2 DEF Handled
<1>7. \A j \in Usb \ {i} : (wpc' = "stat" => j < at') <=> (wpc = "stat" => j < at)
  BY <1>1, <1>2, Numbers
<1>8. ~Awaited(i) /\ (i \in plugged => Awaited(i)')
  BY <1>1, <1>2, <1>5, Numbers DEF Awaited
<1>9. CASE i \in plugged /\ StartThread(i)
  <2>1. CalmIndex(i)'
    BY <1>2, <1>4, <1>6, <1>8, <1>9, CalmCreate
  <2>2. ASSUME NEW j \in Usb \ {i} PROVE CalmIndex(j)'
    <3>1. Untouched(j)
      BY <1>2, <1>6, <1>7, <1>9, CalmCreateOthers
    <3> QED BY <1>4, <1>5, <3>1, CalmFrame
  <2> QED BY <1>2, <1>3, <1>4, <2>1, <2>2 DEF CalmInv
<1>10. CASE i \notin plugged /\ UNCHANGED <<threadVars, tid>>
  <2>1. ASSUME NEW j \in Usb \ {i} PROVE CalmIndex(j)'
    <3>1. Untouched(j)
      BY <1>2, <1>6, <1>7, <1>10 DEF Untouched, Ended
    <3> QED BY <1>4, <1>5, <3>1, CalmFrame
  <2>2. CalmIndex(i)'
    <3>1. ~Awaited(i)' /\ ~Left(i)' /\ ~Left(i)
      BY <1>2, <1>5, <1>10 DEF Awaited, Left
    <3>2. i \notin attached' /\ i \notin connected' /\ i \notin known'
      BY <1>2, <1>4, <1>6, <1>8, <3>1 DEF CalmIndex
    <3>3. \A t \in Threads : tusb'[t] = i => Ended(t)'
      BY <1>4, <1>8, <1>10 DEF CalmIndex, Ended
    <3> QED BY <1>5, <1>6, <3>1, <3>2, <3>3 DEF CalmIndex
  <2> QED BY <1>2, <1>3, <1>4, <2>1, <2>2 DEF CalmInv
<1> QED BY <1>1, <1>9, <1>10 DEF StatDevice

\* What reading the first event leaves of the others.
LEMMA CalmRead ==
    ASSUME TypeOK, NEW kind, ReadEvent(kind), NEW h \in Usb, h = Head(events).usb,
           \A j \in Usb : \A k, m \in Of(j) : k = m
    PROVE  /\ Of(h) # {} /\ Of(h)' = {} /\ 1 \in Of(h) /\ events[1].kind = kind
           /\ \A j \in Usb \ {h} : Of(j)' = {} <=> Of(j) = {}
           /\ \A j \in Usb : \A k, m \in Of(j)' : k = m
<1>1. events # <<>> /\ events' = Tail(events) /\ Head(events).kind = kind
  BY DEF ReadEvent
<1>2. /\ Head(events) = events[1] /\ 1 \in DOMAIN events
      /\ \A k \in DOMAIN events : k \in Int /\ 1 <= k
      /\ \A k \in DOMAIN events' : /\ k \in Int /\ 1 <= k /\ k + 1 \in DOMAIN events
                                   /\ events'[k] = events[k + 1]
      /\ \A k \in DOMAIN events \ {1} : k - 1 \in DOMAIN events'
  BY <1>1, TailOf
<1>3. /\ 1 \in Of(h) /\ events[1].kind = kind
      /\ \A j \in Usb : \A k \in Of(j) : k \in Int /\ 1 <= k /\ (k = 1 => j = h)
      /\ \A j \in Usb : \A k \in Of(j)' : k \in Int /\ 1 <= k /\ k + 1 \in Of(j)
  BY <1>1, <1>2 DEF Of
<1>4. \A j \in Usb : \A k \in Of(j) \ {1} : k - 1 \in Of(j)'
  BY <1>2 DEF Of
<1>5. ASSUME NEW j \in Usb, NEW k \in Of(j)', NEW m \in Of(j)' PROVE k = m
  <2>1. k + 1 = m + 1 /\ k \in Int /\ m \in Int
    BY <1>3
  <2> QED BY <2>1
<1>6. Of(h)' = {}
  <2> SUFFICES ASSUME NEW k \in Of(h)' PROVE FALSE
    OBVIOUS
  <2>1. k \in Int /\ 1 <= k /\ k + 1 = 1
    BY <1>3
  <2> QED BY <2>1
<1>7. \A j \in Usb \ {h} : Of(j)' = {} <=> Of(j) = {}
  BY <1>3, <1>4
<1> QED BY <1>3, <1>5, <1>6, <1>7

\* A creation that is read starts the thread of a device that is there.
LEMMA CalmHandleCreate ==
    ASSUME TypeOK, WatchInv, CalmInv, calm' = 1, crashed' = 0, HandleCreate
    PROVE  CalmInv'
<1> USE DEF tableVars, watcherVars, threadVars, envVars
<1>1. PICK h \in Usb : h = Head(events).usb
  BY ReadTypes DEF HandleCreate, CreateEvent, Event
<1>2. /\ ReadEvent("create") /\ wpc = "loop" /\ wpc' = "loop" /\ StartThread(h)
      /\ UNCHANGED <<attached, connected, known, plugged, calm, crashed>>
  BY <1>1 DEF HandleCreate, CreateEvent, ReadEvent
<1>3. cancelled' = cancelled
  BY <1>2 DEF StartThread, Create
<1>4. cancelled = {} /\ \A j \in Usb : CalmIndex(j)
  BY <1>2 DEF CalmInv
<1>5. /\ Of(h) # {} /\ Of(h)' = {} /\ 1 \in Of(h) /\ events[1].kind = "create"
      /\ \A j \in Usb \ {h} : Of(j)' = {} <=> Of(j) = {}
      /\ \A j \in Usb : \A k, m \in Of(j)' : k = m
  <2>1. \A j \in Usb : \A k, m \in Of(j) : k = m
    BY <1>4 DEF CalmIndex
  <2> QED BY <1>1, <1>2, <2>1, CalmRead
<1>6. \A j \in Usb : ~Handled(j) /\ ~Handled(j)'
  BY <1>2 DEF Handled
<1>7. h \in plugged
  <2>1. \A k \in Of(h) : k <= 1
    BY <1>4, <1>5 DEF CalmIndex
  <2> QED BY <1>5, <2>1 DEF WatchInv, EventsAlternate
<1>8. ~Awaited(h) /\ Awaited(h)'
  BY <1>2, <1>5, <1>7 DEF Awaited
<1>9. CalmIndex(h)'
  BY <1>2, <1>4, <1>6, <1>7, <1>8, CalmCreate
<1>10. ASSUME NEW j \in Usb \ {h} PROVE CalmIndex(j)'
  <2>1. Untouched(j)
    BY <1>2, <1>6, CalmCreateOthers
  <2> QED BY <1>4, <1>5, <2>1, CalmFrame
<1> QED BY <1>2, <1>3, <1>4, <1>9, <1>10 DEF CalmInv

\* A deletion that is read finds the thread of its device ended: nothing is cancelled.
LEMMA CalmDelete ==
    ASSUME TypeOK, WatchInv, CalmInv, crashed = 0, calm' = 1, crashed' = 0, HandleDelete
    PROVE  CalmInv'
<1> USE DEF tableVars, watcherVars, threadVars, envVars
<1>1. PICK h \in Usb : h = Head(events).usb
  BY ReadTypes DEF HandleDelete, Event
<1>2. /\ ReadEvent("delete") /\ wpc = "loop" /\ wpc' = "update" /\ at' = h /\ calm = 1
      /\ UNCHANGED <<attached, connected, known, tpc, tusb, plugged>>
      /\ \A i \in Usb \ {h} : tid'[i] = tid[i]
  BY <1>1 DEF HandleDelete, ReadEvent, TypeOK
<1>3. cancelled = {} /\ \A j \in Usb : CalmIndex(j)
  BY <1>2 DEF CalmInv
<1>4. /\ Of(h) # {} /\ Of(h)' = {} /\ 1 \in Of(h) /\ events[1].kind = "delete"
      /\ \A j \in Usb \ {h} : Of(j)' = {} <=> Of(j) = {}
      /\ \A j \in Usb : \A k, m \in Of(j)' : k = m
  <2>1. \A j \in Usb : \A k, m \in Of(j) : k = m
    BY <1>3 DEF CalmIndex
  <2> QED BY <1>1, <1>2, <2>1, CalmRead
<1>5. h \notin plugged
  <2>1. \A k \in Of(h) : k <= 1
    BY <1>3, <1>4 DEF CalmIndex
  <2> QED BY <1>4, <2>1 DEF WatchInv, EventsAlternate
<1>6. Left(h) /\ ~Awaited(h)
  BY <1>4, <1>5 DEF Left, Awaited
<1>7. /\ tid[h] # 0 /\ EntryFollows(h, tid[h])
      /\ \A t \in Threads : tusb[t] = h => Ended(t)
  BY <1>3, <1>6 DEF CalmIndex
<1>8. Ended(tid[h])
  BY <1>7 DEF WatchInv, NotedThread, TypeOK
<1>9. cancelled' = cancelled
  BY <1>1, <1>8 DEF HandleDelete
<1>10. CalmIndex(h)'
  <2>1. ~Awaited(h)' /\ ~Left(h)' /\ Handled(h)'
    BY <1>2, <1>4, <1>5 DEF Awaited, Left, Handled
  <2>2. h \in connected' <=> h \in known'
    BY <1>2, <1>7, <1>8 DEF EntryFollows, Ended
  <2>3. \A t \in Threads : tusb'[t] = h => Ended(t)'
    BY <1>2, <1>7 DEF Ended
  <2> QED BY <1>2, <1>4, <1>5, <2>1, <2>2, <2>3 DEF CalmIndex
<1>11. ASSUME NEW j \in Usb \ {h} PROVE CalmIndex(j)'
  <2>1. Untouched(j)
    BY <1>2 DEF Untouched, Handled, Ended
  <2> QED BY <1>3, <1>4, <2>1, CalmFrame
<1> QED BY <1>3, <1>9, <1>10, <1>11 DEF CalmInv

\* Taking out the entry of a device that is gone leaves it empty in the end.
LEMMA CalmClear ==
    ASSUME TypeOK, WatchInv, CalmInv, calm' = 1, crashed' = 0,
           ClearConnected \/ ClearDeviceId \/ CountDown
    PROVE  CalmInv'
<1> USE DEF tableVars, watcherVars, threadVars, envVars
<1>1. /\ wpc \in {"update", "clear", "count"} /\ wpc' \in {"loop", "clear", "count"}
      /\ wpc' # "loop" => at' = at
      /\ UNCHANGED <<tid, tpc, tusb, plugged, events, cancelled, calm, crashed>>
  BY DEF ClearConnected, TakeOut, ClearDeviceId, CountDown
<1>2. PICK i \in Usb : i = at
  BY <1>1 DEF WatchInv, StandingKeepsStores
<1>3. \A j \in Usb \ {i} : /\ j \in attached' <=> j \in attached
                           /\ j \in connected' <=> j \in connected
                           /\ j \in known' <=> j \in known
  BY <1>2 DEF ClearConnected, TakeOut, ClearDeviceId, CountDown
<1>4. cancelled = {} /\ \A j \in Usb : CalmIndex(j)
  BY <1>1 DEF CalmInv
<1>5. \A j \in Usb : Of(j)' = Of(j)
  BY <1>1, ToldFrame
<1>6. Handled(i) /\ i \notin plugged /\ Of(i) = {}
  BY <1>1, <1>2, <1>4 DEF Handled, CalmIndex
<1>7. ~Awaited(i) /\ ~Left(i) /\ ~Awaited(i)' /\ ~Left(i)'
  BY <1>1, <1>5, <1>6 DEF Awaited, Left
<1>8. \A t \in Threads : tusb'[t] = i => Ended(t)'
  BY <1>1, <1>4, <1>7 DEF CalmIndex, Ended
<1>9. ASSUME NEW j \in Usb \ {i} PROVE CalmIndex(j)'
  <2>1. ~Handled(j) /\ ~Handled(j)'
    BY <1>1, <1>2, <1>9 DEF Handled
  <2>2. Untouched(j)
    BY <1>1, <1>3, <2>1 DEF Untouched, Ended
  <2> QED BY <1>4, <1>5, <2>2, CalmFrame DEF CalmIndex
<1>10. /\ i \notin attached' /\ i \notin connected' /\ wpc' # "update"
       /\ i \in known' => wpc' = "clear" /\ at' = i
  <2>1. CASE ClearConnected
    <3>1. wpc = "update" /\ (i \in connected <=> i \in known)
      BY <1>4, <1>6, <2>1 DEF ClearConnected, TakeOut, CalmIndex
    <3> QED BY <1>2, <2>1, <3>1 DEF ClearConnected, TakeOut
  <2>2. CASE ClearDeviceId
    <3>1. i \notin attached /\ i \notin connected
      BY <1>4, <1>7, <2>2 DEF ClearDeviceId, CalmIndex
    <3> QED BY <1>2, <2>2, <3>1 DEF ClearDeviceId
  <2>3. CASE CountDown
    <3>1. i \notin attached /\ i \notin connected /\ i \notin known
      BY <1>4, <1>7, <2>3 DEF CountDown, CalmIndex
    <3> QED BY <1>2, <2>3, <3>1 DEF CountDown
  <2> QED BY <2>1, <2>2, <2>3
<1>11. CalmIndex(i)'
  BY <1>1, <1>5, <1>6, <1>7, <1>8, <1>10 DEF CalmIndex, Handled
<1> QED BY <1>1, <1>4, <1>9, <1>11 DEF CalmInv

\* Every step keeps the entries of calm histories true.
LEMMA CalmStep == TypeOK /\ WatchInv /\ CalmInv /\ [Next]_vars => CalmInv'
<1> SUFFICES ASSUME TypeOK, WatchInv, CalmInv, [Next]_vars, calm' = 1, crashed' = 0
             PROVE  CalmInv'
  BY DEF CalmInv
<1>1. CASE AddWatch
  <2>1. /\ wpc = "stat" /\ at = NumUsb + 1 /\ wpc' \in {"loop", "failed"}
        /\ UNCHANGED <<attached, connected, known, tid, tpc, tusb, cancelled, plugged, events,
                       calm, crashed>>
    BY <1>1 DEF AddWatch, tableVars, threadVars, envVars
  <2>2. cancelled = {} /\ \A j \in Usb : CalmIndex(j)
    BY <2>1 DEF CalmInv
  <2>3. \A j \in Usb : Of(j)' = Of(j)
    BY <2>1, ToldFrame
  <2>4. ASSUME NEW j \in Usb PROVE CalmIndex(j)'
    <3>1. j < at /\ ~Handled(j) /\ ~Handled(j)'
      BY <2>1, UsbWatcherAssumption DEF Usb, Handled
    <3>2. Untouched(j)
      BY <2>1, <3>1 DEF Untouched, Ended
    <3> QED BY <2>2, <2>3, <3>2, CalmFrame DEF CalmIndex
  <2> QED BY <2>1, <2>2, <2>4 DEF CalmInv
<1>2. CASE UNCHANGED vars
  <2>1. \A j \in Usb : Of(j)' = Of(j)
    BY <1>2, ToldFrame DEF vars, envVars
  <2>2. cancelled = {} /\ cancelled' = {} /\ \A j \in Usb : CalmIndex(j)
    BY <1>2 DEF CalmInv, vars, threadVars, envVars
  <2>3. \A j \in Usb : Untouched(j)
    BY <1>2 DEF vars, tableVars, watcherVars, threadVars, envVars, Untouched, Handled, Ended
  <2> QED BY <2>1, <2>2, <2>3, CalmFrame DEF CalmInv, CalmIndex
<1>3. CASE Next
  BY <1>1, <1>3, CalmMove, CalmThread, CalmStat, CalmHandleCreate, CalmDelete, CalmClear
     DEF Next, WatcherStep
<1> QED BY <1>2, <1>3

\* As long as devices come and go only when their last change has been handled, the
\* table tells the truth whenever nothing is under way for an index.
THEOREM CalmTableIsTrue == Spec => []CalmStatusIsTrue
<1>1. Init => CalmInv
  <2> SUFFICES ASSUME Init PROVE CalmInv
    OBVIOUS
  <2>1. \A i \in Usb : Of(i) = {}
    BY DEF Init, Of
  <2>2. \A i \in Usb : ~Awaited(i) /\ ~Left(i) /\ ~Handled(i)
    BY <2>1, Numbers DEF Init, Awaited, Left, Handled, Usb
  <2>3. \A i \in Usb : CalmIndex(i)
    BY <2>1, <2>2 DEF Init, CalmIndex, Ended
  <2> QED BY <2>3 DEF Init, CalmInv
<1>2. TypeOK /\ WatchInv /\ CalmInv => CalmStatusIsTrue
  <2> SUFFICES ASSUME TypeOK, WatchInv, CalmInv, calm = 1, crashed = 0, NEW i \in Usb, Settled(i)
               PROVE  /\ i \in connected <=> i \in plugged /\ Reached(i)
                      /\ i \in connected <=> i \in known
                      /\ i \in attached <=> i \in plugged
    BY DEF CalmStatusIsTrue
  <2>1. CalmIndex(i) /\ Of(i) = {} /\ ~Handled(i) /\ ~Left(i)
    BY DEF CalmInv, Settled, Of, Handled, Left
  <2>2. CASE i \in plugged
    <3>1. Awaited(i)
      BY <2>1, <2>2 DEF Awaited, Settled
    <3>2. tid[i] # 0 /\ EntryFollows(i, tid[i])
      BY <2>1, <3>1 DEF CalmIndex
    <3>3. Ended(tid[i])
      BY <3>2 DEF WatchInv, NotedThread, TypeOK, Settled
    <3> QED BY <2>2, <3>2, <3>3 DEF EntryFollows, Ended, Reached
  <2>3. CASE i \notin plugged
    BY <2>1, <2>3 DEF CalmIndex, Awaited
  <2> QED BY <2>2, <2>3
<1> QED
  BY <1>1, <1>2, CalmStep, WatchInvariant, TypeCorrect, PTL DEF Spec
=============================================================================

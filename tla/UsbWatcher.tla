----------------------------- MODULE UsbWatcher -----------------------------
(***************************************************************************)
(* Devices on USB (src/src/connwatcher.c): the watcher thread turns the    *)
(* appearance and disappearance of device files into usb_conn_status; a    *)
(* thread for each new device waits until the device answers.  No mutex    *)
(* protects the table: the steps below are single reads and writes of it,  *)
(* down to the two halves of num_usb_connections++.                        *)
(***************************************************************************)
EXTENDS Integers, Sequences

CONSTANTS NumUsb,    \* MAX_USB_CONNECTIONS
          MaxTries,  \* attempts to read the device id: 3 in the code
          MaxMoves   \* bound: times a device is attached or detached

ASSUME UsbWatcherAssumption ==
    /\ NumUsb \in Nat \ {0}
    /\ MaxTries \in Nat \ {0}
    /\ MaxMoves \in Nat

Usb     == 1..NumUsb
\* Threads are numbered as they are created: one for each device at the start and one
\* for each later arrival.
Threads == 1..(NumUsb + MaxMoves)

VARIABLES
    plugged,   \* the device files that exist
    moves,     \* changes of plugged so far
    events,    \* inotify events not yet read
    wpc,       \* where the watcher is
    at,        \* index it works on
    attached,  \* is_attached
    connected, \* is_connected
    known,     \* entries whose device_id is not 0
    num,       \* num_usb_connections; only its being 0 matters, -1 stands for SIZE_MAX
    tid,       \* usb_conn_thread_id: the last thread started for the index, or 0
    tpc,       \* where each establish_usb_thread is
    tusb,      \* its index
    tries,     \* its attempts so far
    reg,       \* num as read by each thread, 0 is the watcher
    cancelled, \* threads with a pending pthread_cancel
    crashed,   \* the daemon died
    calm       \* history: devices came and went only when their index was settled

tableVars   == <<attached, connected, known, num>>
watcherVars == <<wpc, at, tid>>
threadVars  == <<tpc, tusb, tries, cancelled>>
envVars     == <<plugged, moves, calm>>
vars == <<tableVars, watcherVars, threadVars, envVars, events, reg, crashed>>

Init ==
    /\ plugged \in SUBSET Usb
    /\ moves = 0
    /\ events = <<>>
    /\ wpc = "stat"
    /\ at = 1
    /\ attached = {} /\ connected = {} /\ known = {}
    /\ num = 0
    /\ tid = [i \in Usb |-> 0]
    /\ tpc = [t \in Threads |-> "unborn"]
    /\ tusb = [t \in Threads |-> 1]
    /\ tries = [t \in Threads |-> 0]
    /\ reg = [t \in Threads \cup {0} |-> 0]
    /\ cancelled = {}
    /\ crashed = 0
    /\ calm = 1

Ended(t)  == tpc[t] \in {"unborn", "done", "gaveup", "dead"}

\* Nothing is under way for index i.
Settled(i) ==
    /\ wpc = "loop"
    /\ \A k \in DOMAIN events : events[k].usb # i
    /\ \A t \in Threads : tusb[t] = i => Ended(t)

-----------------------------------------------------------------------------
(* The devices                                                             *)

Moved(i, kind) ==
    /\ moves < MaxMoves
    /\ moves' = moves + 1
    /\ events' = IF wpc \in {"stat", "failed"} THEN events
                 ELSE Append(events, [kind |-> kind, usb |-> i])
    /\ calm' = IF Settled(i) THEN calm ELSE 0
    /\ UNCHANGED <<tableVars, watcherVars, threadVars, reg, crashed>>

\* A device file appears or goes; inotify tells once the directory is watched.
Plug(i)   == i \notin plugged /\ plugged' = plugged \cup {i} /\ Moved(i, "create")
Unplug(i) == i \in plugged /\ plugged' = plugged \ {i} /\ Moved(i, "delete")

-----------------------------------------------------------------------------
(* connwatcher_thread                                                      *)

Unborn == {t \in Threads : tpc[t] = "unborn"}

\* pthread_create of establish_usb_thread for index i; its id is noted for the indexes N.
Create(i, N) ==
    \E t \in Unborn :
        /\ \A u \in Unborn : t <= u
        /\ tpc' = [tpc EXCEPT ![t] = "start"]
        /\ tusb' = [tusb EXCEPT ![t] = i]
        /\ tid' = [j \in Usb |-> IF j \in N THEN t ELSE tid[j]]
        /\ UNCHANGED <<tries, cancelled>>

\* Mutation of StartThread: the id is lost.
StartForgotten(i) == Create(i, {})

StartThread(i) == Create(i, {i})

\* Before the directory is watched each device file is looked for once.
StatDevice ==
    /\ wpc = "stat" /\ at \in Usb
    /\ \/ at \in plugged /\ StartThread(at)
       \/ at \notin plugged /\ UNCHANGED <<threadVars, tid>>
    /\ at' = at + 1
    /\ UNCHANGED <<tableVars, wpc, envVars, events, reg, crashed>>

\* inotify_add_watch; if it fails the thread ends.
AddWatch ==
    /\ wpc = "stat" /\ at = NumUsb + 1
    /\ wpc' \in {"loop", "failed"}
    /\ at' = 1
    /\ UNCHANGED <<tableVars, tid, threadVars, envVars, events, reg, crashed>>

ReadEvent(kind) ==
    /\ wpc = "loop"
    /\ events # <<>>
    /\ Head(events).kind = kind
    /\ events' = Tail(events)

CreateEvent(ignored) ==
    /\ ReadEvent("create")
    /\ \/ Head(events).usb \notin ignored /\ StartThread(Head(events).usb)
       \/ Head(events).usb \in ignored /\ UNCHANGED <<threadVars, tid>>
    /\ UNCHANGED <<tableVars, wpc, at, envVars, reg, crashed>>

\* Mutation of HandleCreate: an index that has had a thread gets no other.
CreateOnce == CreateEvent({i \in Usb : tid[i] # 0})

\* Every device file that appears gets a thread, even if there is one already.
HandleCreate == CreateEvent({})

\* The thread that waits for the device is cancelled.  One that has given up is gone:
\* then pthread_cancel does nothing, or the daemon crashes.
HandleDelete ==
    /\ ReadEvent("delete")
    /\ LET i == Head(events).usb IN
       /\ at' = i
       /\ \/ /\ i \in attached \ connected
             /\ tid' = [tid EXCEPT ![i] = 0]
             /\ \/ /\ tid[i] # 0 /\ ~Ended(tid[i])
                   /\ cancelled' = cancelled \cup {tid[i]}
                   /\ UNCHANGED crashed
                \/ /\ tid[i] = 0 \/ Ended(tid[i])
                   /\ crashed' \in {0, 1}
                   /\ UNCHANGED cancelled
          \/ i \notin attached \ connected /\ UNCHANGED <<tid, cancelled, crashed>>
    /\ wpc' = "update"
    /\ UNCHANGED <<tableVars, tpc, tusb, tries, envVars, reg>>

\* update_usb_stat(idx, FALSE): the entry is taken out, in the order of the code.
TakeOut(S) ==
    /\ wpc = "update"
    /\ attached' = attached \ S
    /\ connected' = connected \ {at}
    /\ \/ at \in connected /\ wpc' = "clear" /\ UNCHANGED at
       \/ at \notin connected /\ wpc' = "loop" /\ at' = 1
    /\ UNCHANGED <<known, num, tid, threadVars, envVars, events, reg, crashed>>

\* Mutation of ClearConnected: nothing is done for an entry that is only attached.
ClearOnlyConnected == TakeOut({at} \cap connected)

ClearConnected == TakeOut({at})

ClearDeviceId ==
    /\ wpc = "clear"
    /\ known' = known \ {at}
    /\ reg' = [reg EXCEPT ![0] = num]
    /\ wpc' = "count"
    /\ UNCHANGED <<attached, connected, num, at, tid, threadVars, envVars, events, crashed>>

CountDown ==
    /\ wpc = "count"
    /\ num' = reg[0] - 1
    /\ reg' = [reg EXCEPT ![0] = 0]
    /\ wpc' = "loop" /\ at' = 1
    /\ UNCHANGED <<attached, connected, known, tid, threadVars, envVars, events, crashed>>

-----------------------------------------------------------------------------
(* establish_usb_thread                                                    *)

Go(t, from, to) == tpc[t] = from /\ tpc' = [tpc EXCEPT ![t] = to]

Begin(t) ==
    /\ Go(t, "start", "try")
    /\ attached' = attached \cup {tusb[t]}
    /\ UNCHANGED <<connected, known, num, watcherVars, tusb, tries, cancelled, envVars, events, reg, crashed>>

\* sleep, then get_devid: it fails without a device, and may fail with one.
TryDevice(t, limit) ==
    /\ \/ /\ tusb[t] \in plugged
          /\ Go(t, "try", "setid")
          /\ tries' = [tries EXCEPT ![t] = 0]
       \/ /\ tries[t] + 1 < limit
          /\ Go(t, "try", "try")
          /\ tries' = [tries EXCEPT ![t] = @ + 1]
       \/ /\ tries[t] + 1 = limit
          /\ Go(t, "try", "gaveup")
          /\ tries' = [tries EXCEPT ![t] = 0]
    /\ UNCHANGED <<tableVars, watcherVars, tusb, cancelled, envVars, events, reg, crashed>>

\* Mutation of get_devid: one attempt more.
TryOnceMore(t) == TryDevice(t, MaxTries + 1)

get_devid(t) == TryDevice(t, MaxTries)

\* A cancellation takes effect while the thread sleeps or waits for the device.
Die(t) ==
    /\ t \in cancelled
    /\ Go(t, "try", "dead")
    /\ cancelled' = cancelled \ {t}
    /\ tries' = [tries EXCEPT ![t] = 0]
    /\ UNCHANGED <<tableVars, watcherVars, tusb, envVars, events, reg, crashed>>

NoteId(t, seen) ==
    /\ Go(t, "setid", "check")
    /\ known' = known \cup seen
    /\ UNCHANGED <<attached, connected, num, watcherVars, tusb, tries, cancelled, envVars, events, reg, crashed>>

\* Mutation of SetDeviceId: the id is not stored.
IdNotStored(t) == NoteId(t, {})

SetDeviceId(t) == NoteId(t, {tusb[t]})

\* update_usb_stat(idx, TRUE).
CheckConnected(t) ==
    /\ \/ tusb[t] \in connected /\ Go(t, "check", "done")
       \/ tusb[t] \notin connected /\ Go(t, "check", "connect")
    /\ UNCHANGED <<tableVars, watcherVars, tusb, tries, cancelled, envVars, events, reg, crashed>>

SetConnected(t) ==
    /\ Go(t, "connect", "count")
    /\ connected' = connected \cup {tusb[t]}
    /\ reg' = [reg EXCEPT ![t] = num]
    /\ UNCHANGED <<attached, known, num, watcherVars, tusb, tries, cancelled, envVars, events, crashed>>

CountUp(t) ==
    /\ Go(t, "count", "done")
    /\ num' = reg[t] + 1
    /\ reg' = [reg EXCEPT ![t] = 0]
    /\ UNCHANGED <<attached, connected, known, watcherVars, tusb, tries, cancelled, envVars, events, crashed>>

-----------------------------------------------------------------------------
WatcherStep ==
    \/ StatDevice \/ AddWatch \/ HandleCreate \/ HandleDelete
    \/ ClearConnected \/ ClearDeviceId \/ CountDown

ThreadStep(t) ==
    \/ Begin(t) \/ get_devid(t) \/ Die(t)
    \/ SetDeviceId(t) \/ CheckConnected(t) \/ SetConnected(t) \/ CountUp(t)

Next ==
    /\ crashed = 0
    /\ \/ \E i \in Usb : Plug(i) \/ Unplug(i)
       \/ WatcherStep
       \/ \E t \in Threads : ThreadStep(t)

Spec == Init /\ [][Next]_vars

\* The threads keep running: they block on nothing but sleeps and timed reads.
FairSpec == Spec /\ WF_vars(crashed = 0 /\ WatcherStep)
                 /\ \A t \in Threads : WF_vars(crashed = 0 /\ ThreadStep(t))

-----------------------------------------------------------------------------
(* Properties                                                              *)

ThreadPcs == {"unborn", "start", "try", "setid", "check", "connect", "count",
              "done", "gaveup", "dead"}

\* Every variable has its type.
TypeOK ==
    /\ plugged \subseteq Usb
    /\ moves \in 0..MaxMoves
    /\ events \in Seq([kind : {"create", "delete"}, usb : Usb])
    /\ wpc \in {"stat", "loop", "failed", "update", "clear", "count"}
    /\ at \in 1..(NumUsb + 1)
    /\ attached \subseteq Usb /\ connected \subseteq Usb /\ known \subseteq Usb
    /\ num \in Int
    /\ tid \in [Usb -> Threads \cup {0}]
    /\ tpc \in [Threads -> ThreadPcs]
    /\ tusb \in [Threads -> Usb]
    /\ tries \in [Threads -> 0..(MaxTries - 1)]
    /\ reg \in [Threads \cup {0} -> Int]
    /\ cancelled \subseteq Threads
    /\ crashed \in {0, 1} /\ calm \in {0, 1}

is_usb_connected(i) == num # 0 /\ i \in connected /\ i \in known

\* The thread started last for i reached the device.
Reached(i) == tid[i] # 0 /\ tpc[tid[i]] = "done"

\* However fast a device comes and goes, and whatever older threads for the same index
\* still do: when its last thread has reached it and all is quiet, the entry says that
\* it is connected and has its id.
LastPlugWins ==
    \A i \in plugged : Settled(i) /\ Reached(i) => i \in connected /\ i \in known

\* pthread_cancel is never given a cleared thread id: a device file that goes while its
\* entry waits for a connection has a thread of its own.
CancelHasThread ==
    [][HandleDelete =>
         LET i == Head(events).usb IN
         i \in attached \ connected => tid[i] # 0 /\ tusb[tid[i]] = i]_vars

\* As long as nothing happens to a device while its last change is being handled, the
\* entry tells the truth once it has been: connected with an id if and only if the
\* device is there and answered.
CalmStatusIsTrue ==
    calm = 1 /\ crashed = 0 =>
        \A i \in Usb : Settled(i) =>
            /\ i \in connected <=> i \in plugged /\ Reached(i)
            /\ i \in connected <=> i \in known
            /\ i \in attached <=> i \in plugged

\* What the invariants rest on.  For the watcher a device is there from its creation
\* event, or its being found at the start, until the event that deletes it is read.
Of(i)   == {k \in DOMAIN events : events[k].usb = i}
Seen(i) == \/ Of(i) = {} /\ i \in plugged
           \/ \E k \in Of(i) : events[k].kind = "delete" /\ \A j \in Of(i) : k <= j

\* The events of a device alternate and end with what the device is now; before the
\* directory is watched there are none.
EventsAlternate ==
    /\ wpc \in {"stat", "failed"} => events = <<>>
    /\ \A i \in Usb : \A k, m \in Of(i) :
         k < m /\ (\A j \in Of(i) : ~(k < j /\ j < m)) => events[k].kind # events[m].kind
    /\ \A i \in Usb : \A k \in Of(i) :
         (\A j \in Of(i) : j <= k) => (events[k].kind = "create" <=> i \in plugged)

\* The id noted for an index is that of a thread started for it.
NotedThread ==
    \A i \in Usb : tid[i] # 0 => tusb[tid[i]] = i /\ tpc[tid[i]] # "unborn"

\* The last thing that was told to the watcher of i is not that it has gone.
Standing(i) == Seen(i) \/ wpc \in {"stat", "failed"}

\* A device that is not told gone has a noted thread, unless it came between the look
\* at the device files and the watch: then no thread was ever started for it.
StandingHasThread ==
    \A i \in Usb : Standing(i) =>
        \/ tid[i] # 0
        \/ i \notin attached /\ \A t \in Threads : tusb[t] = i => tpc[t] = "unborn"

\* An entry is taken out only after the deletion was read, so what the thread of a
\* device that is not told gone has stored stays.
StandingKeepsStores ==
    /\ wpc \in {"update", "clear", "count"} => at \in Usb /\ ~Seen(at)
    /\ \A i \in Usb : tid[i] # 0 /\ Standing(i) =>
         /\ tpc[tid[i]] \in {"check", "connect", "count", "done"} => i \in known
         /\ tpc[tid[i]] \in {"count", "done"} => i \in connected

WatchInv == EventsAlternate /\ NotedThread /\ StandingHasThread /\ StandingKeepsStores

\* The same for calm histories, where an entry follows its only live thread.
Handled(i) == wpc \in {"update", "clear", "count"} /\ at = i
Awaited(i) == i \in plugged /\ Of(i) = {} /\ (wpc = "stat" => i < at)
Left(i)    == i \notin plugged /\ Of(i) # {}
EntryFollows(i, t) ==
    /\ tpc[t] \notin {"unborn", "dead"}
    /\ i \in attached <=> tpc[t] # "start"
    /\ i \in connected <=> tpc[t] \in {"count", "done"}
    /\ i \in known <=> tpc[t] \in {"check", "connect", "count", "done"}
CalmIndex(i) ==
    /\ \A t \in Threads : tusb[t] = i /\ ~Ended(t) => tid[i] = t /\ Awaited(i)
    /\ \A k, m \in Of(i) : k = m
    /\ Handled(i) => i \notin plugged /\ Of(i) = {}
    /\ Awaited(i) \/ Left(i) => tid[i] # 0 /\ EntryFollows(i, tid[i])
    /\ Handled(i) /\ wpc = "update" => (i \in connected <=> i \in known)
    /\ ~(Awaited(i) \/ Left(i) \/ (Handled(i) /\ wpc = "update")) =>
         /\ i \notin attached /\ i \notin connected
         /\ i \in known => Handled(i) /\ wpc = "clear"
CalmInv == calm = 1 /\ crashed = 0 => cancelled = {} /\ \A i \in Usb : CalmIndex(i)

\* A device that appears is connected, given up or gone in the end.
PlugIsAnswered ==
    \A i \in Usb :
        (\E k \in DOMAIN events : events[k] = [kind |-> "create", usb |-> i]) ~>
            \/ i \in connected \/ i \notin plugged \/ crashed = 1
            \/ tid[i] # 0 /\ tpc[tid[i]] = "gaveup"

\* connwatcher.c: "Any race effects is guaranteed to be temporary and retrying a failed
\* command will alwyas have the desired effect".  When all is quiet a command for a
\* device that is there and answered is not refused as "Device not connected".
RaceEffectsAreTemporary ==
    (\A i \in Usb : Settled(i)) =>
        \A i \in plugged : Reached(i) => is_usb_connected(i)
=============================================================================

--------------------------- MODULE ClientRegistry ---------------------------
(***************************************************************************)
(* The table client_info_list of connected clients: the accept loop of     *)
(* socklistener.c, the command threads (g7cmd.c) and the tracker threads   *)
(* (tracker.c) that fill, read and clear it, and the file descriptors      *)
(* behind it.  Slots are filled and cleared under socks_mutex; everything  *)
(* else reads the table without it, and a tracker thread closes its socket *)
(* before it takes the mutex.                                              *)
(***************************************************************************)
EXTENDS Integers, FiniteSets

CONSTANTS MaxClients,  \* max_clients: size of the table
          MaxFds,      \* file descriptors 1..MaxFds are for connections
          MaxConns,    \* bound: connections accepted in a behaviour
          Devices,     \* device ids of trackers
          NoDev,       \* device id 0
          Addrs        \* IP addresses of trackers

ASSUME ClientRegistryAssumption ==
    /\ MaxClients \in Nat \ {0}
    /\ MaxConns \in Nat \ {0}
    /\ MaxFds \in Nat /\ MaxFds > MaxClients
    /\ NoDev \notin Devices

Slots == 1..MaxClients
Fds   == 1..MaxFds
NoFd  == -1

\* Whoever connects: a user on the command port or a tracker on the other one.
\* A user's address is never compared.
User     == [cmd |-> 1, dev |-> NoDev, ip |-> NoDev]
Trackers == [cmd : {0}, dev : Devices, ip : Addrs]
Peers    == Trackers \cup {User}

VARIABLES
    thread,       \* cli_thread: number of the connection served, 0 if empty
    socket,       \* cli_socket
    devid,        \* cli_devid
    target,       \* target_socket, target_deviceid, target_cli_idx
    num_clients,
    pc,           \* where the thread of each slot is
    scan,         \* index of the loop in handleKeepAlivePackage
    cancelled,    \* threads with a pending pthread_cancel
    file,         \* the connection open on each descriptor, 0 if none
    peer,         \* who is at the other end of connection n; User once it is over
    conns,        \* connections accepted so far
    newsocket,    \* descriptor just accepted by the main thread, or NoFd
    mutex,        \* "free", or "dead" when a thread died holding socks_mutex
    crashed       \* the daemon died

threadVars == <<pc, scan, cancelled>>
tableVars  == <<thread, socket, devid, num_clients>>
mainVars   == <<peer, conns, newsocket>>
fateVars   == <<mutex, crashed>>
vars == <<threadVars, tableVars, mainVars, fateVars, target, file>>

\* The target of a new client is the USB device; that of an empty slot has socket 0.
\* conn, the connection that was chosen, is a history field.
NoTarget == [socket |-> NoFd, dev |-> NoDev, idx |-> -1, conn |-> 0]
ClearedTarget == [socket |-> 0, dev |-> NoDev, idx |-> -1, conn |-> 0]

Init ==
    /\ thread = [s \in Slots |-> 0]
    /\ socket = [s \in Slots |-> 0]
    /\ devid = [s \in Slots |-> NoDev]
    /\ target = [s \in Slots |-> ClearedTarget]
    /\ num_clients = 0
    /\ pc = [s \in Slots |-> "none"]
    /\ scan = [s \in Slots |-> 1]
    /\ cancelled = {}
    /\ file = [f \in Fds |-> 0]
    /\ peer = [n \in 1..MaxConns |-> User]
    /\ conns = 0
    /\ newsocket = NoFd
    /\ mutex = "free"
    /\ crashed = 0

IsCmd(s) == peer[thread[s]].cmd = 1

-----------------------------------------------------------------------------
(* The main thread: startupsrv                                             *)

\* accept() returns the lowest free descriptor.
accept(p) ==
    /\ newsocket = NoFd
    /\ conns < MaxConns
    /\ \E f \in Fds :
         /\ file[f] = 0
         /\ \A g \in Fds : g < f => file[g] # 0
         /\ file' = [file EXCEPT ![f] = conns + 1]
         /\ newsocket' = f
    /\ conns' = conns + 1
    /\ peer' = [peer EXCEPT ![conns + 1] = p]
    /\ UNCHANGED <<threadVars, tableVars, fateVars, target>>

\* Under socks_mutex: slot s is filled and its thread is started.
Fill(s) ==
    /\ newsocket # NoFd
    /\ mutex = "free"
    /\ thread' = [thread EXCEPT ![s] = conns]
    /\ socket' = [socket EXCEPT ![s] = newsocket]
    /\ devid' = [devid EXCEPT ![s] = NoDev]
    /\ target' = [target EXCEPT ![s] = NoTarget]
    /\ pc' = [pc EXCEPT ![s] = "run"]
    /\ num_clients' = num_clients + 1
    /\ newsocket' = NoFd
    /\ UNCHANGED <<scan, cancelled, fateVars, file, peer, conns>>

\* Mutation of AddClient: the slot after as many as there are clients is taken.
AddAtCount == \E s \in Slots : s = num_clients + 1 /\ Fill(s)

\* The first slot without a thread is taken.
AddClient ==
    \E s \in Slots :
       /\ thread[s] = 0
       /\ \A t \in Slots : t < s => thread[t] # 0
       /\ Fill(s)

\* "Too many client connections": the connection is closed at once.
Reject(closed) ==
    /\ newsocket # NoFd
    /\ mutex = "free"
    /\ \A s \in Slots : thread[s] # 0
    /\ file' = [f \in Fds |-> IF f \in closed THEN 0 ELSE file[f]]
    /\ peer' = [peer EXCEPT ![conns] = User]
    /\ newsocket' = NoFd
    /\ UNCHANGED <<threadVars, tableVars, fateVars, target, conns>>

\* Mutations of RejectClient: the descriptor is not closed; the main thread waits for
\* a slot instead.
RejectKeepsOpen == Reject({})
RejectWaits == Reject({newsocket}) /\ num_clients < MaxClients

RejectClient == Reject({newsocket})

-----------------------------------------------------------------------------
(* Tracker threads: tracker_clientsrv                                      *)

\* The first KEEP_ALIVE on a connection: look for an older connection of the device.
KeepAlive(s) ==
    /\ pc[s] = "run" /\ ~IsCmd(s)
    /\ devid[s] = NoDev
    /\ pc' = [pc EXCEPT ![s] = "scan"]
    /\ scan' = [scan EXCEPT ![s] = 1]
    /\ UNCHANGED <<cancelled, tableVars, mainVars, fateVars, target, file>>

\* Slot i seems to be an older connection of the same device, from another address.
OlderConnection(s, i) ==
    /\ thread[i] # 0
    /\ devid[i] = peer[thread[s]].dev
    /\ peer[thread[i]].ip # peer[thread[s]].ip
    /\ socket[i] # socket[s]

ScanSlot(s) ==
    /\ pc[s] = "scan"
    /\ scan[s] \in Slots
    /\ \/ /\ OlderConnection(s, scan[s])
          /\ pc' = [pc EXCEPT ![s] = "kill"]
          /\ UNCHANGED scan
       \/ /\ ~OlderConnection(s, scan[s])
          /\ scan' = [scan EXCEPT ![s] = @ + 1]
          /\ UNCHANGED pc
    /\ UNCHANGED <<cancelled, tableVars, mainVars, fateVars, target, file>>

\* pthread_cancel of whatever thread the slot has by now.  Of an empty slot it is
\* undefined: nothing happens, or the daemon crashes.
CancelOlder(s) ==
    /\ pc[s] = "kill"
    /\ \/ /\ thread[scan[s]] # 0
          /\ cancelled' = cancelled \cup {scan[s]}
          /\ UNCHANGED crashed
       \/ /\ thread[scan[s]] = 0
          /\ crashed' \in {0, 1}
          /\ UNCHANGED cancelled
    /\ pc' = [pc EXCEPT ![s] = "scan"]
    /\ scan' = [scan EXCEPT ![s] = @ + 1]
    /\ UNCHANGED <<tableVars, mainVars, mutex, target, file>>

NoteDeviceId(s) ==
    /\ pc[s] = "scan"
    /\ scan[s] = MaxClients + 1
    /\ devid' = [devid EXCEPT ![s] = peer[thread[s]].dev]
    /\ pc' = [pc EXCEPT ![s] = "run"]
    /\ scan' = [scan EXCEPT ![s] = 1]
    /\ UNCHANGED <<thread, socket, num_clients, cancelled, mainVars, fateVars, target, file>>

\* The tracker closed the connection or was idle for max_device_idle_time: the
\* clean-up handler is popped and run, and the thread can still be cancelled.
LeaveLoop(s) ==
    /\ pc[s] = "run" /\ ~IsCmd(s)
    /\ pc' = [pc EXCEPT ![s] = "exit"]
    /\ UNCHANGED <<scan, cancelled, tableVars, mainVars, fateVars, target, file>>

\* A cancelled thread runs the clean-up handler while it is still pushed; in the
\* middle of a popped handler, or in a command thread, which has none, it just ends
\* and its slot stays as it is.
Cancelled(s) ==
    /\ s \in cancelled
    /\ \/ /\ ~IsCmd(s) /\ pc[s] \in {"run", "scan", "kill"}
          /\ pc' = [pc EXCEPT ![s] = "unwind"]
       \/ /\ \/ ~IsCmd(s) /\ pc[s] \in {"exit", "closed"}
             \/ IsCmd(s) /\ pc[s] \in {"run", "send"}
          /\ pc' = [pc EXCEPT ![s] = "dead"]
    /\ cancelled' = cancelled \ {s}
    /\ UNCHANGED <<scan, tableVars, mainVars, fateVars, target, file>>

\* trk_thread_cleanup, first half: close the socket, without the mutex.
trk_close(s) ==
    /\ pc[s] \in {"exit", "unwind"}
    /\ file' = [file EXCEPT ![socket[s]] = 0]
    /\ pc' = [pc EXCEPT ![s] = IF @ = "exit" THEN "closed" ELSE "unwound"]
    /\ UNCHANGED <<scan, cancelled, tableVars, mainVars, fateVars, target>>

\* The slot is set to 0 under socks_mutex.
ClearSlot(s, n) ==
    /\ mutex = "free"
    /\ thread' = [thread EXCEPT ![s] = 0]
    /\ socket' = [socket EXCEPT ![s] = 0]
    /\ devid' = [devid EXCEPT ![s] = NoDev]
    /\ target' = [target EXCEPT ![s] = ClearedTarget]
    /\ num_clients' = num_clients - n
    /\ pc' = [pc EXCEPT ![s] = "none"]
    /\ scan' = [scan EXCEPT ![s] = 1]
    /\ cancelled' = cancelled \ {s}
    /\ peer' = [peer EXCEPT ![thread[s]] = User]
    /\ UNCHANGED <<conns, newsocket, fateVars>>

\* Mutations of trk_clear: the count is not updated; the socket is closed again.
ClearNotCounted(s) ==
    pc[s] \in {"closed", "unwound"} /\ ClearSlot(s, 0) /\ UNCHANGED file
ClearClosesAgain(s) ==
    /\ pc[s] \in {"closed", "unwound"}
    /\ ClearSlot(s, 1)
    /\ file' = [file EXCEPT ![socket[s]] = 0]

\* trk_thread_cleanup, second half.
trk_clear(s) ==
    pc[s] \in {"closed", "unwound"} /\ ClearSlot(s, 1) /\ UNCHANGED file

-----------------------------------------------------------------------------
(* Command threads: cmd_clientsrv                                          *)

\* set_gprs_device_target_by_index.
UseIndex(s, i) ==
    /\ pc[s] = "run" /\ IsCmd(s)
    /\ thread[i] # 0 /\ ~IsCmd(i)
    /\ target' = [target EXCEPT ![s] = [socket |-> socket[i], dev |-> devid[i],
                                        idx |-> i, conn |-> thread[i]]]
    /\ UNCHANGED <<threadVars, tableVars, mainVars, fateVars, file>>

\* set_gprs_device_target_by_nickname: target_cli_idx is not set.
UseNickname(s, i) ==
    /\ pc[s] = "run" /\ IsCmd(s)
    /\ devid[i] # NoDev
    /\ \A j \in Slots : j < i => devid[j] # devid[i]
    /\ target' = [target EXCEPT ![s] = [socket |-> socket[i], dev |-> devid[i],
                                        idx |-> @.idx, conn |-> thread[i]]]
    /\ UNCHANGED <<threadVars, tableVars, mainVars, fateVars, file>>

\* The same with number -1: back to USB.
UseUsb(s) ==
    /\ pc[s] = "run" /\ IsCmd(s)
    /\ target' = [target EXCEPT ![s] = NoTarget]
    /\ UNCHANGED <<threadVars, tableVars, mainVars, fateVars, file>>

\* send_rawcmd_reply over GPRS: is a connection with this device id and socket still
\* in the table?  If not the target is reset to USB.
SendCheck(s) ==
    /\ pc[s] = "run" /\ IsCmd(s)
    /\ target[s].socket > 0 /\ target[s].idx >= 0
    /\ IF \E i \in Slots : devid[i] = target[s].dev /\ socket[i] = target[s].socket
       THEN pc' = [pc EXCEPT ![s] = "send"] /\ UNCHANGED target
       ELSE target' = [target EXCEPT ![s] = NoTarget] /\ UNCHANGED pc
    /\ UNCHANGED <<scan, cancelled, tableVars, mainVars, fateVars, file>>

SendWrite(s) ==
    /\ pc[s] = "send"
    /\ pc' = [pc EXCEPT ![s] = "run"]
    /\ UNCHANGED <<scan, cancelled, tableVars, mainVars, fateVars, target, file>>

\* The user leaves, is idle too long or fails the password check: the socket is
\* closed and the slot cleared under socks_mutex.
CmdExit(s) ==
    /\ pc[s] = "run" /\ IsCmd(s)
    /\ ClearSlot(s, 1)
    /\ file' = [file EXCEPT ![socket[s]] = 0]

\* close() is a cancellation point: a cancelled command thread ends there, with
\* socks_mutex locked.
CmdExitCancelled(s) ==
    /\ pc[s] = "run" /\ IsCmd(s) /\ s \in cancelled
    /\ mutex = "free"
    /\ mutex' = "dead"
    /\ pc' = [pc EXCEPT ![s] = "dead"]
    /\ cancelled' = cancelled \ {s}
    /\ UNCHANGED <<scan, tableVars, mainVars, crashed, target, file>>

-----------------------------------------------------------------------------
MainStep == AddClient \/ RejectClient

CleanUp(s) == trk_close(s) \/ trk_clear(s)

TrackerStep(s) ==
    \/ KeepAlive(s) \/ ScanSlot(s) \/ CancelOlder(s) \/ NoteDeviceId(s)
    \/ LeaveLoop(s) \/ CleanUp(s)

CmdStep(s) ==
    \/ \E i \in Slots : UseIndex(s, i) \/ UseNickname(s, i)
    \/ UseUsb(s) \/ SendCheck(s) \/ SendWrite(s) \/ CmdExit(s) \/ CmdExitCancelled(s)

Next ==
    /\ crashed = 0
    /\ \/ \E p \in Peers : accept(p)
       \/ MainStep
       \/ \E s \in Slots : TrackerStep(s) \/ CmdStep(s) \/ Cancelled(s)

Spec == Init /\ [][Next]_vars

\* The main thread and a thread that is cleaning up keep running; nothing is owed by
\* users, trackers or the network.
FairSpec == Spec /\ WF_vars(crashed = 0 /\ MainStep)
                 /\ \A s \in Slots : WF_vars(crashed = 0 /\ CleanUp(s))

-----------------------------------------------------------------------------
(* Properties                                                              *)

Pcs == {"none", "run", "scan", "kill", "send", "exit", "unwind", "closed", "unwound", "dead"}

TableTypeOK ==
    /\ thread \in [Slots -> 0..MaxConns]
    /\ socket \in [Slots -> Fds \cup {0}]
    /\ devid \in [Slots -> Devices \cup {NoDev}]
    /\ target \in [Slots -> [socket : Fds \cup {0, NoFd}, dev : Devices \cup {NoDev},
                             idx : Slots \cup {-1}, conn : 0..MaxConns]]
ThreadTypeOK ==
    /\ pc \in [Slots -> Pcs]
    /\ scan \in [Slots -> 1..(MaxClients + 1)]
    /\ cancelled \subseteq Slots
NetTypeOK ==
    /\ file \in [Fds -> 0..MaxConns]
    /\ peer \in [1..MaxConns -> Peers]
    /\ conns \in 0..MaxConns
    /\ newsocket \in Fds \cup {NoFd}
FateTypeOK == mutex \in {"free", "dead"} /\ crashed \in {0, 1}

\* Every variable has its type.
TypeOK ==
    TableTypeOK /\ ThreadTypeOK /\ NetTypeOK /\ FateTypeOK /\ num_clients \in 0..MaxClients

\* num_clients is the number of slots in use, whichever threads end in whichever way.
CountIsExact == num_clients = Cardinality({s \in Slots : thread[s] # 0})

\* The thread of slot s has not closed its socket.
Open(s) == pc[s] \in {"run", "scan", "kill", "send", "exit", "unwind"}

\* A thread that has not closed its socket reads from and writes to its own
\* connection: closing a socket outside the mutex never hits the descriptor of a
\* connection that came later.
SocketIsOwn ==
    \A s \in Slots : Open(s) =>
        /\ thread[s] # 0
        /\ socket[s] \in Fds
        /\ file[socket[s]] = thread[s]

\* Every open descriptor is accounted for: some slot has it, or the main thread has
\* just accepted it.
NoDescriptorLost ==
    \A f \in Fds : file[f] # 0 =>
        f = newsocket \/ \E s \in Slots : socket[s] = f /\ file[f] = thread[s]

\* What makes these inductive.  A slot is in use as long as it has a thread; the loop
\* of handleKeepAlivePackage cancels within the table.
Control ==
    \A s \in Slots :
        /\ pc[s] = "none" <=> thread[s] = 0
        /\ pc[s] = "kill" => scan[s] \in Slots

\* A connection has one slot and one descriptor, and none of either before it is
\* accepted or after it is closed.
Connections ==
    /\ \A s \in Slots : thread[s] <= conns
    /\ \A f \in Fds : file[f] <= conns
    /\ \A s, t \in Slots : thread[s] # 0 /\ thread[s] = thread[t] => s = t
    /\ \A f, g \in Fds : file[f] # 0 /\ file[f] = file[g] => f = g
    /\ newsocket # NoFd => /\ conns # 0
                           /\ file[newsocket] = conns
                           /\ \A s \in Slots : thread[s] # conns
    /\ \A s \in Slots : pc[s] \in {"closed", "unwound"} => \A f \in Fds : file[f] # thread[s]

Registry == Control /\ Connections /\ SocketIsOwn /\ NoDescriptorLost

\* A slot is taken only when it is empty and emptied only by its own thread, at the
\* end of its clean-up: no slot changes hands while its thread can still use it.
SlotHandedOver ==
    [][\A s \in Slots : thread'[s] # thread[s] =>
         \/ thread[s] = 0 /\ pc[s] = "none" /\ socket'[s] = newsocket
         \/ thread'[s] = 0 /\ pc[s] \in {"run", "closed", "unwound"} /\ pc'[s] = "none"]_vars

\* A connection that was accepted is served or refused, unless socks_mutex or the
\* daemon is lost.
ConnectionAnswered ==
    newsocket # NoFd ~> newsocket = NoFd \/ mutex = "dead" \/ crashed = 1

\* g7sendcmd.c: "First check if this client is still connected".  A command is
\* written to the connection that was chosen as its target, or the write fails.
CommandReachesTarget ==
    \A s \in Slots : pc[s] = "send" => file[target[s].socket] \in {0, target[s].conn}
=============================================================================

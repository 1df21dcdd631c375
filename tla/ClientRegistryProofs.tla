------------------------ MODULE ClientRegistryProofs ------------------------
(***************************************************************************)
(* The safety properties of the client table, for every size of the table  *)
(* and every number of descriptors, connections, devices and addresses.    *)
(***************************************************************************)
EXTENDS ClientRegistry, FiniteSetTheorems, TLAPS

\* The steps that touch neither the table's connections nor a descriptor.
Inner(s) ==
    \/ KeepAlive(s) \/ ScanSlot(s) \/ CancelOlder(s) \/ NoteDeviceId(s) \/ LeaveLoop(s)
    \/ Cancelled(s) \/ UseUsb(s) \/ SendCheck(s) \/ SendWrite(s) \/ CmdExitCancelled(s)
    \/ \E i \in Slots : UseIndex(s, i) \/ UseNickname(s, i)

\* Every step is an inner one or one of six that open, close, fill or clear.
LEMMA StepKinds ==
    ASSUME [Next]_vars
    PROVE  \/ \E p \in Peers : accept(p)
           \/ AddClient
           \/ RejectClient
           \/ \E s \in Slots : Inner(s) \/ trk_close(s) \/ trk_clear(s) \/ CmdExit(s)
           \/ UNCHANGED vars
BY DEF Next, MainStep, TrackerStep, CmdStep, CleanUp, Inner

\* "No connection" has its type.
LEMMA ZeroConn == 0 \in 0..MaxConns
BY ClientRegistryAssumption

\* The types of targets and peers.
LEMMA PeerTypes ==
    /\ User \in Peers
    /\ \A p \in Peers : p.dev \in Devices \cup {NoDev} /\ p.cmd \in {0, 1}
BY DEF User, Peers, Trackers

Targets == [socket : Fds \cup {0, NoFd}, dev : Devices \cup {NoDev},
            idx : Slots \cup {-1}, conn : 0..MaxConns]

\* The targets of new clients and of empty slots have their type.
LEMMA TargetTypes == NoTarget \in Targets /\ ClearedTarget \in Targets
BY ClientRegistryAssumption DEF NoTarget, ClearedTarget, Targets

\* All of the type invariant except the number of clients, which takes counting.
Types == TableTypeOK /\ ThreadTypeOK /\ NetTypeOK /\ FateTypeOK

\* An inner step changes the position of one thread, and neither opens a closed
\* socket nor takes or empties a slot.
LEMMA InnerFrame ==
    ASSUME Types, Control, NEW s \in Slots, Inner(s)
    PROVE  /\ UNCHANGED <<thread, socket, num_clients, file, peer, conns, newsocket>>
           /\ pc' \in [Slots -> Pcs]
           /\ \A t \in Slots : /\ pc'[t] = "none" <=> pc[t] = "none"
                               /\ Open(t)' => Open(t)
                               /\ pc'[t] \in {"closed", "unwound"} =>
                                     pc[t] \in {"closed", "unwound"}
<1> USE DEF Types, ThreadTypeOK, mainVars, tableVars, threadVars, Open, Pcs
<1>1. CASE KeepAlive(s)
  BY <1>1 DEF KeepAlive
<1>2. CASE ScanSlot(s)
  BY <1>2 DEF ScanSlot
<1>3. CASE CancelOlder(s)
  BY <1>3 DEF CancelOlder
<1>4. CASE NoteDeviceId(s)
  BY <1>4 DEF NoteDeviceId
<1>5. CASE LeaveLoop(s)
  BY <1>5 DEF LeaveLoop
<1>6. CASE Cancelled(s)
  BY <1>6 DEF Cancelled
<1>7. CASE UseUsb(s) \/ SendWrite(s)
  BY <1>7 DEF UseUsb, SendWrite
<1>8. CASE SendCheck(s)
  BY <1>8 DEF SendCheck
<1>9. CASE CmdExitCancelled(s)
  BY <1>9 DEF CmdExitCancelled
<1>10. CASE \E i \in Slots : UseIndex(s, i) \/ UseNickname(s, i)
  BY <1>10 DEF UseIndex, UseNickname
<1> QED BY <1>1, <1>2, <1>3, <1>4, <1>5, <1>6, <1>7, <1>8, <1>9, <1>10 DEF Inner

\* The thread of a slot in use serves a connection that has a peer.
LEMMA ThreadHasPeer ==
    ASSUME Types, Control, NEW s \in Slots, pc[s] # "none"
    PROVE  thread[s] \in 1..MaxConns /\ peer[thread[s]] \in Peers
BY DEF Types, Control, TableTypeOK, NetTypeOK

\* Inner steps keep the types.
LEMMA InnerTypes ==
    ASSUME Types, Control, NEW s \in Slots, Inner(s)
    PROVE  Types'
<1>1. NetTypeOK'
  BY InnerFrame DEF Types, NetTypeOK
<1>2. /\ thread' \in [Slots -> 0..MaxConns]
      /\ socket' \in [Slots -> Fds \cup {0}]
      /\ pc' \in [Slots -> Pcs]
  BY InnerFrame DEF Types, TableTypeOK
<1>3. devid' \in [Slots -> Devices \cup {NoDev}]
  <2>1. CASE NoteDeviceId(s)
    BY <2>1, ThreadHasPeer, PeerTypes DEF NoteDeviceId, Types, TableTypeOK
  <2>2. CASE ~NoteDeviceId(s)
    BY <2>2 DEF Inner, KeepAlive, ScanSlot, CancelOlder, LeaveLoop, Cancelled, UseUsb,
                SendCheck, SendWrite, CmdExitCancelled, UseIndex, UseNickname,
                Types, TableTypeOK, tableVars
  <2> QED BY <2>1, <2>2
<1>4. target' \in [Slots -> Targets]
  <2>1. target \in [Slots -> Targets]
    BY DEF Types, TableTypeOK, Targets
  <2>2. CASE UNCHANGED target
    BY <2>1, <2>2
  <2>3. CASE UseUsb(s) \/ SendCheck(s)
    BY <2>1, <2>3, TargetTypes DEF UseUsb, SendCheck
  <2>4. ASSUME NEW i \in Slots, UseIndex(s, i) \/ UseNickname(s, i)
        PROVE  target' \in [Slots -> Targets]
    <3>1. /\ socket[i] \in Fds \cup {0, NoFd} /\ devid[i] \in Devices \cup {NoDev}
          /\ thread[i] \in 0..MaxConns /\ target[s].idx \in Slots \cup {-1}
      BY <2>1 DEF Types, TableTypeOK, Targets
    <3>2. PICK k \in Slots \cup {-1} :
            target' = [target EXCEPT ![s] = [socket |-> socket[i], dev |-> devid[i],
                                             idx |-> k, conn |-> thread[i]]]
      BY <2>4, <3>1 DEF UseIndex, UseNickname
    <3>3. [socket |-> socket[i], dev |-> devid[i], idx |-> k, conn |-> thread[i]] \in Targets
      BY <3>1 DEF Targets
    <3> QED BY <2>1, <3>2, <3>3
  <2> QED
    BY <2>2, <2>3, <2>4
       DEF Inner, KeepAlive, ScanSlot, CancelOlder, NoteDeviceId, LeaveLoop, Cancelled,
           SendWrite, CmdExitCancelled
<1>5. scan' \in [Slots -> 1..(MaxClients + 1)] /\ cancelled' \subseteq Slots
  <2>1. CASE KeepAlive(s) \/ NoteDeviceId(s)
    BY <2>1, ClientRegistryAssumption DEF KeepAlive, NoteDeviceId, Types, ThreadTypeOK
  <2>2. CASE ScanSlot(s)
    <3>1. scan[s] \in Slots /\ scan[s] + 1 \in 1..(MaxClients + 1)
      BY <2>2, ClientRegistryAssumption DEF ScanSlot, Slots
    <3>2. /\ scan' = scan \/ scan' = [scan EXCEPT ![s] = scan[s] + 1]
          /\ cancelled' = cancelled
      BY <2>2 DEF ScanSlot
    <3> QED BY <3>1, <3>2 DEF Types, ThreadTypeOK
  <2>3. CASE CancelOlder(s)
    <3>1. scan[s] \in Slots /\ scan[s] + 1 \in 1..(MaxClients + 1)
      BY <2>3, ClientRegistryAssumption DEF CancelOlder, Control, Slots
    <3> QED BY <2>3, <3>1 DEF CancelOlder, Types, ThreadTypeOK
  <2>4. CASE UNCHANGED scan /\ cancelled' \subseteq cancelled
    BY <2>4 DEF Types, ThreadTypeOK
  <2> QED
    BY <2>1, <2>2, <2>3, <2>4
       DEF Inner, LeaveLoop, Cancelled, UseUsb, SendCheck, SendWrite, CmdExitCancelled,
           UseIndex, UseNickname, threadVars
<1>6. FateTypeOK'
  BY DEF Inner, KeepAlive, ScanSlot, CancelOlder, NoteDeviceId, LeaveLoop, Cancelled, UseUsb,
         SendCheck, SendWrite, CmdExitCancelled, UseIndex, UseNickname, Types, FateTypeOK,
         fateVars
<1> QED BY <1>1, <1>2, <1>3, <1>4, <1>5, <1>6 DEF Types, TableTypeOK, ThreadTypeOK, Targets

-----------------------------------------------------------------------------
(* Types and control                                                       *)

\* Filling, clearing, opening and closing keep the types.
LEMMA OuterTypes ==
    ASSUME Types, Control
    PROVE  /\ \A p \in Peers : accept(p) => Types'
           /\ AddClient => Types'
           /\ RejectClient => Types'
           /\ \A s \in Slots : trk_close(s) \/ trk_clear(s) \/ CmdExit(s) => Types'
<1> USE DEF Types, fateVars, threadVars, tableVars, mainVars
<1>1. ASSUME NEW p \in Peers, accept(p) PROVE Types'
  <2>1. TableTypeOK' /\ ThreadTypeOK' /\ FateTypeOK'
    BY <1>1 DEF accept, TableTypeOK, ThreadTypeOK, FateTypeOK
  <2>2. conns + 1 \in 1..MaxConns
    BY <1>1, ClientRegistryAssumption DEF accept, NetTypeOK
  <2>3. NetTypeOK'
    BY <1>1, <2>2 DEF accept, NetTypeOK
  <2> QED BY <2>1, <2>3
<1>2. ASSUME AddClient PROVE Types'
  <2>1. PICK s \in Slots : Fill(s)
    BY <1>2 DEF AddClient
  <2>2. NetTypeOK' /\ FateTypeOK'
    BY <2>1 DEF Fill, NetTypeOK, FateTypeOK
  <2>3. TableTypeOK'
    BY <2>1, TargetTypes DEF Fill, TableTypeOK, NetTypeOK, Targets
  <2>4. ThreadTypeOK'
    BY <2>1 DEF Fill, ThreadTypeOK, Pcs
  <2> QED BY <2>2, <2>3, <2>4
<1>3. ASSUME RejectClient PROVE Types'
  <2>1. TableTypeOK' /\ ThreadTypeOK' /\ FateTypeOK'
    BY <1>3 DEF RejectClient, Reject, TableTypeOK, ThreadTypeOK, FateTypeOK
  <2>2. NetTypeOK'
    BY <1>3, PeerTypes, ZeroConn DEF RejectClient, Reject, NetTypeOK
  <2> QED BY <2>1, <2>2
<1>4. ASSUME NEW s \in Slots, trk_close(s) PROVE Types'
  <2>1. TableTypeOK' /\ FateTypeOK'
    BY <1>4 DEF trk_close, TableTypeOK, FateTypeOK
  <2>2. NetTypeOK' /\ ThreadTypeOK'
    BY <1>4, ZeroConn DEF trk_close, NetTypeOK, ThreadTypeOK, Pcs
  <2> QED BY <2>1, <2>2
<1>5. ASSUME NEW s \in Slots, trk_clear(s) \/ CmdExit(s) PROVE Types'
  <2>1. ClearSlot(s, 1) /\ (file' = file \/ file' = [file EXCEPT ![socket[s]] = 0])
    BY <1>5 DEF trk_clear, CmdExit
  <2>2. FateTypeOK' /\ ThreadTypeOK'
    BY <2>1, ClientRegistryAssumption DEF ClearSlot, FateTypeOK, ThreadTypeOK, Pcs
  <2>3. TableTypeOK'
    <3>1. target' \in [Slots -> Targets]
      BY <2>1, TargetTypes DEF ClearSlot, TableTypeOK, Targets
    <3> QED BY <2>1, <3>1, ZeroConn DEF ClearSlot, TableTypeOK, Targets
  <2>4. NetTypeOK'
    BY <2>1, PeerTypes, ZeroConn DEF ClearSlot, NetTypeOK
  <2> QED BY <2>2, <2>3, <2>4
<1> QED BY <1>1, <1>2, <1>3, <1>4, <1>5

\* Every step keeps the types.
LEMMA TypeStep == Types /\ Control /\ [Next]_vars => Types'
<1> SUFFICES ASSUME Types, Control, [Next]_vars PROVE Types'
  OBVIOUS
<1>1. CASE UNCHANGED vars
  BY <1>1 DEF vars, Types, TableTypeOK, ThreadTypeOK, NetTypeOK, FateTypeOK, threadVars,
              tableVars, mainVars, fateVars
<1> QED BY <1>1, StepKinds, InnerTypes, OuterTypes

\* Every step keeps a slot in use exactly as long as it has a thread.
LEMMA ControlStep == Types /\ Control /\ Connections /\ [Next]_vars => Control'
<1> SUFFICES ASSUME Types, Control, Connections, [Next]_vars PROVE Control'
  OBVIOUS
<1> USE DEF Control, fateVars, threadVars, tableVars, mainVars
<1>1. CASE UNCHANGED vars
  BY <1>1 DEF vars
<1>2. ASSUME NEW s \in Slots, Inner(s) PROVE Control'
  <2>1. \A t \in Slots : pc'[t] = "none" <=> thread'[t] = 0
    BY <1>2, InnerFrame
  <2>2. \A t \in Slots : pc'[t] = "kill" => scan'[t] \in Slots
    BY <1>2
       DEF Inner, KeepAlive, ScanSlot, CancelOlder, NoteDeviceId, LeaveLoop, Cancelled,
           UseUsb, SendCheck, SendWrite, CmdExitCancelled, UseIndex, UseNickname,
           Types, ThreadTypeOK
  <2> QED BY <2>1, <2>2
<1>3. ASSUME NEW p \in Peers, accept(p) PROVE Control'
  BY <1>3 DEF accept
<1>4. ASSUME AddClient PROVE Control'
  <2>1. PICK s \in Slots : Fill(s)
    BY <1>4 DEF AddClient
  <2>2. conns # 0
    BY <2>1 DEF Fill, Connections
  <2> QED BY <2>1, <2>2 DEF Fill, Types, TableTypeOK, ThreadTypeOK
<1>5. ASSUME RejectClient PROVE Control'
  BY <1>5 DEF RejectClient, Reject
<1>6. ASSUME NEW s \in Slots, trk_close(s) PROVE Control'
  BY <1>6 DEF trk_close, Types, ThreadTypeOK
<1>7. ASSUME NEW s \in Slots, trk_clear(s) \/ CmdExit(s) PROVE Control'
  <2>1. ClearSlot(s, 1)
    BY <1>7 DEF trk_clear, CmdExit
  <2> QED BY <2>1 DEF ClearSlot, Types, TableTypeOK, ThreadTypeOK
<1> QED BY <1>1, <1>2, <1>3, <1>4, <1>5, <1>6, <1>7, StepKinds

-----------------------------------------------------------------------------
(* Connections and descriptors                                             *)

Links == Connections /\ SocketIsOwn /\ NoDescriptorLost

\* What the invariant says depends on the positions of the threads only through these.
LEMMA LinksFrame ==
    ASSUME Links,
           UNCHANGED <<thread, socket, file, conns, newsocket>>,
           \A t \in Slots : /\ Open(t)' => Open(t)
                            /\ pc'[t] \in {"closed", "unwound"} =>
                                  pc[t] \in {"closed", "unwound"}
    PROVE  Links'
<1>1. Connections'
  BY DEF Links, Connections
<1>2. SocketIsOwn'
  BY DEF Links, SocketIsOwn
<1>3. NoDescriptorLost'
  BY DEF Links, NoDescriptorLost
<1> QED BY <1>1, <1>2, <1>3 DEF Links

\* accept() hands out a descriptor that no thread has open.
LEMMA LinksAccept ==
    ASSUME Types, Links, NEW p \in Peers, accept(p)
    PROVE  Links'
<1>1. PICK f \in Fds : /\ file[f] = 0
                       /\ file' = [file EXCEPT ![f] = conns + 1]
                       /\ newsocket' = f
  BY DEF accept
<1>2. /\ conns' = conns + 1 /\ conns \in Nat /\ newsocket = NoFd
      /\ UNCHANGED <<thread, socket, pc>>
  BY ClientRegistryAssumption DEF accept, tableVars, threadVars, Types, NetTypeOK
<1>3. \A s \in Slots : thread[s] \in Nat /\ thread[s] <= conns
  BY ClientRegistryAssumption DEF Links, Connections, Types, TableTypeOK
<1>4. \A g \in Fds : file[g] \in Nat /\ file[g] <= conns
  BY ClientRegistryAssumption DEF Links, Connections, Types, NetTypeOK
<1>5. \A g \in Fds : file'[g] = IF g = f THEN conns + 1 ELSE file[g]
  BY <1>1 DEF Types, NetTypeOK
<1>6. Connections'
  <2>1. \A s \in Slots : pc[s] \in {"closed", "unwound"} => \A g \in Fds : file[g] # thread[s]
    BY DEF Links, Connections
  <2> QED BY <1>1, <1>2, <1>3, <1>4, <1>5, <2>1 DEF Links, Connections
<1>7. SocketIsOwn'
  BY <1>1, <1>2, <1>5 DEF Links, SocketIsOwn, Open
<1>8. NoDescriptorLost'
  <2>1. NoFd \notin Fds
    BY ClientRegistryAssumption DEF NoFd, Fds
  <2> QED BY <1>1, <1>2, <1>5, <2>1 DEF Links, NoDescriptorLost
<1> QED BY <1>6, <1>7, <1>8 DEF Links

\* The new slot takes the connection that was accepted, which no other slot has.
LEMMA LinksAdd ==
    ASSUME Types, Control, Links, AddClient
    PROVE  Links'
<1>1. PICK s \in Slots : thread[s] = 0 /\ Fill(s)
  BY DEF AddClient
<1>2. /\ newsocket \in Fds /\ newsocket # NoFd /\ newsocket' = NoFd
      /\ UNCHANGED <<file, conns>>
      /\ conns # 0 /\ file[newsocket] = conns /\ \A t \in Slots : thread[t] # conns
  BY <1>1 DEF Fill, Types, NetTypeOK, Links, Connections
<1>3. \A t \in Slots : /\ thread'[t] = IF t = s THEN conns ELSE thread[t]
                       /\ socket'[t] = IF t = s THEN newsocket ELSE socket[t]
                       /\ pc'[t] = IF t = s THEN "run" ELSE pc[t]
  BY <1>1 DEF Fill, Types, TableTypeOK, ThreadTypeOK
<1>4. conns \in Nat
  BY ClientRegistryAssumption DEF Types, NetTypeOK
<1>5. Connections'
  BY <1>2, <1>3, <1>4 DEF Links, Connections
<1>6. SocketIsOwn'
  BY <1>2, <1>3 DEF Links, SocketIsOwn, Open
<1>7. NoDescriptorLost'
  <2>1. pc[s] = "none"
    BY <1>1 DEF Control
  <2>2. ASSUME NEW f \in Fds, file[f] # 0
        PROVE  \E t \in Slots : socket'[t] = f /\ file[f] = thread'[t]
    <3>1. CASE f = newsocket
      BY <3>1, <1>2, <1>3
    <3>2. CASE f # newsocket
      BY <2>2, <3>2, <1>1, <1>3 DEF Links, NoDescriptorLost
    <3> QED BY <3>1, <3>2
  <2> QED BY <1>2, <2>2 DEF NoDescriptorLost
<1> QED BY <1>5, <1>6, <1>7 DEF Links

\* A refused connection is closed, and no thread reads it.
LEMMA LinksReject ==
    ASSUME Types, Links, RejectClient
    PROVE  Links'
<1>1. /\ newsocket \in Fds /\ newsocket # NoFd /\ newsocket' = NoFd
      /\ UNCHANGED <<thread, socket, pc, conns>>
      /\ conns # 0 /\ file[newsocket] = conns /\ \A t \in Slots : thread[t] # conns
  BY DEF RejectClient, Reject, Types, NetTypeOK, Links, Connections, tableVars, threadVars
<1>2. \A f \in Fds : file'[f] = IF f = newsocket THEN 0 ELSE file[f]
  BY DEF RejectClient, Reject, Types, NetTypeOK
<1>3. \A s \in Slots : pc[s] = "closed" \/ pc[s] = "unwound" => thread[s] # 0
  BY DEF RejectClient, Reject
<1>4. conns \in Nat
  BY ClientRegistryAssumption DEF Types, NetTypeOK
<1>5. Connections'
  BY <1>1, <1>2, <1>3, <1>4 DEF Links, Connections
<1>6. SocketIsOwn'
  BY <1>1, <1>2 DEF Links, SocketIsOwn, Open
<1>7. NoDescriptorLost'
  BY <1>1, <1>2 DEF Links, NoDescriptorLost
<1> QED BY <1>5, <1>6, <1>7 DEF Links

\* A tracker thread that closes its socket closes its own connection.
LEMMA LinksClose ==
    ASSUME Types, Control, Links, NEW s \in Slots, trk_close(s)
    PROVE  Links'
<1>1. /\ UNCHANGED <<thread, socket, conns, newsocket>>
      /\ thread[s] # 0 /\ socket[s] \in Fds /\ file[socket[s]] = thread[s]
  BY DEF trk_close, Links, SocketIsOwn, Open, tableVars, mainVars
<1>2. \A f \in Fds : file'[f] = IF f = socket[s] THEN 0 ELSE file[f]
  BY DEF trk_close, Types, NetTypeOK
<1>3. /\ pc[s] \in {"exit", "unwind"} /\ pc'[s] \in {"closed", "unwound"}
      /\ \A t \in Slots \ {s} : pc'[t] = pc[t]
  BY DEF trk_close, Types, ThreadTypeOK
<1>4. \A t \in Slots : pc[t] # "none" => thread[t] # 0
  BY DEF Control
<1>5. conns \in Nat
  BY ClientRegistryAssumption DEF Types, NetTypeOK
<1>6. Connections'
  <2>1. \A t \in Slots : pc'[t] \in {"closed", "unwound"} => \A f \in Fds : file'[f] # thread'[t]
    <3>1. \A f \in Fds : file'[f] # thread[s]
      BY <1>1, <1>2 DEF Links, Connections
    <3> QED BY <1>1, <1>2, <1>3, <1>4, <3>1 DEF Links, Connections
  <2>2. newsocket # NoFd => newsocket \in Fds /\ newsocket # socket[s]
    BY <1>1 DEF Links, Connections, Types, NetTypeOK
  <2> QED BY <1>1, <1>2, <1>5, <2>1, <2>2 DEF Links, Connections
<1>7. SocketIsOwn'
  <2>1. ASSUME NEW t \in Slots, Open(t)' PROVE t # s /\ Open(t) /\ socket[t] # socket[s]
    <3>1. t # s /\ Open(t)
      BY <1>3, <2>1 DEF Open
    <3> QED BY <1>1, <3>1 DEF Links, SocketIsOwn, Connections
  <2> QED BY <1>1, <1>2, <2>1 DEF Links, SocketIsOwn
<1>8. NoDescriptorLost'
  BY <1>1, <1>2 DEF Links, NoDescriptorLost
<1> QED BY <1>6, <1>7, <1>8 DEF Links

\* Clearing a slot whose connection is closed, before or in the same step.
LEMMA LinksClear ==
    ASSUME Types, Control, Links, NEW s \in Slots, trk_clear(s) \/ CmdExit(s)
    PROVE  Links'
<1>1. UNCHANGED <<conns, newsocket>> /\ thread[s] # 0
  BY DEF trk_clear, CmdExit, ClearSlot, Control
<1>2. \A t \in Slots : /\ thread'[t] = IF t = s THEN 0 ELSE thread[t]
                       /\ socket'[t] = IF t = s THEN 0 ELSE socket[t]
                       /\ pc'[t] = IF t = s THEN "none" ELSE pc[t]
  BY DEF trk_clear, CmdExit, ClearSlot, Types, TableTypeOK, ThreadTypeOK
<1>3. /\ \A f \in Fds : file'[f] = IF file[f] = thread[s] THEN 0 ELSE file[f]
      /\ \A f \in Fds : file[f] = thread[s] => f = socket[s]
  <2>1. CASE trk_clear(s)
    BY <2>1 DEF trk_clear, Links, Connections
  <2>2. CASE CmdExit(s)
    <3>1. socket[s] \in Fds /\ file[socket[s]] = thread[s]
      BY <2>2 DEF CmdExit, Links, SocketIsOwn, Open
    <3> QED BY <1>1, <2>2, <3>1 DEF CmdExit, Types, NetTypeOK, Links, Connections
  <2> QED BY <2>1, <2>2
<1>4. \A t \in Slots : pc[t] # "none" => thread[t] # 0
  BY DEF Control
<1>5. conns \in Nat
  BY ClientRegistryAssumption DEF Types, NetTypeOK
<1>6. Connections'
  <2>1. \A t \in Slots : pc'[t] \in {"closed", "unwound"} => \A f \in Fds : file'[f] # thread'[t]
    BY <1>2, <1>3, <1>4 DEF Links, Connections
  <2>2. newsocket # NoFd => newsocket \in Fds
    BY DEF Types, NetTypeOK
  <2> QED BY <1>1, <1>2, <1>3, <1>5, <2>1, <2>2 DEF Links, Connections
<1>7. SocketIsOwn'
  BY <1>1, <1>2, <1>3 DEF Links, SocketIsOwn, Connections, Open
<1>8. NoDescriptorLost'
  BY <1>1, <1>2, <1>3 DEF Links, NoDescriptorLost
<1> QED BY <1>6, <1>7, <1>8 DEF Links

\* Every step keeps connections, slots and descriptors together.
LEMMA LinksStep == Types /\ Control /\ Links /\ [Next]_vars => Links'
<1> SUFFICES ASSUME Types, Control, Links, [Next]_vars PROVE Links'
  OBVIOUS
<1>1. CASE UNCHANGED vars
  BY <1>1, LinksFrame DEF vars, threadVars, tableVars, mainVars, Open
<1>2. ASSUME NEW s \in Slots, Inner(s) PROVE Links'
  BY <1>2, InnerFrame, LinksFrame
<1> QED BY <1>1, <1>2, StepKinds, LinksAccept, LinksAdd, LinksReject, LinksClose, LinksClear

-----------------------------------------------------------------------------
(* Counting                                                                *)

InUse == {s \in Slots : thread[s] # 0}

\* The slots in use are finitely many, at most the size of the table.
LEMMA InUseFinite == IsFiniteSet(InUse) /\ Cardinality(InUse) \in 0..MaxClients
<1>1. IsFiniteSet(Slots) /\ Cardinality(Slots) = MaxClients
  BY FS_Interval, ClientRegistryAssumption DEF Slots
<1>2. InUse \in SUBSET Slots
  BY DEF InUse
<1>3. IsFiniteSet(InUse) /\ Cardinality(InUse) <= MaxClients
  BY <1>1, <1>2, FS_Subset
<1> QED BY <1>3, FS_CardinalityType, ClientRegistryAssumption

\* Every step keeps the number of clients equal to the number of slots in use.
LEMMA CountStep == Types /\ Control /\ Connections /\ CountIsExact /\ [Next]_vars => CountIsExact'
<1> SUFFICES ASSUME Types, Control, Connections, CountIsExact, [Next]_vars PROVE CountIsExact'
  OBVIOUS
<1>1. CASE UNCHANGED <<thread, num_clients>>
  BY <1>1 DEF CountIsExact
<1>2. CASE AddClient
  <2>1. PICK s \in Slots : thread[s] = 0 /\ Fill(s)
    BY <1>2 DEF AddClient
  <2>2. InUse' = InUse \cup {s} /\ s \notin InUse
    BY <2>1 DEF Fill, InUse, Types, TableTypeOK, Connections
  <2>3. num_clients' = num_clients + 1
    BY <2>1 DEF Fill
  <2> QED BY <2>2, <2>3, InUseFinite, FS_AddElement DEF CountIsExact, InUse
<1>3. ASSUME NEW s \in Slots, trk_clear(s) \/ CmdExit(s) PROVE CountIsExact'
  <2>1. ClearSlot(s, 1) /\ thread[s] # 0
    BY <1>3 DEF trk_clear, CmdExit, Control
  <2>2. InUse' = InUse \ {s} /\ s \in InUse
    BY <2>1 DEF ClearSlot, InUse, Types, TableTypeOK
  <2>3. num_clients' = num_clients - 1
    BY <2>1 DEF ClearSlot
  <2> QED BY <2>2, <2>3, InUseFinite, FS_RemoveElement DEF CountIsExact, InUse
<1>4. CASE \/ \E p \in Peers : accept(p)
           \/ RejectClient
           \/ \E s \in Slots : trk_close(s)
           \/ UNCHANGED vars
  BY <1>1, <1>4 DEF accept, RejectClient, Reject, trk_close, vars, tableVars
<1>5. ASSUME NEW s \in Slots, Inner(s) PROVE CountIsExact'
  BY <1>1, <1>5, InnerFrame
<1> QED BY <1>2, <1>3, <1>4, <1>5, StepKinds

-----------------------------------------------------------------------------
(* The invariant and what follows from it                                  *)

RegistryInv == Types /\ Control /\ Links /\ CountIsExact

\* The table is empty when the daemon starts.
LEMMA RegistryInit == Init => RegistryInv
<1> SUFFICES ASSUME Init PROVE RegistryInv
  OBVIOUS
<1>1. TableTypeOK
  BY TargetTypes, ZeroConn DEF Init, TableTypeOK, Targets
<1>2. ThreadTypeOK /\ FateTypeOK
  BY ClientRegistryAssumption DEF Init, ThreadTypeOK, FateTypeOK, Pcs
<1>3. NetTypeOK
  BY PeerTypes, ZeroConn DEF Init, NetTypeOK
<1>4. Control /\ SocketIsOwn /\ NoDescriptorLost
  BY DEF Init, Control, SocketIsOwn, NoDescriptorLost, Open
<1>5. Connections
  BY DEF Init, Connections
<1>6. CountIsExact
  <2>1. InUse = {}
    BY DEF Init, InUse
  <2> QED BY <2>1, FS_EmptySet DEF Init, CountIsExact, InUse
<1> QED BY <1>1, <1>2, <1>3, <1>4, <1>5, <1>6 DEF RegistryInv, Types, Links

\* The invariant behind the theorems.
LEMMA RegistryInvariant == Spec => []RegistryInv
<1>1. RegistryInv /\ [Next]_vars => RegistryInv'
  BY TypeStep, ControlStep, LinksStep, CountStep DEF RegistryInv, Links
<1> QED BY <1>1, RegistryInit, PTL DEF Spec

\* The type invariant of the client table: num_clients stays within its bounds.
THEOREM TypeCorrect == Spec => []TypeOK
<1>1. RegistryInv => TypeOK
  BY InUseFinite DEF RegistryInv, Types, TypeOK, CountIsExact, InUse
<1> QED BY <1>1, RegistryInvariant, PTL

\* num_clients counts the slots in use, however threads end.
THEOREM CountExact == Spec => []CountIsExact
<1>1. RegistryInv => CountIsExact
  BY DEF RegistryInv
<1> QED BY <1>1, RegistryInvariant, PTL

\* Although a tracker thread closes its socket outside socks_mutex, every thread reads,
\* writes and closes its own connection.
THEOREM SocketsAreOwn == Spec => []SocketIsOwn
<1>1. RegistryInv => SocketIsOwn
  BY DEF RegistryInv, Links
<1> QED BY <1>1, RegistryInvariant, PTL

\* No descriptor leaks: an open one belongs to a slot, or was accepted a moment ago.
THEOREM DescriptorsAreKept == Spec => []NoDescriptorLost
<1>1. RegistryInv => NoDescriptorLost
  BY DEF RegistryInv, Links
<1> QED BY <1>1, RegistryInvariant, PTL

\* No slot changes hands while its thread can still use it.
THEOREM SlotsAreHandedOver == Spec => SlotHandedOver
<1> DEFINE HandedOver(s) ==
      \/ thread[s] = 0 /\ pc[s] = "none" /\ socket'[s] = newsocket
      \/ thread'[s] = 0 /\ pc[s] \in {"run", "closed", "unwound"} /\ pc'[s] = "none"
<1>1. ASSUME RegistryInv, [Next]_vars
      PROVE  \A s \in Slots : thread'[s] # thread[s] => HandedOver(s)
  <2> USE DEF RegistryInv, Types, TableTypeOK, ThreadTypeOK
  <2>1. CASE AddClient
    <3>1. PICK s \in Slots : thread[s] = 0 /\ Fill(s)
      BY <2>1 DEF AddClient
    <3> QED BY <1>1, <3>1 DEF Fill, Control
  <2>2. ASSUME NEW s \in Slots, trk_clear(s) \/ CmdExit(s)
        PROVE  \A t \in Slots : thread'[t] # thread[t] => HandedOver(t)
    BY <1>1, <2>2 DEF trk_clear, CmdExit, ClearSlot
  <2>3. CASE UNCHANGED thread
    BY <2>3
  <2>4. ASSUME NEW s \in Slots, Inner(s) PROVE UNCHANGED thread
    BY <1>1, <2>4, InnerFrame
  <2> QED
    BY <1>1, <2>1, <2>2, <2>3, <2>4, StepKinds
       DEF accept, RejectClient, Reject, trk_close, vars, tableVars
<1> QED BY <1>1, RegistryInvariant, PTL DEF Spec, SlotHandedOver
=============================================================================

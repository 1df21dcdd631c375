------------------------------- MODULE Daemon -------------------------------
(***************************************************************************)
(* Life of the daemon (src/src/g7ctrl.c, lockfile.c, socklistener.c,       *)
(* sighandling.c): how an instance starts, serves, is stopped and leaves,  *)
(* and what several instances started at the same time or one after the    *)
(* other do to the files and ports they share.                             *)
(***************************************************************************)
EXTENDS Integers, Sequences, FiniteSets

CONSTANTS Procs,       \* instances of the program that are started
          NoProc,
          Partial,     \* contents of a cache file that is being written
          MaxArrivals  \* bound: clients that connect in a behaviour

ASSUME DaemonAssumption ==
    /\ IsFiniteSet(Procs)
    /\ NoProc \notin Procs
    /\ Partial \notin Procs \cup {NoProc}
    /\ MaxArrivals \in Nat

\* Started without -d; with -d; with -d and a pid file on the command line.
Modes == {"plain", "daemon", "pidarg"}

\* The files saved when the daemon is stopped, in the order of main().
Files  == <<"address", "minimap", "stat">>
Inodes == 1..Cardinality(Procs)

VARIABLES
    pc,       \* where each instance is in main()
    mode,     \* its command line
    fd,       \* the lock file it has opened, 0 if none
    signal,   \* received_signal
    next,     \* the next of Files to be saved
    failed,   \* the files it could not save
    pidfile,  \* the lock file that has the name, 0 if there is none
    inodes,   \* lock files created so far
    text,     \* the instances whose pid can be read in each lock file
    lock,     \* who has the fcntl lock on each lock file
    cmdport,  \* who listens on the command port
    devport,  \* who listens on the tracker port
    disk,     \* whose data each cache file holds
    waiting,  \* 1 if a client waits to be accepted
    arrivals, \* clients so far
    alone     \* history: 1 if no two instances ever were alive at the same time

procVars == <<mode, fd, signal, next, failed>>
lockVars == <<pidfile, inodes, text, lock>>
portVars == <<cmdport, devport>>
netVars  == <<waiting, arrivals>>
vars == <<pc, procVars, lockVars, portVars, disk, netVars, alone>>

Init ==
    /\ pc = [p \in Procs |-> "none"]
    /\ mode \in [Procs -> Modes]
    /\ fd = [p \in Procs |-> 0]
    /\ signal = [p \in Procs |-> 0]
    /\ next = [p \in Procs |-> 1]
    /\ failed = [p \in Procs |-> {}]
    /\ pidfile = 0
    /\ inodes = 0
    /\ text = [i \in Inodes |-> {}]
    /\ lock = [i \in Inodes |-> NoProc]
    /\ cmdport = NoProc
    /\ devport = NoProc
    /\ disk = [k \in DOMAIN Files |-> NoProc]
    /\ waiting = 0
    /\ arrivals = 0
    /\ alone = 1

Alive(p) == pc[p] \notin {"none", "gone"}

Go(p, from, to) == pc[p] = from /\ pc' = [pc EXCEPT ![p] = to]

-----------------------------------------------------------------------------
(* Starting: main() up to startupsrv()                                     *)

\* An instance is started and has installed its exit handler.
Boot(p) ==
    /\ Go(p, "none", "boot")
    /\ alone' = IF \E q \in Procs : Alive(q) THEN 0 ELSE alone
    /\ UNCHANGED <<procVars, lockVars, portVars, disk, netVars>>

\* get_lockfile is for daemons only.
SkipLockfile(p) ==
    /\ mode[p] = "plain"
    /\ Go(p, "boot", "start")
    /\ UNCHANGED <<procVars, lockVars, portVars, disk, netVars, alone>>

\* open() with O_CREAT; if it fails the instance leaves with _exit.
OpenLockfile(p) ==
    /\ mode[p] # "plain"
    /\ \/ /\ Go(p, "boot", "lock")
          /\ pidfile' = IF pidfile = 0 THEN inodes + 1 ELSE pidfile
          /\ inodes' = IF pidfile = 0 THEN inodes + 1 ELSE inodes
          /\ fd' = [fd EXCEPT ![p] = pidfile']
       \/ /\ Go(p, "boot", "exit")
          /\ UNCHANGED <<pidfile, inodes, fd>>
    /\ UNCHANGED <<text, lock, mode, signal, next, failed, portVars, disk, netVars, alone>>

\* fcntl(F_SETLK) and ftruncate to the text `kept`; an instance that finds the file
\* locked leaves with _exit.
LockAnd(p, held, kept) ==
    /\ \/ /\ held = NoProc
          /\ Go(p, "lock", "write")
          /\ lock' = [lock EXCEPT ![fd[p]] = p]
          /\ text' = [text EXCEPT ![fd[p]] = kept]
       \/ /\ held # NoProc
          /\ Go(p, "lock", "exit")
          /\ UNCHANGED <<lock, text>>
    /\ UNCHANGED <<pidfile, inodes, procVars, portVars, disk, netVars, alone>>

\* Mutations of TryLock: the lock is not looked at; the file is not truncated.
LockIgnored(p) == pc[p] = "lock" /\ LockAnd(p, NoProc, {})
NotTruncated(p) == pc[p] = "lock" /\ LockAnd(p, lock[fd[p]], text[fd[p]])

TryLock(p) == pc[p] = "lock" /\ LockAnd(p, lock[fd[p]], {})

\* The pid is written; if that fails the instance leaves with _exit.
WritePid(p) ==
    /\ \/ /\ Go(p, "write", "unlock")
          /\ text' = [text EXCEPT ![fd[p]] = @ \cup {p}]
       \/ Go(p, "write", "exit") /\ UNCHANGED text
    /\ UNCHANGED <<pidfile, inodes, lock, procVars, portVars, disk, netVars, alone>>

\* get_lockfile closes the file, and that gives the lock up.
CloseLockfile(p) ==
    /\ Go(p, "unlock", "start")
    /\ lock' = [lock EXCEPT ![fd[p]] = NoProc]
    /\ fd' = [fd EXCEPT ![p] = 0]
    /\ UNCHANGED <<pidfile, inodes, text, mode, signal, next, failed, portVars, disk, netVars, alone>>

\* Settings, directories, change of user, presets; then the signal thread is started
\* and the caches are read.
SetupSignals(p) ==
    /\ Go(p, "start", "bindcmd")
    /\ UNCHANGED <<procVars, lockVars, portVars, disk, netVars, alone>>

\* setup_listening_socket: a port that is taken ends the instance through exit().
BindCmd(p) ==
    /\ \/ cmdport = NoProc /\ cmdport' = p /\ Go(p, "bindcmd", "binddev")
       \/ cmdport # NoProc /\ UNCHANGED cmdport /\ Go(p, "bindcmd", "unlink")
    /\ UNCHANGED <<procVars, lockVars, devport, disk, netVars, alone>>

BindAnd(p, owner, sig) ==
    /\ \/ owner = NoProc /\ devport' = p /\ Go(p, "binddev", "serve")
       \/ owner # NoProc /\ UNCHANGED devport /\ Go(p, "binddev", "unlink")
    /\ signal' = [signal EXCEPT ![p] = sig]
    /\ UNCHANGED <<mode, fd, next, failed, lockVars, cmdport, disk, netVars, alone>>

\* Mutations of BindDev: the result of bind() is not looked at; received_signal is
\* initialised late.
BindIgnored(p) == BindAnd(p, NoProc, signal[p])
SignalReset(p) == BindAnd(p, devport, 0)

BindDev(p) == BindAnd(p, devport, signal[p])

-----------------------------------------------------------------------------
(* Serving and stopping                                                    *)

\* A client connects to the instance that listens.
Arrive ==
    /\ waiting = 0 /\ arrivals < MaxArrivals
    /\ \E p \in Procs : pc[p] = "serve"
    /\ waiting' = 1
    /\ arrivals' = arrivals + 1
    /\ UNCHANGED <<pc, procVars, lockVars, portVars, disk, alone>>

\* select() reports it and it is accepted, or accept() fails and exit() is called.
AcceptClient(p) ==
    /\ waiting = 1
    /\ waiting' = 0
    /\ Go(p, "serve", "serve") \/ Go(p, "serve", "unlink")
    /\ UNCHANGED <<procVars, lockVars, portVars, disk, arrivals, alone>>

\* SIGTERM or SIGINT: sighand_thread notes it.
Signal(p) ==
    /\ pc[p] \in {"bindcmd", "binddev", "serve", "save", "unlink"}
    /\ signal' = [signal EXCEPT ![p] = 1]
    /\ UNCHANGED <<pc, mode, fd, next, failed, lockVars, portVars, disk, netVars, alone>>

LeaveFreeing(p, port) ==
    /\ signal[p] = 1 /\ waiting = 0
    /\ Go(p, "serve", "save")
    /\ cmdport' = NoProc
    /\ devport' = port
    /\ UNCHANGED <<procVars, lockVars, disk, netVars, alone>>

\* Mutation of LeaveLoop: both listening sockets are closed.
CloseBoth(p) == LeaveFreeing(p, NoProc)

\* received_signal is looked at only when select() timed out.  Then the command
\* socket is closed; the tracker socket stays open until the instance is gone.
LeaveLoop(p) == LeaveFreeing(p, devport)

\* A cache file is moved to its backup and created again; when that fails the next
\* one is tried.
CreateFile(p) ==
    /\ next[p] \in DOMAIN Files
    /\ \/ /\ Go(p, "save", "fill")
          /\ disk' = [disk EXCEPT ![next[p]] = Partial]
          /\ UNCHANGED <<next, failed>>
       \/ /\ Go(p, "save", "save")
          /\ \E old \in {NoProc, disk[next[p]]} : disk' = [disk EXCEPT ![next[p]] = old]
          /\ failed' = [failed EXCEPT ![p] = @ \cup {next[p]}]
          /\ next' = [next EXCEPT ![p] = @ + 1]
    /\ UNCHANGED <<mode, fd, signal, lockVars, portVars, netVars, alone>>

FillStep(p, k) ==
    /\ Go(p, "fill", "save")
    /\ disk' = [disk EXCEPT ![next[p]] = p]
    /\ next' = [next EXCEPT ![p] = @ + k]
    /\ UNCHANGED <<mode, fd, signal, failed, lockVars, portVars, netVars, alone>>

\* Mutation of FillFile: a file is skipped.
FillSkips(p) == FillStep(p, 2)

FillFile(p) == FillStep(p, 1)

SaveEnds(p) ==
    /\ next[p] = Len(Files) + 1
    /\ Go(p, "save", "unlink")
    /\ UNCHANGED <<procVars, lockVars, portVars, disk, netVars, alone>>

\* exit() in another thread: SIGHUP finds no usable configuration, the log file cannot
\* be opened, memory runs out.  The same errors during the start, where the name of the
\* lock file is known only if it is on the command line.
FatalError(p) ==
    /\ \/ mode[p] # "daemon" /\ Go(p, "boot", "unlink")
       \/ mode[p] = "daemon" /\ Go(p, "boot", "exit")
       \/ \E from \in {"start", "bindcmd", "binddev", "serve", "save", "fill"} :
             Go(p, from, "unlink")
    /\ UNCHANGED <<procVars, lockVars, portVars, disk, netVars, alone>>

\* delete_lockfile: whatever file has the name is removed, if the user the daemon runs
\* as may do so.
delete_lockfile(p) ==
    /\ Go(p, "unlink", "exit")
    /\ \/ UNCHANGED pidfile
       \/ mode[p] # "plain" /\ pidfile' = 0
    /\ UNCHANGED <<inodes, text, lock, procVars, portVars, disk, netVars, alone>>

\* The kernel takes back what the instance had.
Vanish(p) ==
    /\ pc' = [pc EXCEPT ![p] = "gone"]
    /\ fd' = [fd EXCEPT ![p] = 0]
    /\ lock' = [i \in Inodes |-> IF lock[i] = p THEN NoProc ELSE lock[i]]
    /\ cmdport' = IF cmdport = p THEN NoProc ELSE cmdport
    /\ devport' = IF devport = p THEN NoProc ELSE devport
    /\ waiting' = IF devport = p THEN 0 ELSE waiting
    /\ signal' = [signal EXCEPT ![p] = 0]
    /\ next' = [next EXCEPT ![p] = 1]
    /\ failed' = [failed EXCEPT ![p] = {}]
    /\ UNCHANGED <<pidfile, inodes, text, mode, disk, arrivals, alone>>

Exit(p) == pc[p] = "exit" /\ Vanish(p)

\* A crash, SIGKILL, or SIGTERM before the signal thread was there.
Crash(p) == Alive(p) /\ Vanish(p)

-----------------------------------------------------------------------------
Run(p) ==
    \/ SkipLockfile(p) \/ OpenLockfile(p) \/ TryLock(p) \/ WritePid(p) \/ CloseLockfile(p)
    \/ SetupSignals(p) \/ BindCmd(p) \/ BindDev(p)
    \/ AcceptClient(p) \/ LeaveLoop(p)
    \/ CreateFile(p) \/ FillFile(p) \/ SaveEnds(p)
    \/ delete_lockfile(p) \/ Exit(p)

Next ==
    \/ \E p \in Procs : Boot(p) \/ Run(p) \/ Signal(p) \/ FatalError(p) \/ Crash(p)
    \/ Arrive

Spec == Init /\ [][Next]_vars

\* The main thread of an instance keeps running.
FairSpec == Spec /\ \A p \in Procs : WF_vars(Run(p))

-----------------------------------------------------------------------------
(* Properties                                                              *)

Pcs == {"none", "boot", "lock", "write", "unlock", "start", "bindcmd", "binddev", "serve",
        "save", "fill", "unlink", "exit", "gone"}

ProcTypeOK ==
    /\ pc \in [Procs -> Pcs]
    /\ mode \in [Procs -> Modes]
    /\ fd \in [Procs -> Inodes \cup {0}]
    /\ signal \in [Procs -> {0, 1}]
    /\ next \in [Procs -> 1..(Len(Files) + 1)]
    /\ failed \in [Procs -> SUBSET (DOMAIN Files)]
LockTypeOK ==
    /\ pidfile \in Inodes \cup {0}
    /\ inodes \in Inodes \cup {0}
    /\ text \in [Inodes -> SUBSET Procs]
    /\ lock \in [Inodes -> Procs \cup {NoProc}]
ShareTypeOK ==
    /\ cmdport \in Procs \cup {NoProc} /\ devport \in Procs \cup {NoProc}
    /\ disk \in [DOMAIN Files -> Procs \cup {NoProc, Partial}]
    /\ waiting \in {0, 1} /\ arrivals \in 0..MaxArrivals /\ alone \in {0, 1}

\* Every variable has its type.
TypeOK == ProcTypeOK /\ LockTypeOK /\ ShareTypeOK

\* The instances that work with the clients or with the cache files.
Working(p) == pc[p] \in {"serve", "save", "fill"}

\* However many instances are started, and although none of them holds the lock any
\* more: never do two of them serve clients, or one serve while another one saves.
OneServer == \A p, q \in Procs : Working(p) /\ Working(q) => p = q

\* A lock file never holds the pid of two instances, however they race for it.
PidfileIsWhole == \A i \in Inodes : Cardinality(text[i]) <= 1

\* A daemon that never met another instance can be stopped through its lock file: the
\* file is there and holds its pid, whatever instances before it left behind.
PidfileNamesServer ==
    \A p \in Procs :
        alone = 1 /\ Working(p) /\ mode[p] # "plain" => pidfile # 0 /\ text[pidfile] = {p}

\* What a stopped daemon saved is still there while it saves the rest: nobody else
\* writes the cache files meanwhile.
SavesSurvive ==
    \A p \in Procs : pc[p] \in {"save", "fill"} =>
        \A k \in 1..(next[p] - 1) : disk[k] = p \/ k \in failed[p]

\* What makes these inductive.  Each instance creates at most one lock file, when it
\* leaves "boot".
Opened == {p \in Procs : pc[p] \notin {"none", "boot"}}
OpenCount == inodes <= Cardinality(Opened)

\* The lock is held, and the file is empty, while the pid is being written.
Locking ==
    \A p \in Procs :
        /\ pc[p] \in {"lock", "write", "unlock"} => fd[p] \in Inodes
        /\ pc[p] \in {"write", "unlock"} => lock[fd[p]] = p
        /\ pc[p] = "write" => text[fd[p]] = {}

\* The tracker port is what keeps instances apart.
PortHeld == \A p \in Procs : Working(p) => devport = p

SaveOrder ==
    \A p \in Procs :
        /\ pc[p] \notin {"save", "fill", "unlink", "exit"} => next[p] = 1
        /\ pc[p] = "fill" => next[p] \in DOMAIN Files

\* An instance that has met no other finds its own lock file under the name.
Named ==
    alone = 1 =>
        /\ \A p, q \in Procs : Alive(p) /\ Alive(q) => p = q
        /\ \A p \in Procs : pc[p] \in {"lock", "write", "unlock"} => fd[p] = pidfile
        /\ \A p \in Procs :
             /\ mode[p] # "plain"
             /\ Working(p) \/ pc[p] \in {"unlock", "start", "bindcmd", "binddev"}
             => pidfile # 0 /\ text[pidfile] = {p}

\* A daemon that is told to stop does so, once clients stop arriving.
StopIsObeyed == \A p \in Procs : signal[p] = 1 ~> pc[p] = "gone"

\* g7ctrl.c: "Setup lockfile so that we have only one running instance".
OneInstance ==
    \A p, q \in Procs :
        /\ mode[p] # "plain" /\ pc[p] \in {"start", "bindcmd", "binddev", "serve"}
        /\ mode[q] # "plain" /\ pc[q] \in {"start", "bindcmd", "binddev", "serve"}
        => p = q
=============================================================================

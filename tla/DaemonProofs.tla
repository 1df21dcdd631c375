---------------------------- MODULE DaemonProofs ----------------------------
(***************************************************************************)
(* The safety properties of the daemon's life, for every number of         *)
(* instances.                                                              *)
(***************************************************************************)
EXTENDS Daemon, FiniteSetTheorems, TLAPS

\* The saved files are numbered 1 to 3.
LEMMA FilesFacts == Len(Files) = 3 /\ DOMAIN Files = 1..3
BY DEF Files

\* The number of instances is a number, and 0 is not an inode.
LEMMA InodeFacts ==
    /\ Cardinality(Procs) \in Nat
    /\ Inodes = 1..Cardinality(Procs)
    /\ 0 \notin Inodes
BY DaemonAssumption, FS_CardinalityType DEF Inodes

\* Every lock file has the pid of one instance, or is empty.
Single == \A i \in Inodes : \A p, q \in text[i] : p = q

DaemonInv ==
    /\ TypeOK
    /\ OpenCount
    /\ Locking
    /\ Single
    /\ PortHeld
    /\ SaveOrder
    /\ SavesSurvive
    /\ Named

\* Every step is one of these.
LEMMA StepKinds ==
    ASSUME [Next]_vars
    PROVE  \/ \E p \in Procs :
                \/ Boot(p) \/ SkipLockfile(p) \/ OpenLockfile(p) \/ TryLock(p) \/ WritePid(p)
                \/ CloseLockfile(p) \/ SetupSignals(p) \/ BindCmd(p) \/ BindDev(p)
                \/ AcceptClient(p) \/ LeaveLoop(p) \/ CreateFile(p) \/ FillFile(p)
                \/ SaveEnds(p) \/ delete_lockfile(p) \/ Signal(p) \/ FatalError(p)
                \/ (Alive(p) /\ Vanish(p))
           \/ Arrive
           \/ UNCHANGED vars
BY DEF Next, Run, Exit, Crash, Alive

-----------------------------------------------------------------------------
(* Types                                                                   *)

\* The steps that change, of what an instance keeps for itself, at most where it is.
Plain(p) ==
    \/ Boot(p) \/ SkipLockfile(p) \/ SetupSignals(p) \/ BindCmd(p) \/ AcceptClient(p)
    \/ LeaveLoop(p) \/ SaveEnds(p) \/ delete_lockfile(p) \/ FatalError(p)

\* They keep the types.
LEMMA PlainTypes ==
    ASSUME TypeOK, NEW p \in Procs, Plain(p)
    PROVE  TypeOK'
<1> USE DEF TypeOK, procVars, lockVars, portVars, netVars, Go
<1>1. ProcTypeOK'
  BY DEF Plain, Boot, SkipLockfile, SetupSignals, BindCmd, AcceptClient, LeaveLoop,
         LeaveFreeing, SaveEnds, delete_lockfile, FatalError, ProcTypeOK, Pcs
<1>2. LockTypeOK'
  BY DEF Plain, Boot, SkipLockfile, SetupSignals, BindCmd, AcceptClient, LeaveLoop,
         LeaveFreeing, SaveEnds, delete_lockfile, FatalError, LockTypeOK
<1>3. ShareTypeOK'
  BY DEF Plain, Boot, SkipLockfile, SetupSignals, BindCmd, AcceptClient, LeaveLoop,
         LeaveFreeing, SaveEnds, delete_lockfile, FatalError, ShareTypeOK
<1> QED BY <1>1, <1>2, <1>3

\* There is room for the lock file that an instance creates.
LEMMA RoomForLockfile ==
    ASSUME TypeOK, OpenCount, NEW p \in Procs, pc[p] = "boot"
    PROVE  /\ inodes + 1 \in Inodes
           /\ IsFiniteSet(Opened) /\ Cardinality(Opened) \in Nat
           /\ Cardinality(Opened \cup {p}) = Cardinality(Opened) + 1
<1>1. Opened \subseteq Procs /\ p \notin Opened
  BY DEF Opened
<1>2. IsFiniteSet(Opened) /\ Cardinality(Opened) \in Nat
  BY <1>1, DaemonAssumption, FS_Subset, FS_CardinalityType
<1>3. Cardinality(Opened \cup {p}) = Cardinality(Opened) + 1
  BY <1>1, <1>2, FS_AddElement
<1>4. Cardinality(Opened \cup {p}) <= Cardinality(Procs)
  BY <1>1, DaemonAssumption, FS_Subset
<1>5. inodes + 1 \in Inodes
  BY <1>2, <1>3, <1>4, InodeFacts DEF OpenCount, TypeOK, LockTypeOK
<1> QED BY <1>2, <1>3, <1>5

\* Every step keeps the types.
LEMMA TypeStep ==
    ASSUME TypeOK, OpenCount, Locking, SaveOrder, [Next]_vars
    PROVE  TypeOK'
<1> USE DEF TypeOK, procVars, lockVars, portVars, netVars, Go
<1>1. ASSUME NEW p \in Procs, Plain(p) PROVE TypeOK'
  BY <1>1, PlainTypes
<1>2. ASSUME NEW p \in Procs, OpenLockfile(p) PROVE TypeOK'
  <2>1. ShareTypeOK'
    BY <1>2 DEF OpenLockfile, ShareTypeOK
  <2>2. inodes + 1 \in Inodes
    BY <1>2, RoomForLockfile DEF OpenLockfile
  <2>3. LockTypeOK'
    BY <1>2, <2>2 DEF OpenLockfile, LockTypeOK
  <2>4. pidfile' \in Inodes \cup {0}
    BY <2>3 DEF LockTypeOK
  <2>5. fd' \in [Procs -> Inodes \cup {0}]
    BY <1>2, <2>4 DEF OpenLockfile, ProcTypeOK
  <2>6. ProcTypeOK'
    BY <1>2, <2>5 DEF OpenLockfile, ProcTypeOK, Pcs
  <2> QED BY <2>1, <2>3, <2>6
<1>3. ASSUME NEW p \in Procs, TryLock(p) \/ WritePid(p) \/ CloseLockfile(p) PROVE TypeOK'
  <2>1. ShareTypeOK'
    BY <1>3 DEF TryLock, LockAnd, WritePid, CloseLockfile, ShareTypeOK
  <2>2. LockTypeOK'
    BY <1>3 DEF TryLock, LockAnd, WritePid, CloseLockfile, LockTypeOK
  <2>3. ProcTypeOK'
    BY <1>3 DEF TryLock, LockAnd, WritePid, CloseLockfile, ProcTypeOK, Pcs
  <2> QED BY <2>1, <2>2, <2>3
<1>4. ASSUME NEW p \in Procs, BindDev(p) \/ Signal(p) PROVE TypeOK'
  <2>1. ShareTypeOK' /\ LockTypeOK'
    BY <1>4 DEF BindDev, BindAnd, Signal, ShareTypeOK, LockTypeOK
  <2>2. ProcTypeOK'
    BY <1>4 DEF BindDev, BindAnd, Signal, ProcTypeOK, Pcs
  <2> QED BY <2>1, <2>2
<1>5. ASSUME NEW p \in Procs, CreateFile(p) \/ FillFile(p) PROVE TypeOK'
  <2>1. next[p] \in 1..3
    BY <1>5, FilesFacts DEF CreateFile, FillFile, FillStep, SaveOrder
  <2>2. LockTypeOK'
    BY <1>5 DEF CreateFile, FillFile, FillStep, LockTypeOK
  <2>3. ShareTypeOK'
    BY <1>5, <2>1, FilesFacts DEF CreateFile, FillFile, FillStep, ShareTypeOK
  <2>4. ProcTypeOK'
    BY <1>5, <2>1, FilesFacts DEF CreateFile, FillFile, FillStep, ProcTypeOK, Pcs
  <2> QED BY <2>2, <2>3, <2>4
<1>6. ASSUME NEW p \in Procs, Vanish(p) PROVE TypeOK'
  <2>1. ShareTypeOK' /\ LockTypeOK'
    BY <1>6 DEF Vanish, ShareTypeOK, LockTypeOK
  <2>2. ProcTypeOK'
    BY <1>6, FilesFacts DEF Vanish, ProcTypeOK, Pcs
  <2> QED BY <2>1, <2>2
<1>7. CASE Arrive
  BY <1>7, DaemonAssumption DEF Arrive, ProcTypeOK, LockTypeOK, ShareTypeOK
<1>8. CASE UNCHANGED vars
  BY <1>8 DEF vars, ProcTypeOK, LockTypeOK, ShareTypeOK
<1> QED BY <1>1, <1>2, <1>3, <1>4, <1>5, <1>6, <1>7, <1>8, StepKinds DEF Plain

-----------------------------------------------------------------------------
(* Lock files                                                              *)

\* Every step keeps the count of lock files within that of the instances.
LEMMA OpenCountStep ==
    ASSUME TypeOK, OpenCount, [Next]_vars
    PROVE  OpenCount'
<1> USE DEF procVars, lockVars, portVars, netVars, Go
<1>1. Opened \subseteq Procs /\ Opened' \subseteq Procs
  BY DEF Opened
<1>2. /\ IsFiniteSet(Opened) /\ Cardinality(Opened) \in Nat
      /\ IsFiniteSet(Opened') /\ Cardinality(Opened') \in Nat
  BY <1>1, DaemonAssumption, FS_Subset, FS_CardinalityType
<1>3. inodes \in Nat
  BY InodeFacts DEF TypeOK, LockTypeOK
<1>4. ASSUME NEW p \in Procs, OpenLockfile(p) PROVE OpenCount'
  <2>1. pc[p] = "boot" /\ inodes' \in {inodes, inodes + 1}
    BY <1>4 DEF OpenLockfile
  <2>2. Opened' = Opened \cup {p}
    BY <1>4 DEF OpenLockfile, Opened, TypeOK, ProcTypeOK
  <2>3. Cardinality(Opened') = Cardinality(Opened) + 1
    BY <2>1, <2>2, RoomForLockfile
  <2> QED BY <2>1, <2>3, <1>2, <1>3 DEF OpenCount
<1>5. ASSUME ~(\E p \in Procs : OpenLockfile(p)) PROVE OpenCount'
  <2>1. inodes' = inodes
    BY <1>5, StepKinds
       DEF Boot, SkipLockfile, TryLock, LockAnd, WritePid, CloseLockfile, SetupSignals, BindCmd,
           BindDev, BindAnd, AcceptClient, LeaveLoop, LeaveFreeing, CreateFile, FillFile,
           FillStep, SaveEnds, delete_lockfile, Signal, FatalError, Vanish, Arrive, vars
  <2>2. Opened \subseteq Opened'
    BY <1>5, StepKinds
       DEF Boot, SkipLockfile, TryLock, LockAnd, WritePid, CloseLockfile, SetupSignals, BindCmd,
           BindDev, BindAnd, AcceptClient, LeaveLoop, LeaveFreeing, CreateFile, FillFile,
           FillStep, SaveEnds, delete_lockfile, Signal, FatalError, Vanish, Arrive, vars,
           Opened, TypeOK, ProcTypeOK
  <2>3. Cardinality(Opened) <= Cardinality(Opened')
    BY <2>2, <1>2, FS_Subset
  <2> QED BY <2>1, <2>3, <1>2, <1>3 DEF OpenCount
<1> QED BY <1>4, <1>5

\* The steps that leave the lock files, and the instances that work on them, alone.
LockFrame ==
    /\ UNCHANGED <<fd, text, lock>>
    /\ \A p \in Procs : pc'[p] \in {"lock", "write", "unlock"} => pc'[p] = pc[p]

\* All but a few steps do.
LEMMA LockFrames ==
    ASSUME TypeOK, NEW p \in Procs,
           Plain(p) \/ BindDev(p) \/ CreateFile(p) \/ FillFile(p) \/ Signal(p)
    PROVE  LockFrame
<1> USE DEF LockFrame, Plain, procVars, lockVars, portVars, netVars, Go, TypeOK, ProcTypeOK
<1>1. UNCHANGED <<fd, text, lock>>
  BY DEF Boot, SkipLockfile, SetupSignals, BindCmd, AcceptClient, LeaveLoop, LeaveFreeing,
         SaveEnds, delete_lockfile, FatalError, BindDev, BindAnd, CreateFile, FillFile,
         FillStep, Signal
<1>2. \A q \in Procs : pc'[q] \in {"lock", "write", "unlock"} => pc'[q] = pc[q]
  BY DEF Boot, SkipLockfile, SetupSignals, BindCmd, AcceptClient, LeaveLoop, LeaveFreeing,
         SaveEnds, delete_lockfile, FatalError, BindDev, BindAnd, CreateFile, FillFile,
         FillStep, Signal
<1> QED BY <1>1, <1>2

\* Single says the same as the property, without counting.
LEMMA SingleIsWhole ==
    ASSUME TypeOK
    PROVE  Single <=> PidfileIsWhole
<1>1. ASSUME Single, NEW i \in Inodes PROVE Cardinality(text[i]) <= 1
  <2>1. CASE text[i] = {}
    BY <2>1, FS_EmptySet
  <2>2. CASE text[i] # {}
    <3>1. PICK p \in text[i] : TRUE
      BY <2>2
    <3>2. text[i] = {p}
      BY <1>1, <3>1 DEF Single
    <3> QED BY <3>2, FS_Singleton
  <2> QED BY <2>1, <2>2
<1>2. ASSUME PidfileIsWhole, NEW i \in Inodes, NEW p \in text[i], NEW q \in text[i]
      PROVE  p = q
  <2>1. text[i] \subseteq Procs /\ IsFiniteSet(text[i]) /\ Cardinality(text[i]) \in Nat
    BY DaemonAssumption, FS_Subset, FS_CardinalityType DEF TypeOK, LockTypeOK
  <2>2. SUFFICES ASSUME p # q PROVE FALSE
    OBVIOUS
  <2>3. IsFiniteSet({p}) /\ Cardinality({p}) = 1
    BY FS_Singleton
  <2>4. Cardinality({p} \cup {q}) = 2
    <3>1. q \notin {p}
      BY <2>2
    <3>2. Cardinality({p} \cup {q}) = Cardinality({p}) + 1
      BY <3>1, <2>3, FS_AddElement
    <3> QED BY <3>2, <2>3
  <2>5. {p} \cup {q} \subseteq text[i]
    OBVIOUS
  <2>6. Cardinality({p} \cup {q}) <= Cardinality(text[i])
    BY <2>1, <2>5, FS_Subset
  <2> QED BY <2>1, <2>4, <2>6, <1>2 DEF PidfileIsWhole
<1> QED BY <1>1, <1>2 DEF Single, PidfileIsWhole

\* Every step keeps the locks and the texts in order.
LEMMA LockStep ==
    ASSUME TypeOK, OpenCount, Locking, Single, [Next]_vars
    PROVE  Locking' /\ Single'
<1> USE DEF TypeOK, ProcTypeOK, LockTypeOK, procVars, lockVars, portVars, netVars, Go
<1>1. ASSUME LockFrame PROVE Locking' /\ Single'
  BY <1>1 DEF LockFrame, Locking, Single
<1>2. ASSUME NEW p \in Procs, OpenLockfile(p) PROVE Locking' /\ Single'
  <2>1. UNCHANGED <<text, lock>>
    BY <1>2 DEF OpenLockfile
  <2>2. inodes + 1 \in Inodes
    BY <1>2, RoomForLockfile DEF OpenLockfile
  <2>3. fd'[p] \in Inodes \/ pc'[p] = "exit"
    BY <1>2, <2>2 DEF OpenLockfile
  <2>4. pc'[p] \in {"lock", "exit"} /\ \A q \in Procs : q # p => pc'[q] = pc[q] /\ fd'[q] = fd[q]
    BY <1>2 DEF OpenLockfile
  <2>5. Locking'
    BY <2>1, <2>3, <2>4 DEF Locking
  <2> QED BY <2>1, <2>5 DEF Single
<1>3. ASSUME NEW p \in Procs, TryLock(p) PROVE Locking' /\ Single'
  <2>1. Locking'
    <3>1. CASE lock[fd[p]] = NoProc
      <4>1. /\ fd[p] \in Inodes /\ fd' = fd
            /\ pc' = [pc EXCEPT ![p] = "write"]
            /\ lock' = [lock EXCEPT ![fd[p]] = p]
            /\ text' = [text EXCEPT ![fd[p]] = {}]
        BY <1>3, <3>1 DEF TryLock, LockAnd, Locking
      <4>2. \A q \in Procs : pc[q] \in {"write", "unlock"} => fd[q] # fd[p]
        BY <3>1, DaemonAssumption DEF Locking
      <4> QED BY <4>1, <4>2 DEF Locking
    <3>2. CASE lock[fd[p]] # NoProc
      BY <1>3, <3>2 DEF TryLock, LockAnd, Locking
    <3> QED BY <3>1, <3>2
  <2>2. text' = text \/ text' = [text EXCEPT ![fd[p]] = {}]
    BY <1>3 DEF TryLock, LockAnd
  <2>3. Single'
    BY <2>2 DEF Single
  <2> QED BY <2>1, <2>3
<1>4. ASSUME NEW p \in Procs, WritePid(p) PROVE Locking' /\ Single'
  <2>1. fd[p] \in Inodes /\ lock[fd[p]] = p /\ text[fd[p]] = {}
    BY <1>4 DEF WritePid, Locking
  <2>2. Locking'
    BY <1>4, <2>1 DEF WritePid, Locking
  <2>3. Single'
    BY <1>4, <2>1 DEF WritePid, Single
  <2> QED BY <2>2, <2>3
<1>5. ASSUME NEW p \in Procs, CloseLockfile(p) PROVE Locking' /\ Single'
  BY <1>5 DEF CloseLockfile, Locking, Single
<1>6. ASSUME NEW p \in Procs, Vanish(p) PROVE Locking' /\ Single'
  BY <1>6 DEF Vanish, Locking, Single
<1>7. CASE Arrive \/ UNCHANGED vars
  BY <1>7 DEF Arrive, vars, Locking, Single
<1> QED BY <1>1, <1>2, <1>3, <1>4, <1>5, <1>6, <1>7, StepKinds, LockFrames DEF Plain

-----------------------------------------------------------------------------
(* The tracker port and the cache files                                    *)

\* An instance works only after it took the tracker port, and gives it up only when it
\* is gone.
LEMMA PortStep ==
    ASSUME TypeOK, PortHeld, [Next]_vars
    PROVE  PortHeld'
<1> USE DEF TypeOK, ProcTypeOK, procVars, lockVars, portVars, netVars, Go, PortHeld, Working
<1>1. ASSUME NEW p \in Procs, BindDev(p) PROVE PortHeld'
  BY <1>1, DaemonAssumption DEF BindDev, BindAnd
<1>2. ASSUME NEW p \in Procs, Vanish(p) PROVE PortHeld'
  BY <1>2 DEF Vanish
<1>3. ASSUME devport' = devport, \A p \in Procs : Working(p)' => Working(p) PROVE PortHeld'
  BY <1>3
<1>4. ASSUME NEW p \in Procs,
             \/ Plain(p) \/ OpenLockfile(p) \/ TryLock(p) \/ WritePid(p) \/ CloseLockfile(p)
             \/ CreateFile(p) \/ FillFile(p) \/ Signal(p)
      PROVE  devport' = devport /\ \A q \in Procs : Working(q)' => Working(q)
  BY <1>4 DEF Plain, Boot, SkipLockfile, SetupSignals, BindCmd, AcceptClient, LeaveLoop,
              LeaveFreeing, SaveEnds, delete_lockfile, FatalError, OpenLockfile, TryLock,
              LockAnd, WritePid, CloseLockfile, CreateFile, FillFile, FillStep, Signal
<1>5. CASE Arrive \/ UNCHANGED vars
  BY <1>5 DEF Arrive, vars
<1> QED BY <1>1, <1>2, <1>3, <1>4, <1>5, StepKinds DEF Plain

\* The steps that neither save nor end an instance: no file is touched, and only
\* LeaveLoop starts to save.
SaveFrame ==
    /\ UNCHANGED <<disk, next, failed>>
    /\ \A p \in Procs : /\ pc'[p] = "fill" => pc[p] = "fill"
                        /\ pc'[p] = "save" => pc[p] \in {"serve", "save"}
                        /\ pc'[p] \notin {"save", "fill", "unlink", "exit"} =>
                              pc[p] \notin {"save", "fill", "unlink", "exit"}

\* All but the saving itself and the end of an instance are such steps.
LEMMA SaveFrames ==
    ASSUME TypeOK, NEW p \in Procs,
           \/ Plain(p) \/ OpenLockfile(p) \/ TryLock(p) \/ WritePid(p) \/ CloseLockfile(p)
           \/ BindDev(p) \/ Signal(p)
    PROVE  SaveFrame
<1> USE DEF SaveFrame, Plain, procVars, lockVars, portVars, netVars, Go, TypeOK, ProcTypeOK
<1>1. UNCHANGED <<disk, next, failed>>
  BY DEF Boot, SkipLockfile, SetupSignals, BindCmd, AcceptClient, LeaveLoop, LeaveFreeing,
         SaveEnds, delete_lockfile, FatalError, BindDev, BindAnd, Signal, OpenLockfile,
         TryLock, LockAnd, WritePid, CloseLockfile
<1>2. \A q \in Procs : /\ pc'[q] = "fill" => pc[q] = "fill"
                       /\ pc'[q] = "save" => pc[q] \in {"serve", "save"}
                       /\ pc'[q] \notin {"save", "fill", "unlink", "exit"} =>
                             pc[q] \notin {"save", "fill", "unlink", "exit"}
  BY DEF Boot, SkipLockfile, SetupSignals, BindCmd, AcceptClient, LeaveLoop, LeaveFreeing,
         SaveEnds, delete_lockfile, FatalError, BindDev, BindAnd, Signal, OpenLockfile,
         TryLock, LockAnd, WritePid, CloseLockfile
<1> QED BY <1>1, <1>2

\* The files are saved in order, by one instance at a time.
LEMMA SaveStep ==
    ASSUME TypeOK, PortHeld, SaveOrder, SavesSurvive, [Next]_vars
    PROVE  SaveOrder' /\ SavesSurvive'
<1> USE DEF TypeOK, ProcTypeOK, ShareTypeOK, procVars, lockVars, portVars, netVars, Go
<1>1. ASSUME SaveFrame PROVE SaveOrder' /\ SavesSurvive'
  BY <1>1, FilesFacts DEF SaveFrame, SaveOrder, SavesSurvive
<1>2. ASSUME NEW p \in Procs, CreateFile(p) \/ FillFile(p) PROVE SaveOrder' /\ SavesSurvive'
  <2>1. \A q \in Procs : q # p => pc[q] \notin {"save", "fill"}
    BY <1>2 DEF PortHeld, Working, CreateFile, FillFile, FillStep
  <2>2. next[p] \in 1..3
    BY <1>2, FilesFacts DEF CreateFile, FillFile, FillStep, SaveOrder
  <2>3. \A q \in Procs : q # p => pc'[q] = pc[q] /\ next'[q] = next[q]
    BY <1>2 DEF CreateFile, FillFile, FillStep
  <2>4. SaveOrder'
    BY <1>2, <2>2, <2>3, FilesFacts DEF SaveOrder, CreateFile, FillFile, FillStep
  <2>5. \A k \in 1..(next[p] - 1) : disk[k] = p \/ k \in failed[p]
    BY <1>2 DEF SavesSurvive, CreateFile, FillFile, FillStep
  <2>6. \A k \in 1..(next'[p] - 1) : disk'[k] = p \/ k \in failed'[p]
    BY <1>2, <2>2, <2>5, FilesFacts DEF CreateFile, FillFile, FillStep
  <2>7. SavesSurvive'
    BY <2>1, <2>3, <2>6 DEF SavesSurvive
  <2> QED BY <2>4, <2>7
<1>3. ASSUME NEW p \in Procs, Vanish(p) PROVE SaveOrder' /\ SavesSurvive'
  BY <1>3 DEF Vanish, SaveOrder, SavesSurvive
<1>4. CASE Arrive \/ UNCHANGED vars
  BY <1>4 DEF Arrive, vars, SaveOrder, SavesSurvive
<1> QED BY <1>1, <1>2, <1>3, <1>4, StepKinds, SaveFrames DEF Plain

-----------------------------------------------------------------------------
(* The name of the lock file                                               *)

\* The daemon has its pid in the file that has the name.
OwnsName(p) ==
    /\ mode[p] # "plain"
    /\ Working(p) \/ pc[p] \in {"unlock", "start", "bindcmd", "binddev"}

\* The steps that leave the names and the texts alone, and start nothing.
NameFrame ==
    /\ UNCHANGED <<pidfile, text, alone>>
    /\ \A p \in Procs :
         /\ Alive(p)' => Alive(p)
         /\ pc'[p] \in {"lock", "write", "unlock"} => pc'[p] = pc[p] /\ fd'[p] = fd[p]
         /\ OwnsName(p)' => OwnsName(p)

\* Most steps are of this kind.
LEMMA NameFrames ==
    ASSUME TypeOK, NEW p \in Procs,
           \/ SkipLockfile(p) \/ CloseLockfile(p) \/ SetupSignals(p) \/ BindCmd(p) \/ BindDev(p)
           \/ AcceptClient(p) \/ LeaveLoop(p) \/ CreateFile(p) \/ FillFile(p) \/ SaveEnds(p)
           \/ FatalError(p) \/ Signal(p) \/ (Alive(p) /\ Vanish(p))
    PROVE  NameFrame
<1> USE DEF NameFrame, OwnsName, Working, Alive, procVars, lockVars, portVars, netVars, Go, TypeOK,
            ProcTypeOK
<1>1. UNCHANGED <<pidfile, text, alone, mode>>
  BY DEF SkipLockfile, CloseLockfile, SetupSignals, BindCmd, BindDev, BindAnd, AcceptClient,
         LeaveLoop, LeaveFreeing, CreateFile, FillFile, FillStep, SaveEnds, FatalError, Signal,
         Vanish
<1>2. \A q \in Procs : q # p => pc'[q] = pc[q] /\ fd'[q] = fd[q]
  BY DEF SkipLockfile, CloseLockfile, SetupSignals, BindCmd, BindDev, BindAnd, AcceptClient,
         LeaveLoop, LeaveFreeing, CreateFile, FillFile, FillStep, SaveEnds, FatalError, Signal,
         Vanish
<1>3. /\ Alive(p)' => Alive(p)
      /\ pc'[p] \in {"lock", "write", "unlock"} => pc'[p] = pc[p] /\ fd'[p] = fd[p]
      /\ OwnsName(p)' => OwnsName(p)
  BY <1>1 DEF SkipLockfile, CloseLockfile, SetupSignals, BindCmd, BindDev, BindAnd, AcceptClient,
         LeaveLoop, LeaveFreeing, CreateFile, FillFile, FillStep, SaveEnds, FatalError, Signal,
         Vanish
<1> QED BY <1>1, <1>2, <1>3

\* Every step keeps an instance that is alone in possession of the name.
LEMMA NamedStep ==
    ASSUME TypeOK, OpenCount, Locking, Named, [Next]_vars
    PROVE  Named'
<1>0. SUFFICES ASSUME alone' = 1 PROVE Named'
  BY DEF Named
<1> USE <1>0 DEF TypeOK, ProcTypeOK, LockTypeOK, procVars, lockVars, portVars, netVars, Go,
                 Alive, OwnsName, Working
<1>1. ASSUME NameFrame PROVE Named'
  BY <1>1 DEF NameFrame, Named
<1>2. ASSUME NEW p \in Procs, Boot(p) PROVE Named'
  <2>1. alone = 1 /\ \A q \in Procs : ~Alive(q)
    BY <1>2 DEF Boot
  <2> QED BY <1>2, <2>1 DEF Boot, Named
<1>3. ASSUME NEW p \in Procs, OpenLockfile(p) PROVE Named'
  <2>1. alone = 1 /\ \A q \in Procs : q # p => ~Alive(q)
    BY <1>3 DEF OpenLockfile, Named
  <2>2. pc'[p] = "lock" => fd'[p] = pidfile'
    BY <1>3 DEF OpenLockfile
  <2>3. pc'[p] \in {"lock", "exit"} /\ \A q \in Procs : q # p => pc'[q] = pc[q]
    BY <1>3 DEF OpenLockfile
  <2> QED BY <2>1, <2>2, <2>3 DEF Named
<1>4. ASSUME NEW p \in Procs, TryLock(p) PROVE Named'
  <2>1. alone = 1 /\ \A q \in Procs : q # p => ~Alive(q)
    BY <1>4 DEF TryLock, LockAnd, Named
  <2>2. pc'[p] \in {"write", "exit"} /\ \A q \in Procs : q # p => pc'[q] = pc[q]
    BY <1>4 DEF TryLock, LockAnd
  <2>3. fd'[p] = pidfile'
    BY <1>4, <2>1 DEF TryLock, LockAnd, Named
  <2> QED BY <2>1, <2>2, <2>3 DEF Named
<1>5. ASSUME NEW p \in Procs, WritePid(p) PROVE Named'
  <2>1. alone = 1 /\ \A q \in Procs : q # p => ~Alive(q)
    BY <1>5 DEF WritePid, Named
  <2>2. pc'[p] \in {"unlock", "exit"} /\ \A q \in Procs : q # p => pc'[q] = pc[q]
    BY <1>5 DEF WritePid
  <2>3. fd'[p] = pidfile' /\ fd[p] \in Inodes /\ pidfile' = fd[p]
    BY <1>5, <2>1 DEF WritePid, Named, Locking
  <2>4. pc'[p] = "unlock" => text'[fd[p]] = {p}
    BY <1>5, <2>3 DEF WritePid, Locking
  <2>5. pidfile' # 0
    BY <2>3, InodeFacts
  <2> QED BY <2>1, <2>2, <2>3, <2>4, <2>5 DEF Named
<1>6. ASSUME NEW p \in Procs, delete_lockfile(p) PROVE Named'
  <2>1. alone = 1 /\ \A q \in Procs : q # p => ~Alive(q)
    BY <1>6 DEF delete_lockfile, Named
  <2>2. pc'[p] = "exit" /\ \A q \in Procs : q # p => pc'[q] = pc[q]
    BY <1>6 DEF delete_lockfile
  <2> QED BY <2>1, <2>2 DEF Named
<1>7. CASE Arrive \/ UNCHANGED vars
  BY <1>7 DEF Arrive, vars, Named
<1> QED BY <1>1, <1>2, <1>3, <1>4, <1>5, <1>6, <1>7, StepKinds, NameFrames DEF Alive

-----------------------------------------------------------------------------
(* The theorems                                                            *)

\* No instance has started, no file is there.
LEMMA InitHolds == Init => DaemonInv
<1> SUFFICES ASSUME Init PROVE DaemonInv
  OBVIOUS
<1>1. TypeOK
  BY FilesFacts, InodeFacts, DaemonAssumption
     DEF Init, TypeOK, ProcTypeOK, LockTypeOK, ShareTypeOK, Pcs
<1>2. OpenCount
  <2>1. Opened = {}
    BY DEF Init, Opened
  <2> QED BY <2>1, FS_EmptySet DEF Init, OpenCount
<1>3. Single
  BY DEF Init, Single
<1>4. Locking /\ PortHeld /\ SaveOrder /\ SavesSurvive /\ Named
  BY DEF Init, Locking, PortHeld, SaveOrder, SavesSurvive, Named, Working, Alive
<1> QED BY <1>1, <1>2, <1>3, <1>4 DEF DaemonInv

\* The invariant is inductive.
LEMMA InvHolds == Spec => []DaemonInv
<1>1. DaemonInv /\ [Next]_vars => DaemonInv'
  <2> SUFFICES ASSUME DaemonInv, [Next]_vars PROVE DaemonInv'
    OBVIOUS
  <2>1. TypeOK'
    BY TypeStep DEF DaemonInv
  <2>2. Locking' /\ Single'
    BY LockStep DEF DaemonInv
  <2>3. OpenCount' /\ PortHeld' /\ SaveOrder' /\ SavesSurvive' /\ Named'
    BY OpenCountStep, PortStep, SaveStep, NamedStep DEF DaemonInv
  <2> QED BY <2>1, <2>2, <2>3 DEF DaemonInv
<1> QED BY <1>1, InitHolds, PTL DEF Spec

\* Every variable keeps its type: no instance needs more lock files than there are, and
\* the saving of the caches stays within the list of files.
THEOREM TypeCorrect == Spec => []TypeOK
<1>1. DaemonInv => TypeOK
  BY DEF DaemonInv
<1> QED BY <1>1, InvHolds, PTL

\* Two instances never serve, or serve and save, at the same time, however many there
\* are: it is the tracker port, kept until the end, that excludes them, not the lock.
THEOREM ServerIsAlone == Spec => []OneServer
<1>1. DaemonInv => OneServer
  BY DEF DaemonInv, PortHeld, OneServer
<1> QED BY <1>1, InvHolds, PTL

\* A lock file holds the pid of one instance at most.
THEOREM PidfilesAreWhole == Spec => []PidfileIsWhole
<1>1. DaemonInv => PidfileIsWhole
  BY SingleIsWhole DEF DaemonInv
<1> QED BY <1>1, InvHolds, PTL

\* The daemon that met no other instance finds its pid in the lock file.
THEOREM PidfileNames == Spec => []PidfileNamesServer
<1>1. DaemonInv => PidfileNamesServer
  BY DEF DaemonInv, Named, PidfileNamesServer
<1> QED BY <1>1, InvHolds, PTL

\* What a stopped daemon has saved is not overwritten while it saves the rest.
THEOREM SavesAreKept == Spec => []SavesSurvive
<1>1. DaemonInv => SavesSurvive
  BY DEF DaemonInv
<1> QED BY <1>1, InvHolds, PTL
=============================================================================

--------------------------- MODULE CmdQueueProofs ---------------------------
(***************************************************************************)
(* The safety properties of the command queue, for every number of client  *)
(* threads, trackers, slots, tags and commands.                            *)
(***************************************************************************)
EXTENDS CmdQueue, FiniteSetTheorems, TLAPS

\* The queue has a first entry.
LEMMA FirstSlot == 1 \in Slots
BY CmdQueueAssumption DEF Slots

\* What is written into entries and reply buffers has its type.
LEMMA ReplyTypes == NoReply \in Replies /\ Torn \in Replies
BY DEF Replies

\* A cleared entry has its type.
LEMMA EmptyType == Empty \in Entries
BY CmdQueueAssumption, ReplyTypes DEF Empty, Entries

\* What a tracker answers has its type.
LEMMA PackageTypes ==
    ASSUME NEW d \in Devices, NEW p \in PackagesOf(d)
    PROVE  p \in Replies /\ p.cmd \in 1..MaxCmds
BY DEF Replies, Packages, PackagesOf

\* Updating a field of one entry keeps the queue in its type.
LEMMA EntryReply ==
    ASSUME cmdq \in [Slots -> Entries], NEW s \in Slots, NEW r \in Replies
    PROVE  [cmdq EXCEPT ![s].reply = r] \in [Slots -> Entries]
<1>1. [cmdq[s] EXCEPT !.reply = r] \in Entries
  BY DEF Entries
<1> QED BY <1>1

\* The same for the flag validreply.
LEMMA EntryValid ==
    ASSUME cmdq \in [Slots -> Entries], NEW s \in Slots
    PROVE  [cmdq EXCEPT ![s].validreply = 1] \in [Slots -> Entries]
<1>1. [cmdq[s] EXCEPT !.validreply = 1] \in Entries
  BY DEF Entries
<1> QED BY <1>1

\* The same for the fields that cmdqueue_insert fills.
LEMMA EntryInsert ==
    ASSUME cmdq \in [Slots -> Entries], NEW s \in Slots,
           NEW d \in Devices \cup {NoDev}, NEW n \in 0..MaxCmds
    PROVE  [cmdq EXCEPT ![s].ts = 1, ![s].devid = d, ![s].cmd = n]
             \in [Slots -> Entries]
<1>1. [cmdq[s] EXCEPT !.ts = 1, !.devid = d, !.cmd = n] \in Entries
  BY DEF Entries
<1> QED BY <1>1

\* A command is accepted or it fails.
LEMMA OutcomeType ==
    ASSUME NEW r \in Replies, NEW n \in 0..MaxCmds
    PROVE  handle_device_reply(r, n) \subseteq {"ok", "fail"}
BY DEF handle_device_reply

\* Every step keeps every variable in its type.
LEMMA TypeStep == TypeOK /\ [Next]_vars => TypeOK'
<1> SUFFICES ASSUME TypeOK, [Next]_vars PROVE TypeOK'
  OBVIOUS
<1> USE DEF TypeOK, clientVars, trackerVars, netVars
<1>1. ASSUME NEW c \in Clients, NEW d \in Devices, send_rawcmd_reply_over_gprs(c, d)
      PROVE  TypeOK'
  <2>1. TrackerTypeOK' /\ NetTypeOK'
    BY <1>1 DEF send_rawcmd_reply_over_gprs, TrackerTypeOK, NetTypeOK
  <2>2. QueueTypeOK'
    BY <1>1, CmdQueueAssumption DEF send_rawcmd_reply_over_gprs, QueueTypeOK
  <2>3. ClientTypeOK'
    <3>1. (/\ cmd \in [Clients -> 0..MaxCmds]
           /\ target \in [Clients -> Devices \cup {NoDev}]
           /\ devid \in [Clients -> Devices \cup {NoDev}]
           /\ slot \in [Clients -> Slots])'
      BY <1>1, CmdQueueAssumption DEF send_rawcmd_reply_over_gprs, ClientTypeOK, QueueTypeOK
    <3>2. (/\ pc \in [Clients -> ClientPcs]
           /\ got \in [Clients -> Replies]
           /\ rc \in [Clients -> {"none", "ok", "fail"}])'
      BY <1>1, ReplyTypes DEF send_rawcmd_reply_over_gprs, ClientTypeOK, ClientPcs
    <3> QED BY <3>1, <3>2 DEF ClientTypeOK
  <2> QED BY <2>1, <2>2, <2>3
<1>2. ASSUME NEW c \in Clients, cmdqueue_insert(c)
      PROVE  TypeOK'
  <2>1. TrackerTypeOK' /\ NetTypeOK'
    BY <1>2 DEF cmdqueue_insert, InsertAmong, TrackerTypeOK, NetTypeOK
  <2>2. QueueTypeOK'
    <3>1. CASE UNCHANGED cmdq
      BY <1>2, <3>1 DEF cmdqueue_insert, InsertAmong, QueueTypeOK
    <3>2. ASSUME NEW s \in Slots,
                 cmdq' = [cmdq EXCEPT ![s].ts = 1, ![s].devid = devid[c],
                                      ![s].cmd = cmd[c]]
          PROVE  cmdq' \in [Slots -> Entries]
      <4>1. cmdq \in [Slots -> Entries] /\ devid[c] \in Devices \cup {NoDev} /\ cmd[c] \in 0..MaxCmds
        BY DEF QueueTypeOK, ClientTypeOK
      <4> QED BY <3>2, <4>1, EntryInsert
    <3> QED BY <1>2, <3>1, <3>2 DEF cmdqueue_insert, InsertAmong, QueueTypeOK
  <2>3. ClientTypeOK'
    <3>1. (/\ cmd \in [Clients -> 0..MaxCmds]
           /\ target \in [Clients -> Devices \cup {NoDev}]
           /\ devid \in [Clients -> Devices \cup {NoDev}]
           /\ slot \in [Clients -> Slots])'
      <4>1. /\ UNCHANGED <<cmd, target, devid>>
            /\ slot' = slot \/ \E s \in Slots : slot' = [slot EXCEPT ![c] = s]
        BY <1>2 DEF cmdqueue_insert, InsertAmong
      <4> QED BY <4>1 DEF ClientTypeOK
    <3>2. (/\ pc \in [Clients -> ClientPcs]
           /\ got \in [Clients -> Replies]
           /\ rc \in [Clients -> {"none", "ok", "fail"}])'
      BY <1>2 DEF cmdqueue_insert, InsertAmong, ClientTypeOK, ClientPcs
    <3> QED BY <3>1, <3>2 DEF ClientTypeOK
  <2> QED BY <2>1, <2>2, <2>3
<1>3. ASSUME NEW c \in Clients, write_cmd(c)
      PROVE  TypeOK'
  <2>1. TrackerTypeOK'
    BY <1>3 DEF write_cmd, TrackerTypeOK
  <2>2. QueueTypeOK'
    BY <1>3 DEF write_cmd, QueueTypeOK, Entries, ClientTypeOK
  <2>3. ClientTypeOK'
    BY <1>3 DEF write_cmd, ClientTypeOK, ClientPcs
  <2>4. NetTypeOK'
    <3>1. CASE UNCHANGED inbox
      BY <1>3, <3>1 DEF write_cmd, NetTypeOK
    <3>2. CASE /\ target[c] \in conn
               /\ inbox' = [inbox EXCEPT ![target[c]] = @ \cup {cmd[c]}]
      <4>1. target[c] \in Devices /\ cmd[c] \in 0..MaxCmds
        BY <1>3, <3>2 DEF NetTypeOK, ClientTypeOK
      <4> QED BY <1>3, <3>2, <4>1 DEF write_cmd, NetTypeOK
    <3> QED BY <1>3, <3>1, <3>2 DEF write_cmd
  <2> QED BY <2>1, <2>2, <2>3, <2>4
<1>4. ASSUME NEW c \in Clients, check_reply_found(c)
      PROVE  TypeOK'
  <2>1. QueueTypeOK' /\ TrackerTypeOK' /\ NetTypeOK'
    BY <1>4 DEF check_reply_found, QueueTypeOK, TrackerTypeOK, NetTypeOK
  <2>2. cmdq[slot[c]].reply \in Replies
    BY DEF QueueTypeOK, ClientTypeOK, Entries
  <2>3. ClientTypeOK'
    <3>1. (/\ cmd \in [Clients -> 0..MaxCmds]
           /\ target \in [Clients -> Devices \cup {NoDev}]
           /\ devid \in [Clients -> Devices \cup {NoDev}]
           /\ slot \in [Clients -> Slots])'
      BY <1>4 DEF check_reply_found, ClientTypeOK
    <3>2. (/\ pc \in [Clients -> ClientPcs]
           /\ got \in [Clients -> Replies]
           /\ rc \in [Clients -> {"none", "ok", "fail"}])'
      BY <1>4, <2>2, ReplyTypes DEF check_reply_found, ClientTypeOK, ClientPcs
    <3> QED BY <3>1, <3>2 DEF ClientTypeOK
  <2> QED BY <2>1, <2>3
<1>5. ASSUME NEW c \in Clients, check_reply_timeout(c)
      PROVE  TypeOK'
  <2>1. QueueTypeOK' /\ TrackerTypeOK' /\ NetTypeOK'
    BY <1>5 DEF check_reply_timeout, QueueTypeOK, TrackerTypeOK, NetTypeOK
  <2>2. ClientTypeOK'
    BY <1>5 DEF check_reply_timeout, ClientTypeOK, ClientPcs
  <2> QED BY <2>1, <2>2
<1>6. ASSUME NEW c \in Clients, cmdqueue_clridx(c)
      PROVE  TypeOK'
  <2>1. TrackerTypeOK' /\ NetTypeOK'
    BY <1>6 DEF cmdqueue_clridx, EndClearing, TrackerTypeOK, NetTypeOK
  <2>2. QueueTypeOK'
    BY <1>6, EmptyType DEF cmdqueue_clridx, EndClearing, QueueTypeOK, ClientTypeOK
  <2>3. ClientTypeOK'
    BY <1>6, OutcomeType, FirstSlot DEF cmdqueue_clridx, EndClearing, ClientTypeOK, ClientPcs
  <2> QED BY <2>1, <2>2, <2>3
<1>7. ASSUME NEW d \in Devices, NEW p \in PackagesOf(d), cmdqueue_match(d, p)
      PROVE  TypeOK'
  <2>1. QueueTypeOK' /\ ClientTypeOK'
    BY <1>7 DEF cmdqueue_match, QueueTypeOK, ClientTypeOK
  <2>2. TrackerTypeOK'
    BY <1>7, PackageTypes DEF cmdqueue_match, TrackerTypeOK, TrackerPcs
  <2>3. NetTypeOK'
    BY <1>7 DEF cmdqueue_match, NetTypeOK
  <2> QED BY <2>1, <2>2, <2>3
<1>8. ASSUME NEW d \in Devices, write_reply(d)
      PROVE  TypeOK'
  <2>1. ClientTypeOK' /\ NetTypeOK'
    BY <1>8 DEF write_reply, ClientTypeOK, NetTypeOK
  <2>2. QueueTypeOK'
    <3>1. ASSUME NEW r \in Replies, cmdq' = [cmdq EXCEPT ![entry[d]].reply = r]
          PROVE  cmdq' \in [Slots -> Entries]
      BY <3>1, EntryReply DEF QueueTypeOK, TrackerTypeOK
    <3> QED BY <1>8, <3>1, ReplyTypes DEF write_reply, QueueTypeOK, TrackerTypeOK
  <2>3. TrackerTypeOK'
    BY <1>8 DEF write_reply, TrackerTypeOK, TrackerPcs
  <2> QED BY <2>1, <2>2, <2>3
<1>9. ASSUME NEW d \in Devices, set_validreply(d)
      PROVE  TypeOK'
  <2>1. ClientTypeOK' /\ NetTypeOK'
    BY <1>9 DEF set_validreply, ClientTypeOK, NetTypeOK
  <2>2. QueueTypeOK'
    <3>1. cmdq' \in [Slots -> Entries]
      BY <1>9, EntryValid DEF set_validreply, QueueTypeOK, TrackerTypeOK
    <3> QED BY <1>9, <3>1 DEF set_validreply, QueueTypeOK
  <2>3. TrackerTypeOK'
    BY <1>9, ReplyTypes, FirstSlot DEF set_validreply, TrackerTypeOK, TrackerPcs
  <2> QED BY <2>1, <2>2, <2>3
<1>10. ASSUME NEW d \in Devices, Environment(d)
      PROVE  TypeOK'
  <2>1. QueueTypeOK' /\ ClientTypeOK' /\ TrackerTypeOK'
    BY <1>10 DEF Environment, Connect, KeepAlive, Disconnect, DropConnection, QueueTypeOK, ClientTypeOK, TrackerTypeOK
  <2>2. NetTypeOK'
    BY <1>10, CmdQueueAssumption DEF Environment, Connect, KeepAlive, Disconnect, DropConnection, NetTypeOK
  <2> QED BY <2>1, <2>2
<1>11. CASE UNCHANGED vars
  BY <1>11 DEF vars, QueueTypeOK, ClientTypeOK, TrackerTypeOK, NetTypeOK
<1> QED
  BY <1>1, <1>2, <1>3, <1>4, <1>5, <1>6, <1>7, <1>8, <1>9, <1>10, <1>11
     DEF Next, ClientStep, TrackerStep

\* The type invariant of the queue, its threads and connections.
THEOREM TypeCorrect == Spec => []TypeOK
<1>1. Init => TypeOK
  BY CmdQueueAssumption, FirstSlot, ReplyTypes, EmptyType DEF Init, TypeOK, QueueTypeOK, ClientTypeOK, TrackerTypeOK, NetTypeOK,
     ClientPcs, TrackerPcs
<1> QED
  BY <1>1, TypeStep, PTL DEF Spec

-----------------------------------------------------------------------------
(* Ownership of entries                                                    *)

\* The fields that say whose entry it is stay as they are.
SameOwners ==
    /\ \A s \in Slots : /\ cmdq'[s].ts = cmdq[s].ts
                        /\ cmdq'[s].devid = cmdq[s].devid
                        /\ cmdq'[s].cmd = cmdq[s].cmd
    /\ UNCHANGED leaked

\* A tracker thread writes the reply fields of an entry and nothing else.
LEMMA TrackerFrame ==
    ASSUME TypeOK, NEW d \in Devices, TrackerStep(d)
    PROVE  SameOwners /\ UNCHANGED <<tagnbr, clientVars>>
<1> USE DEF TypeOK, QueueTypeOK, TrackerTypeOK, Entries, SameOwners
<1>1. ASSUME NEW p \in PackagesOf(d), cmdqueue_match(d, p)
      PROVE  SameOwners /\ UNCHANGED <<tagnbr, clientVars>>
  BY <1>1 DEF cmdqueue_match
<1>2. CASE write_reply(d)
  BY <1>2 DEF write_reply
<1>3. CASE set_validreply(d)
  BY <1>3 DEF set_validreply
<1> QED
  BY <1>1, <1>2, <1>3 DEF TrackerStep

\* What the invariant says of the entries depends on these fields only.
LEMMA OwnershipFrame ==
    ASSUME TypeOK, Ownership, SameOwners, UNCHANGED <<pc, cmd, devid, slot>>
    PROVE  Ownership'
BY DEF Ownership, EntryIsOwn, InUseIsHeldOrLeaked, Holds, Free, SameOwners,
       TypeOK, ClientTypeOK, QueueTypeOK

\* Filling a free entry keeps the entries owned.
LEMMA OwnershipInsert ==
    ASSUME TypeOK, Ownership, NEW c \in Clients, cmdqueue_insert(c)
    PROVE  Ownership'
<1> USE DEF TypeOK, QueueTypeOK, ClientTypeOK
<1>1. CASE cmd[c] \in LongCmds \/ \A s \in Slots : ~ Free(s)
  <2>1. /\ pc[c] = "insert" /\ pc' = [pc EXCEPT ![c] = "idle"]
        /\ UNCHANGED <<cmdq, slot, cmd, devid, leaked>>
    BY <1>1 DEF cmdqueue_insert, InsertAmong
  <2>2. \A e \in Clients : Holds(e)' <=> Holds(e)
    BY <2>1 DEF Holds
  <2> QED
    BY <2>1, <2>2 DEF Ownership, EntryIsOwn, InUseIsHeldOrLeaked, Free
<1>2. CASE ~(cmd[c] \in LongCmds \/ \A s \in Slots : ~ Free(s))
  <2>1. PICK s \in Slots :
          /\ Free(s)
          /\ cmdq' = [cmdq EXCEPT ![s].ts = 1, ![s].devid = devid[c],
                                  ![s].cmd = cmd[c]]
          /\ slot' = [slot EXCEPT ![c] = s]
          /\ pc' = [pc EXCEPT ![c] = "write"]
    BY <1>2 DEF cmdqueue_insert, InsertAmong
  <2>2. /\ ~ Holds(c)
        /\ UNCHANGED <<cmd, devid, leaked>>
    BY DEF cmdqueue_insert, InsertAmong, Holds
  <2>3. /\ cmdq'[s].ts = 1 /\ cmdq'[s].devid = devid[c] /\ cmdq'[s].cmd = cmd[c]
        /\ \A t \in Slots \ {s} : cmdq'[t] = cmdq[t]
    BY <2>1 DEF Entries
  <2>4. s \notin leaked /\ \A e \in Clients : Holds(e) => slot[e] # s
    BY <2>1 DEF Ownership, EntryIsOwn, Free
  <2>5. /\ Holds(c)' /\ slot'[c] = s
        /\ \A e \in Clients \ {c} : (Holds(e)' <=> Holds(e)) /\ slot'[e] = slot[e]
    BY <2>1 DEF Holds
  <2>6. EntryIsOwn'
    BY <2>2, <2>3, <2>4, <2>5 DEF Ownership, EntryIsOwn
  <2>7. InUseIsHeldOrLeaked'
    BY <2>2, <2>3, <2>5 DEF Ownership, InUseIsHeldOrLeaked, Free
  <2>8. \A t \in leaked' : cmdq'[t].ts = 1
    BY <2>2, <2>3, <2>4 DEF Ownership
  <2> QED BY <2>6, <2>7, <2>8 DEF Ownership
<1> QED BY <1>1, <1>2

\* Clearing the entry of its holder keeps the entries owned.
LEMMA OwnershipClear ==
    ASSUME TypeOK, Ownership, NEW c \in Clients, cmdqueue_clridx(c)
    PROVE  Ownership'
<1> USE DEF TypeOK, QueueTypeOK, ClientTypeOK
<1>1. /\ Holds(c) /\ ~ Holds(c)'
      /\ \A e \in Clients \ {c} : (Holds(e)' <=> Holds(e)) /\ slot'[e] = slot[e]
      /\ UNCHANGED <<cmd, devid, leaked>>
  BY DEF cmdqueue_clridx, EndClearing, Holds
<1>2. cmdq'[slot[c]] = Empty /\ \A t \in Slots \ {slot[c]} : cmdq'[t] = cmdq[t]
  BY DEF cmdqueue_clridx, EndClearing
<1>3. slot[c] \notin leaked /\ \A e \in Clients \ {c} : Holds(e) => slot[e] # slot[c]
  BY <1>1 DEF Ownership, EntryIsOwn
<1>4. EntryIsOwn'
  BY <1>1, <1>2, <1>3 DEF Ownership, EntryIsOwn
<1>5. InUseIsHeldOrLeaked'
  BY <1>1, <1>2 DEF Ownership, InUseIsHeldOrLeaked, Free, Empty
<1>6. \A t \in leaked' : cmdq'[t].ts = 1
  BY <1>1, <1>2, <1>3 DEF Ownership
<1> QED BY <1>4, <1>5, <1>6 DEF Ownership

\* Every step keeps the entries owned.
LEMMA OwnershipStep == TypeOK /\ Ownership /\ [Next]_vars => Ownership'
<1> SUFFICES ASSUME TypeOK, Ownership, [Next]_vars PROVE Ownership'
  OBVIOUS
<1> USE DEF clientVars, netVars, trackerVars
<1>1. ASSUME NEW c \in Clients, NEW d \in Devices, send_rawcmd_reply_over_gprs(c, d)
      PROVE  Ownership'
  BY <1>1 DEF send_rawcmd_reply_over_gprs, Ownership, EntryIsOwn, InUseIsHeldOrLeaked,
     Holds, Free, TypeOK, ClientTypeOK
<1>2. ASSUME NEW c \in Clients, write_cmd(c)
      PROVE  Ownership'
  BY <1>2 DEF write_cmd, Ownership, EntryIsOwn, InUseIsHeldOrLeaked, Holds, Free,
     TypeOK, ClientTypeOK
<1>3. ASSUME NEW c \in Clients, check_reply_found(c) \/ check_reply_timeout(c)
      PROVE  Ownership'
  BY <1>3 DEF check_reply_found, check_reply_timeout, Ownership, EntryIsOwn,
     InUseIsHeldOrLeaked, Holds, Free, TypeOK, ClientTypeOK
<1>4. ASSUME NEW d \in Devices, TrackerStep(d)
      PROVE  Ownership'
  BY <1>4, TrackerFrame, OwnershipFrame
<1>5. ASSUME NEW d \in Devices, Environment(d)
      PROVE  Ownership'
  <2>1. UNCHANGED <<cmdq, leaked, pc, cmd, devid, slot>>
    BY <1>5 DEF Environment, Connect, KeepAlive, Disconnect, DropConnection
  <2> QED BY <2>1, OwnershipFrame DEF SameOwners
<1>6. CASE UNCHANGED vars
  BY <1>6, OwnershipFrame DEF vars, SameOwners
<1> QED
  BY <1>1, <1>2, <1>3, <1>4, <1>5, <1>6, OwnershipInsert, OwnershipClear
     DEF Next, ClientStep

\* Entries are owned: together with the type invariant this is inductive.
LEMMA OwnershipInvariant == Spec => []Ownership
<1>1. Init => Ownership
  BY DEF Init, Ownership, EntryIsOwn, InUseIsHeldOrLeaked, Holds, Free, Empty
<1> QED
  BY <1>1, OwnershipStep, TypeCorrect, PTL DEF Spec

\* No interleaving of timeouts, late replies and failed writes makes two commands
\* share an entry or lets a thread poll an entry that is not its own.
THEOREM EntriesAreOwn == Spec => []EntryIsOwn
BY OwnershipInvariant, PTL DEF Ownership

\* Failed writes are the only way an entry stays in use with nobody to clear it.
THEOREM LeaksOnlyByFailedWrites == Spec => []InUseIsHeldOrLeaked
BY OwnershipInvariant, PTL DEF Ownership

-----------------------------------------------------------------------------
(* Replies and tags                                                        *)

\* Two numbers with the same remainder are equal or at least the modulus apart.
LEMMA ModDistance ==
    ASSUME NEW a \in Nat, NEW b \in Nat, NEW m \in Nat \ {0},
           a % m = b % m, a # b
    PROVE  a - b >= m \/ b - a >= m
<1> DEFINE q == a \div m
           r == b \div m
<1>1. a = m * q + (a % m) /\ b = m * r + (b % m)
  OBVIOUS
<1>2. q \in Int /\ r \in Int
  OBVIOUS
<1>3. a - b = m * q - m * r
  BY <1>1
<1>4. q # r
  BY <1>3
<1> HIDE DEF q, r
<1>5. CASE q >= r + 1
  <2>1. m * q >= m * r + m
    BY <1>2, <1>5
  <2> QED BY <2>1, <1>3, <1>2
<1>6. CASE r >= q + 1
  <2>1. m * r >= m * q + m
    BY <1>2, <1>6
  <2> QED BY <2>1, <1>3, <1>2
<1> QED BY <1>2, <1>4, <1>5, <1>6

\* Every step keeps accepted tags equal to those of their commands.
LEMMA TagsAgreeStep == TypeOK /\ TagsAgree /\ [Next]_vars => TagsAgree'
<1> SUFFICES ASSUME TypeOK, TagsAgree, [Next]_vars PROVE TagsAgree'
  OBVIOUS
<1> USE DEF TypeOK, ClientTypeOK, TagsAgree
<1>1. ASSUME NEW c \in Clients, NEW d \in Devices, send_rawcmd_reply_over_gprs(c, d)
      PROVE  TagsAgree'
  BY <1>1 DEF send_rawcmd_reply_over_gprs
<1>2. ASSUME NEW c \in Clients,
             \/ cmdqueue_insert(c) \/ write_cmd(c)
             \/ check_reply_found(c) \/ check_reply_timeout(c)
      PROVE  TagsAgree'
  <2>1. CASE cmdqueue_insert(c)
    BY <2>1 DEF cmdqueue_insert, InsertAmong
  <2>2. CASE write_cmd(c)
    BY <2>2 DEF write_cmd
  <2>3. CASE check_reply_found(c) \/ check_reply_timeout(c)
    <3>1. /\ pc[c] = "wait" /\ UNCHANGED <<cmd, rc>> /\ pc' = [pc EXCEPT ![c] = "clear"]
          /\ \A u \in Clients \ {c} : got'[u] = got[u]
      BY <2>3 DEF check_reply_found, check_reply_timeout
    <3> QED BY <3>1
  <2> QED BY <1>2, <2>1, <2>2, <2>3
<1>3. ASSUME NEW c \in Clients, cmdqueue_clridx(c)
      PROVE  TagsAgree'
  <2>1. "ok" \in handle_device_reply(got[c], cmd[c]) /\ got[c].kind = "tagged" =>
          get_device_tag(got[c].cmd) = get_device_tag(cmd[c])
    BY DEF handle_device_reply
  <2> QED BY <1>3, <2>1 DEF cmdqueue_clridx, EndClearing
<1>4. ASSUME NEW d \in Devices, TrackerStep(d) \/ Environment(d)
      PROVE  TagsAgree'
  <2>1. UNCHANGED <<pc, cmd, got, rc>>
    BY <1>4, TrackerFrame DEF Environment, Connect, KeepAlive, Disconnect, DropConnection, clientVars
  <2> QED BY <2>1
<1>5. CASE UNCHANGED vars
  BY <1>5 DEF vars, clientVars
<1> QED
  BY <1>1, <1>2, <1>3, <1>4, <1>5 DEF Next, ClientStep

\* A command accepts a tagged reply only if it is its own, or the tag counter went
\* round in between.
THEOREM AcceptedTagsAreOwn == Spec => []AcceptedTagIsOwn
<1>1. Init => TagsAgree
  BY DEF Init, TagsAgree
<1>2. TypeOK /\ TagsAgree => AcceptedTagIsOwn
  <2> SUFFICES ASSUME TypeOK, TagsAgree, NEW c \in Clients,
                      rc[c] = "ok", got[c].kind = "tagged", got[c].cmd # cmd[c]
               PROVE  got[c].cmd - cmd[c] >= TagMod \/ cmd[c] - got[c].cmd >= TagMod
    BY DEF AcceptedTagIsOwn
  <2>1. got[c].cmd % TagMod = cmd[c] % TagMod
    BY DEF TagsAgree, get_device_tag
  <2>2. cmd[c] \in Nat /\ got[c].cmd \in Nat /\ TagMod \in Nat \ {0}
    BY CmdQueueAssumption
       DEF TypeOK, ClientTypeOK, Replies, Packages, NoReply, Torn
  <2> QED BY <2>1, <2>2, ModDistance
<1> QED
  BY <1>1, <1>2, TagsAgreeStep, TypeCorrect, PTL DEF Spec

\* Only the thread that holds an entry empties it.
THEOREM HolderClears == Spec => OnlyHolderClears
<1> DEFINE A == \A s \in Slots :
                  ~Free(s) /\ cmdq[s].cmd # cmdq'[s].cmd =>
                    \E c \in Clients : /\ pc[c] = "clear" /\ pc'[c] = "idle"
                                       /\ slot[c] = s /\ cmdq'[s] = Empty
<1>1. TypeOK /\ [Next]_vars => [A]_vars
  <2> SUFFICES ASSUME TypeOK, Next PROVE A
    OBVIOUS
  <2> SUFFICES ASSUME NEW s \in Slots, ~Free(s), cmdq[s].cmd # cmdq'[s].cmd
               PROVE  \E c \in Clients : /\ pc[c] = "clear" /\ pc'[c] = "idle"
                                         /\ slot[c] = s /\ cmdq'[s] = Empty
    OBVIOUS
  <2>1. ASSUME NEW c \in Clients, cmdqueue_insert(c) PROVE FALSE
    BY <2>1 DEF cmdqueue_insert, InsertAmong, TypeOK, QueueTypeOK, Entries
  <2>2. ASSUME NEW c \in Clients, cmdqueue_clridx(c)
        PROVE  /\ pc[c] = "clear" /\ pc'[c] = "idle"
               /\ slot[c] = s /\ cmdq'[s] = Empty
    BY <2>2 DEF cmdqueue_clridx, EndClearing, TypeOK, QueueTypeOK, ClientTypeOK
  <2>3. ASSUME NEW c \in Clients,
               \/ \E d \in Devices : send_rawcmd_reply_over_gprs(c, d)
               \/ write_cmd(c) \/ check_reply_found(c) \/ check_reply_timeout(c)
        PROVE  FALSE
    BY <2>3 DEF send_rawcmd_reply_over_gprs, write_cmd, check_reply_found,
       check_reply_timeout
  <2>4. ASSUME NEW d \in Devices, TrackerStep(d) \/ Environment(d) PROVE FALSE
    BY <2>4, TrackerFrame DEF SameOwners, Environment, Connect, KeepAlive, Disconnect, DropConnection
  <2> QED
    BY <2>1, <2>2, <2>3, <2>4 DEF Next, ClientStep
<1> QED
  BY <1>1, TypeCorrect, PTL DEF Spec, OnlyHolderClears

-----------------------------------------------------------------------------
(* The pool of commands that the queue implements                          *)

\* A tracker thread and the network leave the numbers as they are.
LEMMA NumberingFrame ==
    ASSUME TypeOK, Numbering, SameOwners, UNCHANGED <<tagnbr, pc, cmd>>
    PROVE  Numbering'
BY DEF Numbering, Free, SameOwners

\* A new command gets a number that nobody has.
LEMMA NumberingSend ==
    ASSUME TypeOK, Numbering, NEW c \in Clients, NEW d \in Devices,
           send_rawcmd_reply_over_gprs(c, d)
    PROVE  Numbering'
<1> USE DEF TypeOK, QueueTypeOK, ClientTypeOK
<1>1. /\ pc[c] = "idle" /\ cmd' = [cmd EXCEPT ![c] = tagnbr + 1] /\ tagnbr' = tagnbr + 1
      /\ UNCHANGED cmdq
      /\ \A e \in Clients \ {c} : pc'[e] = pc[e]
  BY DEF send_rawcmd_reply_over_gprs
<1>2. /\ tagnbr \in Int
      /\ \A s \in Slots : cmdq[s].cmd \in Int
      /\ \A e \in Clients : cmd[e] \in Int
  BY CmdQueueAssumption DEF Entries
<1>3. (\A s \in Slots : cmdq[s].cmd <= tagnbr)' /\ (\A e \in Clients : cmd[e] <= tagnbr)'
  BY <1>1, <1>2 DEF Numbering
<1>4. (\A e, f \in Clients : pc[e] # "idle" /\ pc[f] # "idle" /\ e # f => cmd[e] # cmd[f])'
  BY <1>1, <1>2 DEF Numbering
<1>5. (\A s, t \in Slots : ~Free(s) /\ ~Free(t) /\ s # t => cmdq[s].cmd # cmdq[t].cmd)'
  BY <1>1 DEF Numbering, Free
<1>6. (\A e \in Clients, s \in Slots : pc[e] = "insert" /\ ~Free(s) => cmdq[s].cmd # cmd[e])'
  BY <1>1, <1>2 DEF Numbering, Free
<1> QED BY <1>3, <1>4, <1>5, <1>6 DEF Numbering

\* A number enters the queue once.
LEMMA NumberingInsert ==
    ASSUME TypeOK, Numbering, NEW c \in Clients, cmdqueue_insert(c)
    PROVE  Numbering'
<1> USE DEF TypeOK, QueueTypeOK, ClientTypeOK
<1>1. /\ pc[c] = "insert" /\ UNCHANGED <<tagnbr, cmd>>
      /\ \A e \in Clients \ {c} : pc'[e] = pc[e]
      /\ pc'[c] \in {"idle", "write"}
  BY DEF cmdqueue_insert, InsertAmong
<1>2. CASE UNCHANGED cmdq
  <2>1. /\ \A e \in Clients : /\ pc'[e] # "idle" => pc[e] # "idle"
                             /\ pc'[e] = "insert" => pc[e] = "insert"
        /\ \A s \in Slots : Free(s)' <=> Free(s)
    BY <1>1, <1>2 DEF Free
  <2> QED BY <1>1, <1>2, <2>1 DEF Numbering
<1>3. ASSUME NEW s \in Slots, Free(s),
             cmdq' = [cmdq EXCEPT ![s].ts = 1, ![s].devid = devid[c], ![s].cmd = cmd[c]]
      PROVE  Numbering'
  <2>1. /\ cmdq'[s].cmd = cmd[c]
        /\ \A t \in Slots \ {s} : cmdq'[t] = cmdq[t]
    BY <1>3 DEF Entries
  <2>2. \A t \in Slots \ {s} : Free(t)' <=> Free(t)
    BY <2>1 DEF Free
  <2>3. (\A t \in Slots : cmdq[t].cmd <= tagnbr)'
    BY <1>1, <2>1 DEF Numbering
  <2>4. (\A t, u \in Slots : ~Free(t) /\ ~Free(u) /\ t # u => cmdq[t].cmd # cmdq[u].cmd)'
    BY <1>1, <2>1, <2>2 DEF Numbering
  <2>5. (\A e \in Clients, t \in Slots : pc[e] = "insert" /\ ~Free(t) => cmdq[t].cmd # cmd[e])'
    BY <1>1, <2>1, <2>2 DEF Numbering
  <2> QED BY <1>1, <2>3, <2>4, <2>5 DEF Numbering
<1> QED BY <1>2, <1>3 DEF cmdqueue_insert, InsertAmong

\* Clearing an entry takes its number out of the queue.
LEMMA NumberingClear ==
    ASSUME TypeOK, Numbering, NEW c \in Clients, cmdqueue_clridx(c)
    PROVE  Numbering'
<1> USE DEF TypeOK, QueueTypeOK, ClientTypeOK
<1>1. /\ UNCHANGED <<tagnbr, cmd>>
      /\ \A e \in Clients \ {c} : pc'[e] = pc[e]
      /\ pc'[c] = "idle"
      /\ cmdq'[slot[c]] = Empty /\ \A t \in Slots \ {slot[c]} : cmdq'[t] = cmdq[t]
  BY DEF cmdqueue_clridx, EndClearing
<1>2. /\ slot[c] \in Slots /\ cmdq'[slot[c]].cmd = 0 /\ 0 <= tagnbr
      /\ \A t \in Slots : Free(t)' <=> t = slot[c] \/ Free(t)
  BY <1>1, CmdQueueAssumption DEF Free, Empty
<1>3. (\A s \in Slots : cmdq[s].cmd <= tagnbr)'
  BY <1>1, <1>2 DEF Numbering
<1>4. (\A s, t \in Slots : ~Free(s) /\ ~Free(t) /\ s # t => cmdq[s].cmd # cmdq[t].cmd)'
  BY <1>1, <1>2 DEF Numbering
<1>5. (\A e \in Clients, s \in Slots : pc[e] = "insert" /\ ~Free(s) => cmdq[s].cmd # cmd[e])'
  BY <1>1, <1>2 DEF Numbering
<1> QED BY <1>1, <1>3, <1>4, <1>5 DEF Numbering

\* Every step keeps the numbers apart.
LEMMA NumberingStep == TypeOK /\ Numbering /\ [Next]_vars => Numbering'
<1> SUFFICES ASSUME TypeOK, Numbering, [Next]_vars PROVE Numbering'
  OBVIOUS
<1> USE DEF clientVars, netVars, trackerVars
<1>1. ASSUME NEW c \in Clients, write_cmd(c) \/ check_reply_found(c) \/ check_reply_timeout(c)
      PROVE  Numbering'
  <2>1. /\ UNCHANGED <<cmdq, tagnbr, cmd>> /\ pc[c] # "idle" /\ pc'[c] # "insert"
        /\ \A e \in Clients \ {c} : pc'[e] = pc[e]
    BY <1>1 DEF write_cmd, check_reply_found, check_reply_timeout, TypeOK, ClientTypeOK
  <2> QED BY <2>1 DEF Numbering, Free
<1>2. ASSUME NEW d \in Devices, TrackerStep(d)
      PROVE  Numbering'
  BY <1>2, TrackerFrame, NumberingFrame
<1>3. ASSUME NEW d \in Devices, Environment(d)
      PROVE  Numbering'
  <2>1. UNCHANGED <<cmdq, tagnbr, leaked, pc, cmd>>
    BY <1>3 DEF Environment, Connect, KeepAlive, Disconnect, DropConnection
  <2> QED BY <2>1, NumberingFrame DEF SameOwners
<1>4. CASE UNCHANGED vars
  BY <1>4, NumberingFrame DEF vars, SameOwners
<1> QED
  BY <1>1, <1>2, <1>3, <1>4, NumberingSend, NumberingInsert, NumberingClear
     DEF Next, ClientStep

\* Numbers stay apart: with the type invariant this is inductive.
LEMMA NumberingInvariant == Spec => []Numbering
<1>1. Init => Numbering
  BY DEF Init, Numbering, Free, Empty
<1> QED
  BY <1>1, NumberingStep, TypeCorrect, PTL DEF Spec

\* Commands in use are counted by entries in use.
LEMMA OpenCount ==
    ASSUME TypeOK, Numbering
    PROVE  /\ Cardinality(OpenCmds) \in Nat
           /\ Cardinality(OpenCmds) <= QLen
           /\ Cardinality(OpenCmds) = QLen <=> \A s \in Slots : ~Free(s)
<1> DEFINE f == [s \in InUse |-> cmdq[s].cmd]
<1>1. /\ IsFiniteSet(Slots) /\ Cardinality(Slots) = QLen
  BY FS_Interval, CmdQueueAssumption DEF Slots
<1>2. InUse \in SUBSET Slots
  BY DEF InUse
<1>3. /\ IsFiniteSet(InUse) /\ Cardinality(InUse) <= QLen
      /\ Cardinality(InUse) = QLen <=> InUse = Slots
  BY <1>1, <1>2, FS_Subset
<1>4. f \in Bijection(InUse, OpenCmds)
  <2>1. f \in [InUse -> OpenCmds]
    BY DEF OpenCmds
  <2>2. \A s, t \in InUse : f[s] = f[t] => s = t
    BY DEF Numbering, InUse
  <2>3. \A n \in OpenCmds : \E s \in InUse : f[s] = n
    BY DEF OpenCmds
  <2> QED BY <2>1, <2>2, <2>3 DEF Bijection, Injection, Surjection, IsInjective
<1>5. ExistsBijection(InUse, OpenCmds)
  BY <1>4 DEF ExistsBijection
<1>6. Cardinality(OpenCmds) = Cardinality(InUse) /\ Cardinality(InUse) \in Nat
  BY <1>3, <1>5, FS_Bijection, FS_CardinalityType
<1> QED BY <1>3, <1>6 DEF InUse

\* The pool counts as the queue does.
LEMMA PoolCounts == Pool!Cardinality(OpenCmds) = Cardinality(OpenCmds)
BY DEF Pool!Cardinality, Cardinality

\* What the pool sees of a step that changes neither owners nor positions: nothing.
LEMMA PoolFrame ==
    ASSUME SameOwners, UNCHANGED <<tagnbr, pc, cmd>>
    PROVE  UNCHANGED Pool!poolVars
<1>1. InUse' = InUse
  BY DEF InUse, Free, SameOwners
<1>2. OpenCmds' = OpenCmds
  BY <1>1 DEF OpenCmds, InUse, SameOwners
<1> QED BY <1>2 DEF Pool!poolVars, Phase

\* Preparing a command asks the pool for a place, or fails at once.
LEMMA PoolSend ==
    ASSUME TypeOK, NEW c \in Clients, NEW d \in Devices, send_rawcmd_reply_over_gprs(c, d)
    PROVE  Pool!Ask(c)
<1> USE DEF TypeOK, QueueTypeOK, ClientTypeOK
<1>1. OpenCmds' = OpenCmds
  BY DEF send_rawcmd_reply_over_gprs, OpenCmds, InUse, Free
<1>2. Phase[c] = "idle"
  BY DEF send_rawcmd_reply_over_gprs, Phase
<1>3. Phase' \in {Phase, [Phase EXCEPT ![c] = "asked"]}
  <2>1. CASE UNCHANGED pc
    BY <2>1 DEF Phase
  <2>2. CASE pc' = [pc EXCEPT ![c] = "insert"]
    BY <2>2 DEF Phase
  <2> QED BY <2>1, <2>2 DEF send_rawcmd_reply_over_gprs
<1> QED
  BY <1>1, <1>2, <1>3 DEF send_rawcmd_reply_over_gprs, Pool!Ask

\* Insertion opens the command, and refuses it only if it is too long or all entries
\* are in use.
LEMMA PoolInsert ==
    ASSUME TypeOK, Numbering, NEW c \in Clients, cmdqueue_insert(c)
    PROVE  Pool!Refuse(c) \/ Pool!Open(c)
<1> USE DEF TypeOK, QueueTypeOK, ClientTypeOK
<1>1. Phase[c] = "asked" /\ UNCHANGED <<tagnbr, cmd>>
  BY DEF cmdqueue_insert, InsertAmong, Phase
<1>2. CASE cmd[c] \in LongCmds \/ \A s \in Slots : ~Free(s)
  <2>1. UNCHANGED cmdq /\ pc' = [pc EXCEPT ![c] = "idle"]
    BY <1>2 DEF cmdqueue_insert, InsertAmong
  <2>2. OpenCmds' = OpenCmds
    BY <2>1 DEF OpenCmds, InUse, Free
  <2>3. Phase' = [Phase EXCEPT ![c] = "idle"]
    BY <2>1 DEF Phase
  <2>4. cmd[c] \in LongCmds \/ Cardinality(OpenCmds) = QLen
    BY <1>2, OpenCount
  <2> QED BY <1>1, <2>2, <2>3, <2>4, PoolCounts DEF Pool!Refuse
<1>3. CASE ~(cmd[c] \in LongCmds \/ \A s \in Slots : ~Free(s))
  <2>1. PICK s \in Slots :
          /\ Free(s)
          /\ cmdq' = [cmdq EXCEPT ![s].ts = 1, ![s].devid = devid[c],
                                  ![s].cmd = cmd[c]]
          /\ pc' = [pc EXCEPT ![c] = "write"]
    BY <1>3 DEF cmdqueue_insert, InsertAmong
  <2>2. /\ cmdq'[s].ts = 1 /\ cmdq'[s].cmd = cmd[c]
        /\ \A t \in Slots \ {s} : cmdq'[t] = cmdq[t]
    BY <2>1 DEF Entries
  <2>3. InUse' = InUse \cup {s} /\ s \notin InUse
    BY <2>1, <2>2 DEF InUse, Free
  <2>4. OpenCmds' = OpenCmds \cup {cmd[c]}
    BY <2>2, <2>3 DEF OpenCmds, InUse
  <2>5. cmd[c] \notin OpenCmds
    BY DEF cmdqueue_insert, InsertAmong, Numbering, OpenCmds, InUse
  <2>6. Cardinality(OpenCmds) < QLen
    BY <2>1, OpenCount, CmdQueueAssumption
  <2>7. Phase' = [Phase EXCEPT ![c] = "open"]
    BY <2>1 DEF Phase
  <2> QED BY <1>1, <1>3, <2>4, <2>5, <2>6, <2>7, PoolCounts DEF Pool!Open
<1> QED BY <1>2, <1>3

\* Writing the command changes nothing for the pool, or abandons it.
LEMMA PoolWrite ==
    ASSUME TypeOK, Ownership, NEW c \in Clients, write_cmd(c)
    PROVE  Pool!Abandon(c) \/ UNCHANGED Pool!poolVars
<1> USE DEF TypeOK, QueueTypeOK, ClientTypeOK
<1>1. UNCHANGED <<tagnbr, cmd, cmdq>> /\ pc[c] = "write"
  BY DEF write_cmd
<1>2. OpenCmds' = OpenCmds
  BY <1>1 DEF OpenCmds, InUse, Free
<1>3. CASE pc' = [pc EXCEPT ![c] = "wait"]
  <2>1. Phase' = Phase
    BY <1>1, <1>3 DEF Phase
  <2> QED BY <1>1, <1>2, <2>1 DEF Pool!poolVars
<1>4. CASE pc' = [pc EXCEPT ![c] = "idle"]
  <2>1. Phase' = [Phase EXCEPT ![c] = "idle"] /\ Phase[c] = "open"
    BY <1>1, <1>4 DEF Phase
  <2>2. slot[c] \in InUse /\ cmdq[slot[c]].cmd = cmd[c]
    BY <1>1 DEF Ownership, EntryIsOwn, Holds, InUse, Free
  <2>3. cmd[c] \in OpenCmds
    BY <2>2 DEF OpenCmds
  <2> QED BY <1>1, <1>2, <2>1, <2>3 DEF Pool!Abandon
<1> QED BY <1>3, <1>4 DEF write_cmd

\* Clearing the entry settles the command.
LEMMA PoolClear ==
    ASSUME TypeOK, Ownership, Numbering, NEW c \in Clients, cmdqueue_clridx(c)
    PROVE  Pool!Settle(c)
<1> USE DEF TypeOK, QueueTypeOK, ClientTypeOK
<1>1. /\ pc[c] = "clear" /\ pc' = [pc EXCEPT ![c] = "idle"] /\ UNCHANGED <<tagnbr, cmd>>
      /\ cmdq'[slot[c]] = Empty /\ \A t \in Slots \ {slot[c]} : cmdq'[t] = cmdq[t]
  BY DEF cmdqueue_clridx, EndClearing
<1>2. slot[c] \in InUse /\ cmdq[slot[c]].cmd = cmd[c]
  BY <1>1 DEF Ownership, EntryIsOwn, Holds, InUse, Free
<1>3. InUse' = InUse \ {slot[c]}
  BY <1>1 DEF InUse, Free, Empty
<1>4. \A s \in InUse \ {slot[c]} : cmdq[s].cmd # cmd[c] /\ cmdq'[s].cmd = cmdq[s].cmd
  BY <1>1, <1>2 DEF Numbering, InUse
<1>5. OpenCmds' = OpenCmds \ {cmd[c]}
  BY <1>2, <1>3, <1>4 DEF OpenCmds
<1>6. cmd[c] \in OpenCmds
  BY <1>2 DEF OpenCmds
<1>7. Phase' = [Phase EXCEPT ![c] = "idle"] /\ Phase[c] = "open"
  BY <1>1 DEF Phase
<1> QED BY <1>1, <1>5, <1>6, <1>7 DEF Pool!Settle

\* The queue starts as an empty pool.
LEMMA PoolInitial == Init => Pool!PoolInit
<1> SUFFICES ASSUME Init PROVE Pool!PoolInit
  OBVIOUS
<1>1. Phase = [c \in Clients |-> "idle"]
  BY DEF Init, Phase
<1>2. InUse = {}
  BY DEF Init, InUse, Free, Empty
<1>3. OpenCmds = {}
  BY <1>2 DEF OpenCmds
<1> QED BY <1>1, <1>3 DEF Init, Pool!PoolInit

\* Every step of the queue is a step of the pool or invisible to it.
LEMMA PoolStep ==
    TypeOK /\ Ownership /\ Numbering /\ [Next]_vars => [Pool!PoolNext]_(Pool!poolVars)
<1> SUFFICES ASSUME TypeOK, Ownership, Numbering, [Next]_vars
             PROVE  Pool!PoolNext \/ UNCHANGED Pool!poolVars
  OBVIOUS
<1> USE DEF clientVars, netVars, trackerVars
<1>1. ASSUME NEW c \in Clients, NEW d \in Devices, send_rawcmd_reply_over_gprs(c, d)
      PROVE  Pool!PoolNext
  BY <1>1, PoolSend DEF Pool!PoolNext
<1>2. ASSUME NEW c \in Clients, cmdqueue_insert(c)
      PROVE  Pool!PoolNext
  BY <1>2, PoolInsert DEF Pool!PoolNext
<1>3. ASSUME NEW c \in Clients, write_cmd(c)
      PROVE  Pool!PoolNext \/ UNCHANGED Pool!poolVars
  BY <1>3, PoolWrite DEF Pool!PoolNext
<1>4. ASSUME NEW c \in Clients, check_reply_found(c) \/ check_reply_timeout(c)
      PROVE  UNCHANGED Pool!poolVars
  <2>1. UNCHANGED <<cmdq, tagnbr, cmd>> /\ pc[c] = "wait" /\ pc' = [pc EXCEPT ![c] = "clear"]
    BY <1>4 DEF check_reply_found, check_reply_timeout
  <2>2. OpenCmds' = OpenCmds
    BY <2>1 DEF OpenCmds, InUse, Free
  <2>3. Phase' = Phase
    BY <2>1 DEF Phase, TypeOK, ClientTypeOK
  <2> QED BY <2>1, <2>2, <2>3 DEF Pool!poolVars
<1>5. ASSUME NEW c \in Clients, cmdqueue_clridx(c)
      PROVE  Pool!PoolNext
  BY <1>5, PoolClear DEF Pool!PoolNext
<1>6. ASSUME NEW d \in Devices, TrackerStep(d)
      PROVE  UNCHANGED Pool!poolVars
  BY <1>6, TrackerFrame, PoolFrame
<1>7. ASSUME NEW d \in Devices, Environment(d)
      PROVE  UNCHANGED Pool!poolVars
  <2>1. UNCHANGED <<cmdq, leaked, tagnbr, pc, cmd>>
    BY <1>7 DEF Environment, Connect, KeepAlive, Disconnect, DropConnection
  <2> QED BY <2>1, PoolFrame DEF SameOwners
<1>8. CASE UNCHANGED vars
  BY <1>8, PoolFrame DEF vars, SameOwners
<1> QED
  BY <1>1, <1>2, <1>3, <1>4, <1>5, <1>6, <1>7, <1>8 DEF Next, ClientStep

\* The queue implements the pool, for any number of threads, trackers and entries: an
\* insertion is refused only when no entry is free or the command fits in none, a
\* command has one entry, and only its own sender takes it out.
THEOREM QueueImplementsPool == Spec => ImplementsPool
BY PoolInitial, PoolStep, TypeCorrect, OwnershipInvariant, NumberingInvariant, PTL
   DEF Spec, ImplementsPool, Pool!PoolSpec
=============================================================================

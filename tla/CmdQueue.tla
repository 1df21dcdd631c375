------------------------------ MODULE CmdQueue ------------------------------
(***************************************************************************)
(* Commands to a tracker over GPRS (src/src/g7sendcmd.c, tracker.c).       *)
(*                                                                         *)
(* A command-client thread sends a command on the tracker's socket, parks  *)
(* it in the shared array cmdq and polls its entry until the tracker's own *)
(* thread has stored the reply there, or until CMDQUEUE_TIMEOUT.  Inserts  *)
(* and clears hold cmdqueue_mutex; the tracker thread searches the array   *)
(* and writes into the entry it found without holding it.                  *)
(***************************************************************************)
EXTENDS Integers, Sequences, FiniteSets

CONSTANTS Clients,   \* command-client threads (cmd_clientsrv)
          Devices,   \* trackers, one tracker_clientsrv thread for each
          NoDev,     \* device id 0: not yet known, or an empty entry
          QLen,      \* MAX_CMDQUEUE_LEN
          TagMod,    \* number of command tags: 10000 in the code
          LongCmds,  \* those of the commands that are longer than an entry can hold
          MaxCmds,   \* bound: commands issued in a behaviour
          MaxDrops   \* bound: connections that end in a behaviour

ASSUME CmdQueueAssumption ==
    /\ Devices # {}
    /\ NoDev \notin Devices
    /\ QLen \in Nat \ {0}
    /\ TagMod \in Nat \ {0}
    /\ MaxCmds \in Nat \ {0}
    /\ MaxDrops \in Nat

Slots == 1..QLen

\* The n-th command gets tag n % TagMod: tagnbr is incremented and wraps to 0.
\* n itself is the identity of the command, which the code does not have.
get_device_tag(n) == n % TagMod

\* What a tracker answers to a command, late or never: "$OK:..+tag=.." or
\* "$ERR:..+tag=..", the location line of GETLOCATION (no tag; a command so
\* answered was that one), or the short "$ERR:n" (no tag).
Kinds    == {"tagged", "location", "short"}
Packages == [kind : Kinds, cmd : 1..MaxCmds, dev : Devices]
PackagesOf(d) == [kind : Kinds, cmd : 1..MaxCmds, dev : {d}]

\* Contents of a reply buffer: nothing, a package, or a mixture of two packages
\* that were written, or read and written, at the same time.
NoReply == [kind |-> "none", cmd |-> 0, dev |-> NoDev]
Torn    == [kind |-> "torn", cmd |-> 0, dev |-> NoDev]
Replies == Packages \cup {NoReply, Torn}

\* ts is 0 or a time (1); validreply is a C flag.
Empty == [devid |-> NoDev, ts |-> 0, cmd |-> 0, reply |-> NoReply, validreply |-> 0]

VARIABLES
    cmdq,    \* the queue: an entry of struct cmdqueue_t for each slot
    tagnbr,  \* number of commands issued so far
    pc,      \* where each client thread is in send_rawcmd_reply_over_gprs
    cmd,     \* the command the client is sending, or sent last
    target,  \* target_socket: the tracker whose connection it is sent on
    devid,   \* target_deviceid: its id when it was chosen as the target
    slot,    \* cmdqueue_idx
    got,     \* the client's copy of the reply
    rc,      \* outcome of the client's last command
    tpc,     \* where each tracker thread is in handleCmdReplyPackage
    entry,   \* the tracker thread's pointer into cmdq
    pkg,     \* the package it is handling
    conn,    \* the trackers that are connected
    ident,   \* those whose first KEEP_ALIVE arrived: cli_devid is set
    inbox,   \* commands sent on its connection whose answer has not arrived
    drops,   \* connections that have ended so far
    leaked   \* history: entries whose sender gave up without clearing them

clientVars  == <<pc, cmd, target, devid, slot, got, rc>>
trackerVars == <<tpc, entry, pkg>>
netVars     == <<conn, ident, inbox, drops>>
vars == <<cmdq, tagnbr, leaked, clientVars, trackerVars, netVars>>

\* Mutation of Free: an entry with device id 0 counts as empty.
FreeByDevidOnly(s) == cmdq[s].devid = NoDev

\* An entry is empty if both its device id and its time stamp are 0.
Free(s) == cmdq[s].devid = NoDev /\ cmdq[s].ts = 0

Init ==
    /\ cmdq = [s \in Slots |-> Empty]
    /\ tagnbr = 0
    /\ pc = [c \in Clients |-> "idle"]
    /\ cmd = [c \in Clients |-> 0]
    /\ target = [c \in Clients |-> NoDev]
    /\ devid = [c \in Clients |-> NoDev]
    /\ slot = [c \in Clients |-> 1]
    /\ got = [c \in Clients |-> NoReply]
    /\ rc = [c \in Clients |-> "none"]
    /\ tpc = [d \in Devices |-> "idle"]
    /\ entry = [d \in Devices |-> 1]
    /\ pkg = [d \in Devices |-> NoReply]
    /\ conn = {}
    /\ ident = {}
    /\ inbox = [d \in Devices |-> {}]
    /\ drops = 0
    /\ leaked = {}

-----------------------------------------------------------------------------
(* The client thread                                                       *)

\* send_rawcmd_reply_over_gprs up to the test that the target is still in the
\* client list; the tag was drawn when the command was prepared.
send_rawcmd_reply_over_gprs(c, d) ==
    /\ pc[c] = "idle"
    /\ tagnbr < MaxCmds
    /\ tagnbr' = tagnbr + 1
    /\ cmd' = [cmd EXCEPT ![c] = tagnbr + 1]
    /\ target' = [target EXCEPT ![c] = d]
    /\ devid' = [devid EXCEPT ![c] = IF d \in ident THEN d ELSE NoDev]
    /\ got' = [got EXCEPT ![c] = NoReply]
    /\ \/ /\ d \in conn
          /\ pc' = [pc EXCEPT ![c] = "insert"]
          /\ rc' = [rc EXCEPT ![c] = "none"]
       \/ /\ d \notin conn
          /\ rc' = [rc EXCEPT ![c] = "fail"]
          /\ UNCHANGED pc
    /\ UNCHANGED <<cmdq, slot, leaked, trackerVars, netVars>>

\* The first empty entry of S; -1 if there is none or the command is too long.  The
\* reply fields of the entry are not initialised.
InsertAmong(c, S) ==
    /\ pc[c] = "insert"
    /\ \/ \E s \in S :
            /\ cmd[c] \notin LongCmds
            /\ Free(s)
            /\ \A t \in S : t < s => ~Free(t)
            /\ cmdq' = [cmdq EXCEPT ![s].ts = 1, ![s].devid = devid[c], ![s].cmd = cmd[c]]
            /\ slot' = [slot EXCEPT ![c] = s]
            /\ pc' = [pc EXCEPT ![c] = "write"]
            /\ UNCHANGED rc
       \/ /\ cmd[c] \in LongCmds \/ \A s \in S : ~Free(s)
          /\ pc' = [pc EXCEPT ![c] = "idle"]
          /\ rc' = [rc EXCEPT ![c] = "fail"]
          /\ UNCHANGED <<cmdq, slot>>
    /\ UNCHANGED <<tagnbr, cmd, target, devid, got, leaked, trackerVars, netVars>>

\* Mutations of cmdqueue_insert: the search stops one entry early; the thread waits
\* for an entry instead of failing.
InsertStopsEarly(c) == InsertAmong(c, Slots \ {QLen})
InsertWaits(c) == InsertAmong(c, Slots) /\ \E s \in Slots : Free(s)

\* The whole search is under cmdqueue_mutex.
cmdqueue_insert(c) == InsertAmong(c, Slots)

\* write() to the tracker's socket.  When it fails the function returns without
\* clearing the entry.
write_cmd(c) ==
    /\ pc[c] = "write"
    /\ \/ /\ target[c] \in conn
          /\ inbox' = [inbox EXCEPT ![target[c]] = @ \cup {cmd[c]}]
          /\ pc' = [pc EXCEPT ![c] = "wait"]
          /\ UNCHANGED <<rc, leaked>>
       \/ /\ leaked' = leaked \cup {slot[c]}
          /\ pc' = [pc EXCEPT ![c] = "idle"]
          /\ rc' = [rc EXCEPT ![c] = "fail"]
          /\ UNCHANGED inbox
    /\ UNCHANGED <<cmdq, tagnbr, cmd, target, devid, slot, got, trackerVars, conn, ident, drops>>

\* The thread of d has found entry s and may be copying a reply into it.
Writing(d, s) == tpc[d] = "matched" /\ entry[d] = s

\* One round of the polling loop that finds a valid reply and copies it.  The
\* copy is a mixture if a tracker thread writes into the entry meanwhile.
check_reply_found(c) ==
    /\ pc[c] = "wait"
    /\ cmdq[slot[c]].validreply = 1
    /\ \/ got' = [got EXCEPT ![c] = cmdq[slot[c]].reply]
       \/ /\ \E d \in Devices : Writing(d, slot[c])
          /\ got' = [got EXCEPT ![c] = Torn]
    /\ pc' = [pc EXCEPT ![c] = "clear"]
    /\ UNCHANGED <<cmdq, tagnbr, cmd, target, devid, slot, rc, leaked, trackerVars, netVars>>

\* A round that finds none, after CMDQUEUE_TIMEOUT: the loop ends and validreply
\* is not looked at again.
check_reply_timeout(c) ==
    /\ pc[c] = "wait"
    /\ cmdq[slot[c]].validreply = 0
    /\ pc' = [pc EXCEPT ![c] = "clear"]
    /\ UNCHANGED <<cmdq, tagnbr, cmd, target, devid, slot, got, rc, leaked, trackerVars, netVars>>

\* Mutation of handle_device_reply: the tag is not compared.
ReplyTagIgnored(r, n) == IF r.kind = "none" THEN {"fail"} ELSE {"ok"}

\* handle_device_reply: a location line is accepted whatever was asked, any
\* other reply must carry the tag of the command ("ok": the device's verdict, good
\* or bad, is given to the user).  A torn buffer may parse as anything.
handle_device_reply(r, n) ==
    CASE r.kind = "location" -> {"ok"}
      [] r.kind = "torn" -> {"ok", "fail"}
      [] r.kind = "tagged" /\ get_device_tag(r.cmd) = get_device_tag(n) -> {"ok"}
      [] OTHER -> {"fail"}

\* The entries S are emptied, under cmdqueue_mutex; then the reply, if there is one,
\* is checked and given to the user.
EndClearing(c, S) ==
    /\ pc[c] = "clear"
    /\ cmdq' = [s \in Slots |-> IF s \in S THEN Empty ELSE cmdq[s]]
    /\ pc' = [pc EXCEPT ![c] = "idle"]
    /\ slot' = [slot EXCEPT ![c] = 1]
    /\ \E o \in handle_device_reply(got[c], cmd[c]) : rc' = [rc EXCEPT ![c] = o]
    /\ UNCHANGED <<tagnbr, cmd, target, devid, got, leaked, trackerVars, netVars>>

\* Mutations of cmdqueue_clridx: not after a timeout; a wrong index as well.
ClearOnReplyOnly(c) == EndClearing(c, IF got[c] = NoReply THEN {} ELSE {slot[c]})
ClearFirstToo(c) == EndClearing(c, {1, slot[c]})

\* The entry is cleared on both ways out of the polling loop.
cmdqueue_clridx(c) == EndClearing(c, {slot[c]})

-----------------------------------------------------------------------------
(* The tracker thread: handleCmdReplyPackage                               *)

\* cmdqueue_match: a reply without a tag matches every entry of the device.
Matches(d, p, s) ==
    /\ d \in ident
    /\ cmdq[s].devid = d
    /\ p.kind = "tagged" => get_device_tag(cmdq[s].cmd) = get_device_tag(p.cmd)

\* A package p arrives and the queue is searched, without the mutex, for the first
\* match; a stray reply is dropped.
cmdqueue_match(d, p) ==
    /\ tpc[d] = "idle"
    /\ p.cmd \in inbox[d]
    /\ inbox' = [inbox EXCEPT ![d] = @ \ {p.cmd}]
    /\ \/ \E s \in Slots :
            /\ Matches(d, p, s)
            /\ \A t \in Slots : t < s => ~Matches(d, p, t)
            /\ entry' = [entry EXCEPT ![d] = s]
            /\ pkg' = [pkg EXCEPT ![d] = p]
            /\ tpc' = [tpc EXCEPT ![d] = "matched"]
       \/ /\ \A s \in Slots : ~Matches(d, p, s)
          /\ UNCHANGED trackerVars
    /\ UNCHANGED <<cmdq, tagnbr, leaked, clientVars, conn, ident, drops>>

\* The copy into entry->reply ends.  Until then the buffer may hold a mixture;
\* two copies into one entry at the same time may leave one behind.
write_reply(d) ==
    /\ tpc[d] = "matched"
    /\ \/ cmdq' = [cmdq EXCEPT ![entry[d]].reply = pkg[d]]
       \/ /\ \E e \in Devices \ {d} : Writing(e, entry[d])
          /\ cmdq' = [cmdq EXCEPT ![entry[d]].reply = Torn]
    /\ tpc' = [tpc EXCEPT ![d] = "written"]
    /\ UNCHANGED <<tagnbr, leaked, clientVars, entry, pkg, netVars>>

set_validreply(d) ==
    /\ tpc[d] = "written"
    /\ cmdq' = [cmdq EXCEPT ![entry[d]].validreply = 1]
    /\ tpc' = [tpc EXCEPT ![d] = "idle"]
    /\ pkg' = [pkg EXCEPT ![d] = NoReply]
    /\ entry' = [entry EXCEPT ![d] = 1]
    /\ UNCHANGED <<tagnbr, leaked, clientVars, netVars>>

-----------------------------------------------------------------------------
(* The connections, as far as the queue sees them                          *)

Connect(d) ==
    /\ d \notin conn
    /\ conn' = conn \cup {d}
    /\ UNCHANGED <<cmdq, tagnbr, leaked, clientVars, trackerVars, ident, inbox, drops>>

\* The first KEEP_ALIVE on the connection tells the device id.
KeepAlive(d) ==
    /\ d \in conn
    /\ d \notin ident
    /\ tpc[d] = "idle"
    /\ ident' = ident \cup {d}
    /\ UNCHANGED <<cmdq, tagnbr, leaked, clientVars, trackerVars, conn, inbox, drops>>

\* The connection ends between two packages; what is in flight is lost.
DropConnection(d, forget) ==
    /\ d \in conn
    /\ tpc[d] = "idle"
    /\ drops < MaxDrops
    /\ drops' = drops + 1
    /\ conn' = conn \ {d}
    /\ ident' = ident \ forget
    /\ inbox' = [inbox EXCEPT ![d] = {}]
    /\ UNCHANGED <<cmdq, tagnbr, leaked, clientVars, trackerVars>>

\* Mutation of Disconnect: the device id stays in the client list.
DisconnectKeepsId(d) == DropConnection(d, {})

Disconnect(d) == DropConnection(d, {d})

-----------------------------------------------------------------------------
ClientStep(c) ==
    \/ cmdqueue_insert(c)
    \/ write_cmd(c)
    \/ check_reply_found(c)
    \/ check_reply_timeout(c)
    \/ cmdqueue_clridx(c)

TrackerStep(d) ==
    \/ \E p \in PackagesOf(d) : cmdqueue_match(d, p)
    \/ write_reply(d)
    \/ set_validreply(d)

Environment(d) ==
    \/ Connect(d)
    \/ KeepAlive(d)
    \/ Disconnect(d)

Next ==
    \/ \E c \in Clients : \/ \E d \in Devices : send_rawcmd_reply_over_gprs(c, d)
                          \/ ClientStep(c)
    \/ \E d \in Devices : TrackerStep(d) \/ Environment(d)

Spec == Init /\ [][Next]_vars

\* A client thread that has started to send keeps running: it never blocks on
\* anything but cmdqueue_mutex, which is held for a bounded time.  Neither users
\* nor trackers nor the network owe the daemon anything.
FairSpec == Spec /\ \A c \in Clients : WF_vars(ClientStep(c))
-----------------------------------------------------------------------------
(* Properties                                                              *)

ClientPcs  == {"idle", "insert", "write", "wait", "clear"}
TrackerPcs == {"idle", "matched", "written"}
Entries == [devid : Devices \cup {NoDev}, ts : {0, 1}, cmd : 0..MaxCmds,
            reply : Replies, validreply : {0, 1}]

QueueTypeOK ==
    /\ cmdq \in [Slots -> Entries]
    /\ tagnbr \in 0..MaxCmds
    /\ leaked \subseteq Slots
ClientTypeOK ==
    /\ pc \in [Clients -> ClientPcs]
    /\ cmd \in [Clients -> 0..MaxCmds]
    /\ target \in [Clients -> Devices \cup {NoDev}]
    /\ devid \in [Clients -> Devices \cup {NoDev}]
    /\ slot \in [Clients -> Slots]
    /\ got \in [Clients -> Replies]
    /\ rc \in [Clients -> {"none", "ok", "fail"}]
TrackerTypeOK ==
    /\ tpc \in [Devices -> TrackerPcs]
    /\ entry \in [Devices -> Slots]
    /\ pkg \in [Devices -> Replies]
NetTypeOK ==
    /\ conn \subseteq Devices
    /\ ident \subseteq conn
    /\ inbox \in [Devices -> SUBSET (0..MaxCmds)]
    /\ drops \in 0..MaxDrops

\* Every variable has its type.
TypeOK == QueueTypeOK /\ ClientTypeOK /\ TrackerTypeOK /\ NetTypeOK

\* The client is between the insertion and the clearing of its entry.
Holds(c) == pc[c] \in {"write", "wait", "clear"}

\* An entry belongs to one command from its insertion until its own sender clears
\* it: whoever holds an index finds its own device id and command there, however
\* timeouts, late replies and failed writes of others interleave.  Two commands
\* never share an entry, not even for trackers whose id is still 0.
EntryIsOwn ==
    /\ \A c \in Clients : Holds(c) =>
         /\ cmdq[slot[c]].ts = 1
         /\ cmdq[slot[c]].cmd = cmd[c]
         /\ cmdq[slot[c]].devid = devid[c]
         /\ slot[c] \notin leaked
    /\ \A c, e \in Clients : Holds(c) /\ Holds(e) /\ c # e => slot[c] # slot[e]

\* The only entries that are never given back are those of failed writes: every
\* other entry in use has a thread that is going to clear it.
InUseIsHeldOrLeaked ==
    \A s \in Slots : ~Free(s) =>
        s \in leaked \/ \E c \in Clients : Holds(c) /\ slot[c] = s

\* The invariant behind the two: leaked entries are in use, so they are never
\* given out again.
Ownership == EntryIsOwn /\ InUseIsHeldOrLeaked /\ \A s \in leaked : cmdq[s].ts = 1

\* What the implementation of the pool needs besides: no number is ahead of the
\* counter, commands under way have numbers of their own, and the number of a command
\* that waits for an entry is in no entry in use, leaked ones included.
Numbering ==
    /\ \A s \in Slots : cmdq[s].cmd <= tagnbr
    /\ \A c \in Clients : cmd[c] <= tagnbr
    /\ \A c, e \in Clients : pc[c] # "idle" /\ pc[e] # "idle" /\ c # e => cmd[c] # cmd[e]
    /\ \A s, t \in Slots : ~Free(s) /\ ~Free(t) /\ s # t => cmdq[s].cmd # cmdq[t].cmd
    /\ \A c \in Clients, s \in Slots : pc[c] = "insert" /\ ~Free(s) => cmdq[s].cmd # cmd[c]

\* The tag check of handle_device_reply protects a command from the replies that
\* the unlocked matching stores in the wrong entry: a tagged reply is accepted
\* only by the command it answers, or by one that got the same tag a full turn of
\* the tag counter earlier or later.
AcceptedTagIsOwn ==
    \A c \in Clients :
        rc[c] = "ok" /\ got[c].kind = "tagged" =>
            \/ got[c].cmd = cmd[c]
            \/ got[c].cmd - cmd[c] >= TagMod
            \/ cmd[c] - got[c].cmd >= TagMod

\* Its inductive form: an accepted command has ended, and its tagged reply carries
\* its tag.
TagsAgree ==
    \A c \in Clients :
        /\ pc[c] # "idle" => rc[c] = "none"
        /\ rc[c] = "ok" /\ got[c].kind = "tagged" =>
             get_device_tag(got[c].cmd) = get_device_tag(cmd[c])

\* An entry in use changes its command only by being emptied, and only by the
\* thread that holds it.
OnlyHolderClears ==
    [][\A s \in Slots :
         ~Free(s) /\ cmdq[s].cmd # cmdq'[s].cmd =>
            \E c \in Clients : /\ pc[c] = "clear" /\ pc'[c] = "idle"
                               /\ slot[c] = s /\ cmdq'[s] = Empty]_vars

\* Every command that is sent ends, answered or not: the polling loop ends by
\* itself when the tracker is gone, and no entry keeps a client waiting.
CommandEnds == \A c \in Clients : pc[c] # "idle" ~> pc[c] = "idle"

\* The pool of CmdPool as the queue keeps it: where a command is, and those in entries.
Phase == [c \in Clients |-> CASE pc[c] = "idle"   -> "idle"
                              [] pc[c] = "insert" -> "asked"
                              [] OTHER            -> "open"]
InUse == {s \in Slots : ~Free(s)}
OpenCmds == {cmdq[s].cmd : s \in InUse}

Pool == INSTANCE CmdPool WITH
    Capacity <- QLen, issued <- tagnbr, phase <- Phase, number <- cmd, open <- OpenCmds

\* The queue implements the pool of CmdPool: a command is refused only when every
\* entry is in use or it fits in none, no command is in two entries, and each one
\* leaves the queue once, by its own sender, or never.
ImplementsPool == Pool!PoolSpec

\* tracker.c: "find out which client sent this command so we can send the reply
\* back to the correct socket".  A successful command was answered by the reply
\* to that command.
OkReplyIsOwn ==
    \A c \in Clients : rc[c] = "ok" => got[c].cmd = cmd[c] \/ got[c] = Torn
=============================================================================

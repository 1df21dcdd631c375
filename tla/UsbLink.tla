------------------------------- MODULE UsbLink -------------------------------
(***************************************************************************)
(* Commands over USB and the download of a device's memory                 *)
(* (send_rawcmd_reply_over_usb, send_cmdquery_reply, get_numrec and        *)
(* get_dlrec_to_db of src/src/g7sendcmd.c; src/src/serial.c).  Threads of  *)
(* several sessions use the serial port of one device.  A thread opens it  *)
(* and then asks for exclusive use: whoever opens in between has it too,   *)
(* and every write first throws away what has arrived for the other.       *)
(*                                                                         *)
(* What the device sends is cut into pieces, and a read returns some of    *)
(* them: the head of an answer with its tag, its end, a recorded location, *)
(* the two halves of the message that ends a download.  A location is its  *)
(* time and its event, a row of the table likewise.  The interleaving of   *)
(* the store with other users of the database is the subject of Database.  *)
(***************************************************************************)
EXTENDS Rows, SequencesExt

CONSTANTS UsbThreads,   \* sessions that use the device
          MaxUsbOps,    \* bound: operations
          MaxDownloads, \* bound: how many of them are downloads
          MaxTries      \* MAX_TRIES of serial_read_line

ASSUME UsbAssumption == {MaxUsbOps, MaxDownloads, MaxTries} \subseteq Nat

VARIABLES
    plugged,   \* is_usb_connected
    opened,    \* threads that have the port open
    exclusive, \* TIOCEXCL is set
    devq,      \* commands that the device has not answered
    sending,   \* pieces the device still sends
    tty,       \* pieces in the input queue of the port
    memory,    \* locations recorded in the device
    track,     \* rows of tbl_track
    usbpc, opof, utag, rbuff, usbtries, urc,
    tagnbr, usbOps, downloads,
    shared,    \* history: another thread opened the port during the operation
    wanted_loc \* history: the memory when the thread asked for its download

usbVars == <<plugged, opened, exclusive, devq, sending, tty, memory, track, usbpc, opof, utag,
             rbuff, usbtries, urc, tagnbr, usbOps, downloads, shared, wanted_loc>>

Piece(k, g) == [kind |-> k, tag |-> g, time |-> 0, ev |-> 0]
Loc(t, e) == [kind |-> "loc", tag |-> 0, time |-> t, ev |-> e]

UsbInit ==
    /\ plugged = TRUE /\ opened = {} /\ exclusive = FALSE
    /\ devq = <<>> /\ sending = <<>> /\ tty = <<>>
    /\ memory \in {<<>>, <<Loc(1, 2)>>} /\ track = <<Loc(1, 1)>>
    /\ usbpc = [t \in UsbThreads |-> "idle"] /\ opof = [t \in UsbThreads |-> "cmd"]
    /\ utag = [t \in UsbThreads |-> 0] /\ tagnbr = 0 /\ rbuff = [t \in UsbThreads |-> <<>>]
    /\ usbtries = [t \in UsbThreads |-> 0] /\ urc = [t \in UsbThreads |-> "none"]
    /\ usbOps = 0 /\ downloads = 0 /\ shared = [t \in UsbThreads |-> FALSE] /\ wanted_loc = [t \in UsbThreads |-> {}]

UsbGoto(t, l) == usbpc' = [usbpc EXCEPT ![t] = l]

UsbDevice == <<devq, sending, memory, wanted_loc>>
UsbThread == <<opof, utag, tagnbr, usbOps, downloads, shared>>

\* A session starts a command, or a download, which first asks for the number of locations
\* (get_numrec); a device that is not connected is an error.
StartUsb(t, o) ==
    /\ usbpc[t] = "idle" /\ usbOps < MaxUsbOps
    /\ o = "cmd" \/ downloads < MaxDownloads
    /\ usbOps' = usbOps + 1 /\ downloads' = IF o = "cmd" THEN downloads ELSE downloads + 1
    /\ tagnbr' = tagnbr + 1
    /\ opof' = [opof EXCEPT ![t] = o] /\ utag' = [utag EXCEPT ![t] = tagnbr']
    /\ rbuff' = [rbuff EXCEPT ![t] = <<>>] /\ usbtries' = [usbtries EXCEPT ![t] = 0]
    /\ shared' = [shared EXCEPT ![t] = FALSE]
    /\ UsbGoto(t, IF plugged THEN "open" ELSE "idle")
    /\ urc' = [urc EXCEPT ![t] = IF plugged THEN "none" ELSE "error"]
    /\ UNCHANGED <<plugged, opened, exclusive, tty, track>> /\ UNCHANGED UsbDevice

\* serial_open: EBUSY once somebody has exclusive use, ENOENT when the device is gone.
serial_open(t) ==
    /\ usbpc[t] = "open"
    /\ \/ /\ exclusive \/ ~plugged
          /\ UsbGoto(t, "idle") /\ urc' = [urc EXCEPT ![t] = "error"]
          /\ UNCHANGED <<opened, shared>>
       \/ /\ ~exclusive /\ plugged
          /\ opened' = opened \cup {t}
          /\ shared' = [s \in UsbThreads |-> shared[s] \/ (IF s = t THEN opened # {} ELSE usbpc[s] # "idle")]
          /\ UsbGoto(t, "setup") /\ UNCHANGED urc
    /\ UNCHANGED <<plugged, exclusive, tty, track, opof, utag, tagnbr, rbuff, usbtries, usbOps, downloads>> /\ UNCHANGED UsbDevice

\* TIOCEXCL, and TCSAFLUSH with the line settings.
SetExclusive(t) ==
    /\ usbpc[t] = "setup"
    /\ exclusive' = TRUE /\ tty' = <<>> /\ UsbGoto(t, "write")
    /\ UNCHANGED <<plugged, opened, track, rbuff, usbtries, urc>> /\ UNCHANGED UsbThread /\ UNCHANGED UsbDevice

\* serial_close: flush; the last close ends the exclusive use.
Closed(t) ==
    /\ tty' = <<>> /\ opened' = opened \ {t}
    /\ exclusive' = (exclusive /\ opened' # {})

\* Every failure after serial_open closes the port; what the call had on its stack is gone.
FailUsb(t) ==
    /\ Closed(t) /\ UsbGoto(t, "idle")
    /\ urc' = [urc EXCEPT ![t] = "error"] /\ rbuff' = [rbuff EXCEPT ![t] = <<>>]
    /\ opof' = [opof EXCEPT ![t] = "cmd"] /\ utag' = [utag EXCEPT ![t] = 0]
    /\ usbtries' = [usbtries EXCEPT ![t] = 0] /\ shared' = [shared EXCEPT ![t] = FALSE]
    /\ wanted_loc' = [wanted_loc EXCEPT ![t] = {}]

\* serial_write: flush, then the command, until it has left the port (tcdrain).
serial_write(t) ==
    /\ usbpc[t] = "write"
    /\ IF plugged
       THEN /\ tty' = <<>> /\ devq' = Append(devq, [op |-> opof[t], tag |-> utag[t]])
            /\ wanted_loc' = [wanted_loc EXCEPT ![t] = IF opof[t] = "dlrec" THEN ToSet(memory) ELSE @]
            /\ UsbGoto(t, "read") /\ UNCHANGED <<opened, exclusive, opof, utag, urc, rbuff, usbtries, shared>>
       ELSE FailUsb(t) /\ UNCHANGED devq
    /\ UNCHANGED <<plugged, sending, memory, track, tagnbr, usbOps, downloads>>

-----------------------------------------------------------------------------
\* The device takes up a command, sends the pieces of its answer, records a location, and goes.
AnswerTo(c) ==
    <<Piece("head", c.tag), Piece("eol", c.tag)>>
        \o (IF c.op = "dlrec" THEN memory \o <<Piece("end1", c.tag), Piece("end2", c.tag)>> ELSE <<>>)

DeviceTakes ==
    /\ plugged /\ sending = <<>> /\ devq # <<>>
    /\ sending' = AnswerTo(Head(devq)) /\ devq' = Tail(devq)
    /\ UNCHANGED <<plugged, opened, exclusive, tty, memory, wanted_loc, track, usbpc, rbuff, usbtries, urc>>
    /\ UNCHANGED UsbThread

DeviceSendsPiece ==
    /\ plugged /\ sending # <<>>
    /\ tty' = Append(tty, Head(sending)) /\ sending' = Tail(sending)
    /\ UNCHANGED <<plugged, opened, exclusive, devq, memory, wanted_loc, track, usbpc, rbuff, usbtries, urc>>
    /\ UNCHANGED UsbThread

\* A report that the device sends of its own is a line of the port as well.
DeviceRecords ==
    /\ plugged /\ Loc(2, 1) \notin ToSet(memory)
    /\ memory' = Append(memory, Loc(2, 1))
    /\ tty' \in {tty} \cup (IF sending = <<>> THEN {Append(tty, Loc(2, 1))} ELSE {})
    /\ UNCHANGED <<plugged, opened, exclusive, devq, sending, wanted_loc, track, usbpc, rbuff, usbtries, urc>>
    /\ UNCHANGED UsbThread

Unplug ==
    /\ plugged /\ plugged' = FALSE
    /\ sending' = <<>> /\ devq' = <<>> /\ tty' = <<>>
    /\ UNCHANGED <<opened, exclusive, memory, wanted_loc, track, usbpc, rbuff, usbtries, urc>> /\ UNCHANGED UsbThread

-----------------------------------------------------------------------------
\* serial_read_timeout: what has arrived.
serial_read_timeout(t) ==
    /\ usbpc[t] = "read" /\ tty # <<>>
    /\ rbuff' = [rbuff EXCEPT ![t] = @ \o tty]
    /\ tty' = <<>>

\* serial_read_line: it ends with the end of a line.
serial_read_line(t) ==
    /\ opof[t] # "dlrec" /\ usbtries[t] < MaxTries /\ serial_read_timeout(t)
    /\ usbtries' = [usbtries EXCEPT ![t] = @ + 1]
    /\ UsbGoto(t, IF Last(tty).kind \in {"eol", "loc", "end2"} THEN "reply" ELSE "read")
    /\ UNCHANGED <<plugged, opened, exclusive, track, urc>> /\ UNCHANGED UsbThread /\ UNCHANGED UsbDevice

\* Nothing arrives in time: a line is tried MAX_TRIES times, a download fails at once.
ReadNothing(t) ==
    /\ usbpc[t] = "read" /\ tty = <<>>
    /\ opof[t] # "dlrec" /\ usbtries[t] < MaxTries
    /\ usbtries' = [usbtries EXCEPT ![t] = @ + 1]
    /\ UNCHANGED <<plugged, opened, exclusive, tty, track, usbpc, rbuff, urc>>
    /\ UNCHANGED UsbThread /\ UNCHANGED UsbDevice

\* The port of an unplugged device is always readable and has nothing: get_dlrec_to_db never
\* leaves its loop.
UsbTimeout(t) ==
    /\ usbpc[t] = "read"
    /\ IF opof[t] = "dlrec" THEN tty = <<>> /\ plugged ELSE usbtries[t] = MaxTries
    /\ FailUsb(t)
    /\ UNCHANGED <<plugged, devq, sending, memory, track, tagnbr, usbOps, downloads>>

\* Mutant: the tag of the answer is not compared.
AnyTag(t) == rbuff[t][1].kind \in {"head", "loc"}

\* extract_devcmd_reply: a line that is not an answer has no tag.
extract_devcmd_reply(p) == [isok |-> p.kind = "head", tag |-> p.tag]

\* handle_device_reply: the first line has the tag of the command, or is a location that the
\* device sent of its own.
OwnTag(t) ==
    LET reply == extract_devcmd_reply(rbuff[t][1]) IN
    rbuff[t][1].kind = "loc" \/ (reply.isok /\ reply.tag = utag[t])

\* get_numrec: a location is not taken for the number of locations.
get_numrec(t) == opof[t] = "numrec" /\ OwnTag(t) /\ rbuff[t][1].kind = "head"

\* The reply to a command; the one to get_numrec starts the download.
handle_usb_reply(t) ==
    /\ usbpc[t] = "reply"
    /\ Closed(t)
    /\ LET number == get_numrec(t) IN
       /\ UsbGoto(t, IF number /\ plugged THEN "open" ELSE "idle")
       /\ urc' = [urc EXCEPT ![t] = IF number /\ plugged THEN "none"
                                   ELSE IF opof[t] = "cmd" /\ OwnTag(t) THEN "ok" ELSE "error"]
       /\ opof' = [opof EXCEPT ![t] = IF number THEN "dlrec" ELSE @]
       /\ tagnbr' = IF number THEN tagnbr + 1 ELSE tagnbr
       /\ utag' = [utag EXCEPT ![t] = IF number THEN tagnbr' ELSE @]
       /\ rbuff' = [rbuff EXCEPT ![t] = IF urc'[t] = "ok" THEN @ ELSE <<>>]
       /\ usbtries' = [usbtries EXCEPT ![t] = 0]
    /\ UNCHANGED <<plugged, track, usbOps, downloads, shared>> /\ UNCHANGED UsbDevice

\* The loop of get_dlrec_to_db ends when a read ends with the whole message.
EndsDownload(chunk) == Len(chunk) > 1 /\ Last(chunk).kind = "end2" /\ chunk[Len(chunk) - 1].kind = "end1"

ReadDownload(t) ==
    /\ opof[t] = "dlrec" /\ serial_read_timeout(t)
    /\ UsbGoto(t, IF EndsDownload(tty) THEN "stop" ELSE "read")
    /\ UNCHANGED <<plugged, opened, exclusive, track, usbtries, urc>> /\ UNCHANGED UsbThread /\ UNCHANGED UsbDevice

IsLoc(p) == p.kind = "loc"

\* SPDLREC is sent (that it fails is only logged), the port closed, and the data checked: the
\* first line is an answer, whatever its tag, and a location follows it.
StopDownload(t) ==
    /\ usbpc[t] = "stop"
    /\ IF Len(rbuff[t]) > 2 /\ rbuff[t][1].kind = "head" /\ rbuff[t][2].kind = "eol" /\ IsLoc(rbuff[t][3])
       THEN Closed(t) /\ UsbGoto(t, "store") /\ UNCHANGED <<opof, utag, urc, rbuff, usbtries, shared, wanted_loc>>
       ELSE FailUsb(t)
    /\ devq' = IF plugged THEN Append(devq, [op |-> "spdlrec", tag |-> utag[t]]) ELSE devq
    /\ UNCHANGED <<plugged, sending, memory, track, tagnbr, usbOps, downloads>>

\* The DELETE: of the rows with a time, the first stays.
Distinct(rows) == Kept(rows, {i \in DOMAIN rows : \A k \in 1..(i - 1) : rows[k].time # rows[i].time})

Locations(s) == Kept(s, {i \in DOMAIN s : IsLoc(s[i])})

\* db_store_locations and the removal of duplicates; each can fail, and the first leaves nothing then.
StoreDownload(t) ==
    /\ usbpc[t] = "store"
    /\ LET stored == track \o Locations(rbuff[t]) IN
       \/ track' = Distinct(stored) /\ urc' = [urc EXCEPT ![t] = "imported"]
       \/ track' \in {track, stored} /\ urc' = [urc EXCEPT ![t] = "error"]
    /\ UsbGoto(t, "idle") /\ rbuff' = [rbuff EXCEPT ![t] = <<>>]
    /\ UNCHANGED <<plugged, opened, exclusive, tty, usbtries>> /\ UNCHANGED UsbThread /\ UNCHANGED UsbDevice

UsbNext ==
    \/ \E t \in UsbThreads :
          \/ \E o \in {"cmd", "numrec"} : StartUsb(t, o)
          \/ serial_open(t) \/ SetExclusive(t) \/ serial_write(t)
          \/ serial_read_line(t) \/ ReadDownload(t)
          \/ ReadNothing(t) \/ UsbTimeout(t) \/ handle_usb_reply(t)
          \/ StopDownload(t) \/ StoreDownload(t)
    \/ DeviceTakes \/ DeviceSendsPiece \/ DeviceRecords \/ Unplug

UsbSpec == UsbInit /\ [][UsbNext]_usbVars

-----------------------------------------------------------------------------
UsbTypeOK ==
    /\ {plugged, exclusive} \subseteq BOOLEAN /\ opened \subseteq UsbThreads
    /\ usbpc \in [UsbThreads -> {"idle", "open", "setup", "write", "read", "reply", "stop", "store"}]
    /\ opof \in [UsbThreads -> {"cmd", "numrec", "dlrec"}] /\ usbOps \in 0..MaxUsbOps
    /\ urc \in [UsbThreads -> {"none", "ok", "error", "imported"}]

\* A download that reports success, and during which no other thread got the port open, has
\* a row for the time of every location that the device had when it began to send; a
\* command that reports success was answered by its own answer or by a location, even when
\* threads shared the port; and an idle port is open for nobody (get_dlrec_to_db,
\* handle_device_reply, serial_open, serial_close).
DownloadIsWhole ==
    /\ \A t \in UsbThreads :
          /\ urc[t] = "imported" /\ ~shared[t] =>
                \A l \in wanted_loc[t] : \E i \in DOMAIN track : track[i].time = l.time
          /\ urc[t] = "ok" => rbuff[t][1].kind = "loc" \/ rbuff[t][1].tag = utag[t]
    /\ opened = {t \in UsbThreads : usbpc[t] \in {"setup", "write", "read", "reply", "stop"}}
=============================================================================

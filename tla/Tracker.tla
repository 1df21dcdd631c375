------------------------------- MODULE Tracker -------------------------------
(***************************************************************************)
(* What a device sends and what the daemon makes of it (src/src/tracker.c, *)
(* tracker_clientsrv).  The device sends keep-alives and lines over TCP;   *)
(* the thread of the connection takes whatever has arrived and treats      *)
(* every read by itself: nothing is carried over to the next read.         *)
(*                                                                         *)
(* A message is its number; a line is two tokens, its text and its end     *)
(* (the last bytes with \r\n), so that a read can end inside of it; a      *)
(* keep-alive is one.  What storing a report means is in Database, the     *)
(* replies to commands are in CmdQueue, the table of clients in            *)
(* ClientRegistry: here they are one step.                                 *)
(***************************************************************************)
EXTENDS Integers, Sequences, SequencesExt

CONSTANTS MaxMessages  \* bound: messages of the device

ASSUME TrackerAssumption == MaxMessages \in Nat

\* Events 1, 2, EVENT_GFEN, one more and a number without a meaning; event 0, an answer to a
\* command, a line of another form.
Reports == {"rec", "track", "gfen", "alarm", "unknown"}
Kinds   == Reports \cup {"getloc", "reply", "garbled", "keepalive"}

VARIABLES
    conf,     \* the configuration: mails on every event, maps in mails, TRACK after GFEN, scripts
    delivered, \* kinds of the messages the device sent
    net,      \* tokens on their way
    buf,      \* what is left of the read
    tpc,      \* what the thread does
    cur,      \* the report that is stored
    known,    \* cli_devid is set
    handled,  \* reports that were given to the database
    replies,  \* lines that were taken for an answer to a command
    answered, \* keep-alives that were answered
    trkMailed, scripts, tracks,  \* per report: how often, and with or without maps
    noticed,  \* script and mail of a new connection, as they were started
    seamless, \* history: no read ended inside of a message, keep-alives came alone
    lost      \* history: messages that were dropped

trkVars == <<conf, delivered, net, buf, tpc, cur, known, handled, replies, answered, trkMailed, scripts, tracks,
             noticed, seamless, lost>>

TrkInit ==
    /\ conf \in {[force |-> a, maps |-> a, gfen |-> b, script |-> b] : a, b \in BOOLEAN}
    /\ delivered = <<>> /\ net = <<>> /\ buf = <<>>
    /\ tpc = "read" /\ cur = 0 /\ known = FALSE
    /\ handled = <<>> /\ replies = {} /\ answered = {}
    /\ trkMailed = {} /\ scripts = {} /\ tracks = {}
    /\ noticed = <<>> /\ seamless = TRUE /\ lost = {}

-----------------------------------------------------------------------------
(* The device (not part of this program)                                   *)

Tokens(n, k) == IF k = "keepalive" THEN <<[msg |-> n, part |-> "whole"]>>
                ELSE <<[msg |-> n, part |-> "text"], [msg |-> n, part |-> "end"]>>

DeviceSends(k) ==
    /\ Len(delivered) < MaxMessages
    /\ delivered' = Append(delivered, k)
    /\ net' = net \o Tokens(Len(delivered) + 1, k)
    /\ UNCHANGED <<conf, buf, tpc, cur, known, handled, replies, answered, trkMailed, scripts, tracks, noticed,
                   seamless, lost>>

-----------------------------------------------------------------------------
(* Reading                                                                 *)

TrkGoto(l) == tpc' = l
Drop(ts) == lost' = lost \cup {x.msg : x \in ToSet(ts)}

\* socket_read: everything that has arrived, TCP decides how much that is.
Seam(k) == /\ net[k].part # "text"
           /\ k > 1 => \A i \in 1..k : net[i].part # "whole"
socket_read(k) ==
    /\ tpc = "read" /\ k \in DOMAIN net
    /\ buf' = SubSeq(net, 1, k)
    /\ net' = SubSeq(net, k + 1, Len(net))
    /\ seamless' = (seamless /\ Seam(k))
    /\ TrkGoto(IF net[1].part = "whole" THEN "alive" ELSE "line")
    /\ UNCHANGED <<conf, delivered, cur, known, handled, replies, answered, trkMailed, scripts, tracks, noticed, lost>>

\* handleKeepAlivePackage: a read that is longer than a keep-alive is none, and is dropped.
handleKeepAlivePackage ==
    /\ tpc = "alive"
    /\ buf' = <<>>
    /\ \/ /\ Len(buf) = 1
          /\ answered' = answered \cup {buf[1].msg}
          /\ known' = TRUE
          /\ TrkGoto(IF known THEN "read" ELSE "connected")
          /\ UNCHANGED lost
       \/ /\ Len(buf) > 1
          /\ Drop(buf) /\ TrkGoto("read")
          /\ UNCHANGED <<answered, known>>
    /\ UNCHANGED <<conf, delivered, net, cur, handled, replies, trkMailed, scripts, tracks, noticed, seamless>>

\* First the script, then the mail, both as configured.
Notices == (IF conf.script THEN <<"script">> ELSE <<>>) \o (IF conf.force THEN <<"mail">> ELSE <<>>)

chk_connection_notification ==
    /\ tpc = "connected"
    /\ noticed' = noticed \o Notices
    /\ TrkGoto("read")
    /\ UNCHANGED <<conf, delivered, net, buf, cur, known, handled, replies, answered, trkMailed, scripts, tracks,
                   seamless, lost>>

-----------------------------------------------------------------------------
(* Lines of a read                                                         *)

HasEnd == \E i \in DOMAIN buf : buf[i].part = "end"

\* Mutant: every location is taken for the answer to GETLOCATION.
arrivingPackageTypeReply(k) == IF k \in Kinds \ {"garbled"} THEN "reply" ELSE "unknown"

\* A line that begins with $, or reports event 0, answers a command; any other event is a report,
\* and a line that has not eleven fields is nothing.
arrivingPackageType(k) == CASE k \in Reports -> "loc"
                            [] k = "garbled" -> "unknown"
                            [] OTHER         -> "reply"

\* Nothing in the rest of the read ends with \r\n: it is dropped.
NoEnd ==
    /\ tpc = "line" /\ ~HasEnd
    /\ buf' = <<>> /\ Drop(buf) /\ TrkGoto("read")
    /\ UNCHANGED <<conf, delivered, net, cur, known, handled, replies, answered, trkMailed, scripts, tracks, noticed,
                   seamless>>

\* The rest of a line whose text was in an earlier read is of no known type.
LineRest ==
    /\ tpc = "line" /\ HasEnd /\ buf[1].part = "end"
    /\ buf' = Tail(buf) /\ Drop(<<buf[1]>>)
    /\ TrkGoto(IF Len(buf) = 1 THEN "read" ELSE "line")
    /\ UNCHANGED <<conf, delivered, net, cur, known, handled, replies, answered, trkMailed, scripts, tracks, noticed,
                   seamless>>

\* A keep-alive between lines: its bytes make the next line unknown, or, if there is a zero
\* among them, end the read.
KeepAliveInside ==
    /\ tpc = "line" /\ HasEnd /\ buf[1].part = "whole"
    /\ \/ buf' = <<>> /\ Drop(buf) /\ TrkGoto("read")
       \/ LET e == CHOOSE i \in DOMAIN buf : buf[i].part = "end" /\ \A k \in 1..(i - 1) : buf[k].part # "end"
          IN  /\ buf' = SubSeq(buf, e + 1, Len(buf)) /\ Drop(SubSeq(buf, 1, e))
              /\ TrkGoto(IF Len(buf) = e THEN "read" ELSE "line")
    /\ UNCHANGED <<conf, delivered, net, cur, known, handled, replies, answered, trkMailed, scripts, tracks, noticed,
                   seamless>>

AfterLine == IF buf = <<>> THEN "read" ELSE "line"

\* handleCmdReplyPackage (CmdQueue has the rest), handleLocPackage.
NextLine ==
    /\ tpc = "line" /\ HasEnd /\ buf[1].part = "text"
    /\ buf' = SubSeq(buf, 3, Len(buf))
    /\ LET n == buf[1].msg  type == arrivingPackageType(delivered[n])
       IN \/ type = "reply" /\ replies' = replies \cup {n} /\ UNCHANGED <<handled, cur>>
             /\ TrkGoto(IF Len(buf) = 2 THEN "read" ELSE "line") /\ UNCHANGED lost
          \/ type = "loc" /\ handled' = Append(handled, n) /\ cur' = n /\ UNCHANGED <<replies, lost>>
             /\ TrkGoto("mail")
          \/ type = "unknown" /\ Drop(<<buf[1]>>) /\ UNCHANGED <<handled, replies, cur>>
             /\ TrkGoto(IF Len(buf) = 2 THEN "read" ELSE "line")
    /\ UNCHANGED <<conf, delivered, net, known, answered, trkMailed, scripts, tracks, noticed, seamless>>

-----------------------------------------------------------------------------
(* store_loc_Callback, called by db_store_locations for the stored row     *)

\* Never on REC, on TRACK only when mails are forced, and never for an unknown event.
MailDue(k) == k \notin {"rec", "unknown"} /\ (conf.force \/ k # "track")

\* chk_sendmail: with the two maps, without them when one cannot be had; it may fail.
chk_sendmail ==
    /\ tpc = "mail"
    /\ \/ ~MailDue(delivered[cur]) /\ UNCHANGED trkMailed
       \/ /\ MailDue(delivered[cur])
          /\ \E maps \in BOOLEAN : /\ maps => conf.maps
                                   /\ trkMailed' = trkMailed \cup {[msg |-> cur, maps |-> maps]}
    /\ TrkGoto("script")
    /\ UNCHANGED <<conf, delivered, net, buf, cur, known, handled, replies, answered, scripts, tracks, noticed,
                   seamless, lost>>

\* chk_actionscript: the script of the event, if there is one, in a thread of its own.
chk_actionscript ==
    /\ tpc = "script"
    /\ scripts' = IF conf.script THEN scripts \cup {cur} ELSE scripts
    /\ TrkGoto("special")
    /\ UNCHANGED <<conf, delivered, net, buf, cur, known, handled, replies, answered, trkMailed, tracks, noticed,
                   seamless, lost>>

\* Mutant: the device is put into tracking mode only when the mail was sent with maps.
SpecialDueMaps(k) == k = "gfen" /\ conf.gfen /\ [msg |-> cur, maps |-> TRUE] \in trkMailed

SpecialDue(k) == k = "gfen" /\ conf.gfen

\* chk_specialhandling: a crossed fence puts the device into tracking mode.
chk_specialhandling ==
    /\ tpc = "special"
    /\ tracks' = IF SpecialDue(delivered[cur]) THEN tracks \cup {cur} ELSE tracks
    /\ cur' = 0 /\ TrkGoto(AfterLine)
    /\ UNCHANGED <<conf, delivered, net, buf, known, handled, replies, answered, trkMailed, scripts, noticed,
                   seamless, lost>>

TrkNext ==
    \/ \E k \in Kinds : DeviceSends(k)
    \/ \E k \in 1..Len(net) : socket_read(k)
    \/ handleKeepAlivePackage \/ chk_connection_notification
    \/ NoEnd \/ LineRest \/ KeepAliveInside \/ NextLine
    \/ chk_sendmail \/ chk_actionscript \/ chk_specialhandling

TrkSpec == TrkInit /\ [][TrkNext]_trkVars

-----------------------------------------------------------------------------
TrkTypeOK ==
    /\ \A i \in DOMAIN delivered : delivered[i] \in Kinds
    /\ tpc \in {"read", "alive", "connected", "line", "mail", "script", "special"}
    /\ cur \in 0..MaxMessages /\ {known, seamless} \subseteq BOOLEAN
    /\ tpc \in {"mail", "script", "special"} <=> cur # 0

\* However TCP cuts the stream, reports are stored at most once and in the order in which the
\* device sent them, a device that crossed its fence is put into tracking mode, mail or no
\* mail, and a device is announced once, when its first keep-alive makes it known
\* (tracker_clientsrv, store_loc_Callback, chk_connection_notification).
HandledInOrder ==
    /\ \A i, k \in DOMAIN handled : i < k => handled[i] < handled[k]
    /\ \A n \in ToSet(handled) \ {cur} :
          /\ n \in tracks <=> delivered[n] = "gfen" /\ conf.gfen
          /\ n \in scripts <=> conf.script
          /\ (\E m \in trkMailed : m.msg = n) => delivered[n] \notin {"rec", "unknown"}
    /\ noticed = IF known /\ tpc # "connected" THEN Notices ELSE <<>>

\* When every read ends at the end of a message, and keep-alives come alone, nothing is lost:
\* every report is stored, every keep-alive answered.
SeamlessLosesNothing ==
    LET onWay == {x.msg : x \in ToSet(net) \cup ToSet(buf)}
    IN  seamless => /\ \A n \in lost : delivered[n] = "garbled"
                    /\ \A n \in (1..Len(delivered)) \ onWay :
                          CASE delivered[n] \in Reports    -> n \in ToSet(handled)
                            [] delivered[n] = "keepalive"  -> n \in answered
                            [] delivered[n] = "garbled"    -> n \in lost
                            [] OTHER                  -> n \in replies

\* The inductive invariant behind HandledInOrder.  Of the tokens on their way only texts matter:
\* they rise, and every report that was given to the database is older.
Token == [msg : 1..Len(delivered), part : {"text", "end", "whole"}]
Rising(s) == \A i, k \in DOMAIN s : i < k /\ s[i].part = "text" /\ s[k].part = "text" => s[i].msg < s[k].msg

StreamInv ==
    /\ delivered \in Seq(Kinds) /\ buf \in Seq(Token) /\ net \in Seq(Token)
    /\ Rising(buf) /\ Rising(net)
    /\ \A x \in ToSet(buf), y \in ToSet(net) : x.part = "text" /\ y.part = "text" => x.msg < y.msg
    /\ \A n \in ToSet(handled), x \in ToSet(buf) \cup ToSet(net) : x.part = "text" => n < x.msg

HandlingInv ==
    /\ handled \in Seq(1..Len(delivered)) /\ \A i, k \in DOMAIN handled : i < k => handled[i] < handled[k]
    /\ tpc \in {"mail", "script", "special"} <=> cur # 0
    /\ cur # 0 => cur \in ToSet(handled)
    /\ tracks \cup scripts \cup {m.msg : m \in trkMailed} \subseteq ToSet(handled)
    /\ \A n \in ToSet(handled) \ {cur} : n \in tracks <=> delivered[n] = "gfen" /\ conf.gfen
    /\ \A n \in ToSet(handled) : n # cur \/ tpc = "special" => (n \in scripts <=> conf.script)
    /\ \A m \in trkMailed : delivered[m.msg] \notin {"rec", "unknown"}
    /\ cur \notin tracks /\ (tpc \in {"mail", "script"} => cur \notin scripts)
    /\ tpc = "connected" => known
    /\ noticed = IF known /\ tpc # "connected" THEN Notices ELSE <<>>

\* The one behind SeamlessLosesNothing: as long as no read cuts a message, a text is followed by
\* its end, a keep-alive is a read of its own, and a message that is not on its way is where it
\* belongs.
Paired(s) ==
    \A i \in DOMAIN s :
       /\ s[i].part = "text" => i + 1 \in DOMAIN s /\ s[i + 1] = [msg |-> s[i].msg, part |-> "end"]
       /\ s[i].part = "end"  => i - 1 \in DOMAIN s /\ s[i - 1] = [msg |-> s[i].msg, part |-> "text"]

OnWay == {x.msg : x \in ToSet(net) \cup ToSet(buf)}
Settled(n) ==
    CASE delivered[n] \in Reports    -> n \in ToSet(handled)
      [] delivered[n] = "keepalive"  -> n \in answered
      [] delivered[n] = "garbled"    -> n \in lost
      [] OTHER                       -> n \in replies

SeamInv ==
    /\ lost \subseteq 1..Len(delivered)
    /\ \A x \in ToSet(net) \cup ToSet(buf) : x.part = "whole" <=> delivered[x.msg] = "keepalive"
    /\ tpc \in {"read", "connected"} => buf = <<>>
    /\ tpc = "line" => buf # <<>>
    /\ seamless => /\ Paired(net)
                   /\ IF tpc = "alive" THEN Len(buf) = 1 /\ buf[1].part = "whole"
                      ELSE Paired(buf) /\ \A x \in ToSet(buf) : x.part # "whole"
                   /\ \A n \in lost : delivered[n] = "garbled"
                   /\ \A n \in (1..Len(delivered)) \ OnWay : Settled(n)
=============================================================================

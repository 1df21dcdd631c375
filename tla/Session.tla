------------------------------- MODULE Session -------------------------------
(***************************************************************************)
(* A command session of the daemon (src/src/g7cmd.c, src/src/g7srvcmd.c,   *)
(* src/src/wreply.c): the password, the loop that reads lines and answers  *)
(* them, the tables of device commands and of their arguments, and the     *)
(* questions that "set" asks.  Every answer ends with "\r\n"; this is how  *)
(* the other side knows that it is complete.                               *)
(*                                                                         *)
(* A line is the kind of command it is and the name in it, or, as the      *)
(* answer to a question, its class: empty, "." (stop), digits, one of the  *)
(* listed choices, longer than the buffer, or anything else.  Text the     *)
(* daemon writes is the number of the line that it answers.  What a device *)
(* does with a command is modelled in CmdQueue and UsbLink, the database,  *)
(* preset and mail commands in Database, Presets and Mail: here they take  *)
(* a while and end.  No argument list has an ARGT_BOOL, so its question is *)
(* not modelled.                                                           *)
(***************************************************************************)
EXTENDS Integers, Sequences, FiniteSets, SequencesExt

CONSTANTS MaxLines,           \* bound: lines sent to the daemon
          require_client_pwd  \* from the configuration

ASSUME SessionAssumption == MaxLines \in Nat /\ require_client_pwd \in BOOLEAN

R == {"r"}
W == {"w"}

Cmd(s, d, h, t, m) == [srvcmd |-> s, cmdstr |-> d, cmdhandler |-> h, type |-> t, modes |-> m]

g7command_list == <<
    Cmd("roam", "ROAMING", "binary", "GETSET_BINARY", R \cup W),
    Cmd("phone", "VLOCATION", "binary", "GETSET", R \cup W),
    Cmd("led", "ELED", "binary", "GETSET_BINARY", R \cup W),
    Cmd("gfen", "GFEN", "set", "GETSET", R \cup W),
    Cmd("sleep", "SLEEP", "binary", "GETSET_BINARY", R \cup W),
    Cmd("loc", "GETLOCATION", "get", "GET", R),
    Cmd("locg", "GETLOCATION", "null", "GET", R),
    Cmd("imei", "IMEI", "get", "GET", R),
    Cmd("sim", "SIMID", "get", "GET", R),
    Cmd("ver", "VER", "get", "GET", R),
    Cmd("nrec", "DLREC", "get", "GET", R),
    Cmd("batt", "XXXX", "query", "GET", R),
    Cmd("track", "TRACK", "set", "GETSET", R \cup W),
    Cmd("mswitch", "SETRA", "set", "GETSET", R \cup W),
    Cmd("tz", "SETTZ", "set", "GETSET", R \cup W),
    Cmd("sms", "SMSM", "set", "GETSET", R \cup W),
    Cmd("comm", "COMMTYPE", "set", "GETSET", R \cup W),
    Cmd("vip", "SETVIP", "set", "GETSET", R \cup W),
    Cmd("ps", "PSMT", "set", "GETSET", R \cup W),
    Cmd("config", "UNCFG", "set", "GETSET", R \cup W),
    Cmd("gfevt", "SETEVT", "set", "GETSET", R \cup W),
    Cmd("rec", "REC", "set", "GETSET", R \cup W),
    Cmd("lowbatt", "LOWBATT", "set", "GETSET", R \cup W),
    Cmd("sens", "GSS", "set", "GETSET", R \cup W),
    Cmd("clrec", "CLREC", "do", "DO", W),
    Cmd("dlrec", "DLREC", "query", "DO", W),
    Cmd("reboot", "REBOOT", "do", "DO", W),
    Cmd("reset", "RESET", "do", "DO", W),
    Cmd("test", "TEST", "do", "DO", W),
    Cmd("address", "GETADDRESS", "query", "GET", R) >>

\* cmdargs_list: the kinds of the arguments of "set", for a selection the number of choices
\* (nsel) and of choices listed; the list of "roam" and "led" is empty.
Sel(n) == [type |-> "SELECT", nsel |-> n, listed |-> n]
Num == [type |-> "INT", nsel |-> 0, listed |-> 0]
Txt == [type |-> "STRING", nsel |-> 0, listed |-> 0]

cmdargs_list_1 ==
    [sleep |-> <<Sel(3)>>, roam |-> <<>>, phone |-> <<Sel(2), Num>>, led |-> <<>>,
     mswitch |-> <<Sel(4), Num>>, lowbatt |-> <<Sel(4), Num>>, sms |-> <<Sel(2)>>,
     sens |-> <<Sel(5)>>, tz |-> <<Sel(2), Num, Sel(4)>>]

cmdargs_list_2 ==
    [gfen |-> <<Sel(2), Num, Sel(3), Sel(4), Num>>,
     track |-> <<Sel(10), Num, Num, Num, Sel(2), Sel(5), Num>>,
     comm |-> <<Sel(5), Txt, Num, Txt, Txt, Txt, Txt, Num, Num, Txt>>]

cmdargs_list_3 ==
    [ps |-> <<Sel(4), Num, Sel(4), Num, Num, Num, Num>>,
     config |-> <<Num, Num, Num>>, vip |-> <<Txt, Txt, Txt, Txt, Txt>>,
     gfevt |-> <<Num, Sel(2), Txt, Txt, Num, [type |-> "SELECT", nsel |-> 2, listed |-> 3], Sel(4), Num>>,
     rec |-> <<Sel(10), Num, Num, Num, Sel(2), Num>>]

Setters == DOMAIN cmdargs_list_1 \cup DOMAIN cmdargs_list_2 \cup DOMAIN cmdargs_list_3

\* get_argidx_for_cmdidx finds the list of a command by its name.
cmdargs(name) ==
    IF name \in DOMAIN cmdargs_list_1 THEN cmdargs_list_1[name]
    ELSE IF name \in DOMAIN cmdargs_list_2 THEN cmdargs_list_2[name]
    ELSE cmdargs_list_3[name]

\* The first entry of the table with a name and one of the types.
Found(name, types) ==
    {i \in DOMAIN g7command_list : g7command_list[i].srvcmd = name /\ g7command_list[i].type \in types}

Entry(name) == g7command_list[CHOOSE i \in DOMAIN g7command_list : g7command_list[i].srvcmd = name]

\* get_devcmd_from_srvcmd, get_srvcmd_from_devcmd (the first of the device command).
get_devcmd_from_srvcmd(name) == Entry(name).cmdstr

get_srvcmd_from_devcmd(dev) ==
    g7command_list[CHOOSE i \in DOMAIN g7command_list :
        /\ g7command_list[i].cmdstr = dev
        /\ \A k \in 1..(i - 1) : g7command_list[k].cmdstr # dev].srvcmd

-----------------------------------------------------------------------------
VARIABLES
    spc,      \* "pwd", "idle", "arg", "device", "closed" or "crashed"
    tries,    \* passwords left
    line,     \* the line that is answered
    args,     \* arguments so far: their number, and whether each fits its kind
    isdigit,  \* the variable of get_cmd_args
    sent,     \* the last command to the device
    to,       \* lines from the client that are not read yet
    hung_up,  \* the client closed the connection
    from,     \* what the daemon wrote and the client has not read
    rejected  \* the line, if it was refused as unknown

sesVars == <<spc, tries, line, args, isdigit, sent, to, hung_up, from, rejected>>

Text(n, w) == [n |-> n, what |-> w, end |-> FALSE]
End(n) == [n |-> n, what |-> "", end |-> TRUE]

NoLine == [n |-> 0, verb |-> "", name |-> ""]
NoArgs == [n |-> 0, fit |-> TRUE]
NotSent == [name |-> "", mode |-> "", args |-> NoArgs]

SesInit ==
    /\ spc = IF require_client_pwd THEN "pwd" ELSE "idle"
    /\ tries = 3
    /\ line = NoLine /\ args = NoArgs /\ isdigit = TRUE /\ sent = NotSent
    /\ to = <<>> /\ hung_up = FALSE
    /\ from = <<Text(0, IF require_client_pwd THEN "password" ELSE "hello"), End(0)>>
    /\ rejected = NoLine

\* A read takes all lines that have arrived; the regular expressions, which match at any line,
\* find one of them.
Arrived(l) == \E k \in 1..Len(to) : l = [to[k] EXCEPT !.n = Last(to).n]

Write(items) == from' = from \o items

\* check_password: three tries, then the connection is closed.
check_password(l) ==
    /\ spc = "pwd" /\ Arrived(l) /\ to' = <<>>
    /\ tries' = tries - 1
    /\ \/ /\ l.verb = "password" /\ l.name = "right" /\ Len(to) = 1
          /\ spc' = "idle" /\ Write(<<Text(l.n, "hello"), End(l.n)>>)
       \/ /\ ~(l.verb = "password" /\ l.name = "right" /\ Len(to) = 1)
          /\ \/ tries > 1 /\ spc' = "pwd" /\ Write(<<Text(l.n, "password"), End(l.n)>>)
             \/ tries = 1 /\ spc' = "closed" /\ Write(<<Text(l.n, "failed"), End(l.n)>>)
    /\ UNCHANGED <<line, args, isdigit, sent, hung_up, rejected>>

\* Nobody gives a password for two minutes.
PasswordTimeout ==
    /\ spc = "pwd" /\ to = <<>>
    /\ spc' = "closed" /\ Write(<<Text(0, "failed"), End(0)>>)
    /\ UNCHANGED <<tries, line, args, isdigit, sent, to, hung_up, rejected>>

\* cmd_clientsrv: the client was idle for max_idle_time, or has disconnected.
Logout ==
    /\ spc = "idle" /\ to = <<>>
    /\ spc' = "closed"
    /\ UNCHANGED <<tries, line, args, isdigit, sent, to, hung_up, from, rejected>>

-----------------------------------------------------------------------------
\* The command that was read is over: what it wrote, and the "\r\n" of cmd_clientsrv.
Answered(l, w) ==
    /\ spc' = "idle" /\ Write(<<Text(l.n, w), End(l.n)>>)
    /\ line' = NoLine /\ args' = NoArgs /\ isdigit' = TRUE /\ sent' = NotSent

\* The same without a word.
Quiet(l) == spc' = "idle" /\ Write(<<End(l.n)>>)
            /\ line' = NoLine /\ args' = NoArgs /\ isdigit' = TRUE /\ sent' = NotSent

Same == UNCHANGED <<tries, hung_up>>

Take(l, verbs) == spc = "idle" /\ Arrived(l) /\ l.verb \in verbs /\ to' = <<>>

\* prepare_cmd_to_device, send_rawcmd: the mode is checked against the table.
prepare_cmd_to_device(l, name, mode, a) ==
    \/ mode \notin Entry(name).modes /\ Answered(l, "text")
    \/ /\ mode \in Entry(name).modes
       /\ spc' = "device" /\ sent' = [name |-> name, mode |-> mode, args |-> a]
       /\ line' = l /\ args' = a /\ UNCHANGED <<from, isdigit>>

\* A query of the daemon's own (send_cmdquery_reply): the client sees only what comes of it.
Query(l, name) == spc' = "device" /\ sent' = [name |-> name, mode |-> "r", args |-> NoArgs]
                  /\ line' = l /\ UNCHANGED <<from, isdigit, args>>

\* Mutant: the question is ended twice.
AskTwice(n) == Write(<<Text(n, "ask"), End(n), End(n)>>)

\* A question of get_cmd_args: it ends with "?" and "\r\n".
Ask(n) == Write(<<Text(n, "ask"), End(n)>>)

\* cmd_binary_template and cmd_set_template with "set": without arguments the value is "1".
AskFirst(l, name) ==
    \/ /\ cmdargs(name) = <<>> /\ prepare_cmd_to_device(l, name, "w", [n |-> 1, fit |-> TRUE])
    \/ /\ cmdargs(name) # <<>>
       /\ spc' = "arg" /\ args' = NoArgs /\ isdigit' = TRUE
       /\ line' = l /\ Ask(l.n) /\ UNCHANGED sent

Refuse(l) == Answered(l, "text") /\ rejected' = [l EXCEPT !.n = 0]

\* "set led on", "set led off".
exec_binary_command(l) ==
    /\ Take(l, {"on", "off"})
    /\ \/ Found(l.name, {"GETSET_BINARY"}) = {} /\ Refuse(l)
       \/ /\ Found(l.name, {"GETSET_BINARY"}) # {} /\ rejected' = NoLine
          /\ \/ l.verb = "on" /\ AskFirst(l, l.name)
             \/ l.verb = "off" /\ prepare_cmd_to_device(l, l.name, "w", [n |-> 1, fit |-> TRUE])
    /\ Same

\* "get locg" in this spelling.
exec_get_locg(l) ==
    /\ Take(l, {"get"}) /\ l.name = "locg" /\ rejected' = NoLine
    /\ Query(l, "locg")
    /\ Same

\* "get gfevt NN": the number is checked here.
exec_get_gfevt(l) ==
    /\ Take(l, {"gfevt"}) /\ rejected' = NoLine
    /\ \/ l.name # "inrange" /\ Answered(l, "text")
       \/ l.name = "inrange" /\ prepare_cmd_to_device(l, "gfevt", "r", NoArgs)
    /\ Same

\* "get NAME": exec_get_command and the handlers with gsflag 0.  "get  locg", with two spaces,
\* comes here too, and the entry of locg has no handler.
exec_get_command(l) ==
    /\ Take(l, {"get", "get2"}) /\ ~(l.verb = "get" /\ l.name = "locg")
    /\ LET types == {"GET", "GETSET_BINARY", "GETSET"} IN
       \/ Found(l.name, types) = {} /\ Refuse(l)
       \/ /\ Found(l.name, types) # {} /\ rejected' = NoLine
          /\ LET h == Entry(l.name).cmdhandler IN
             \/ h = "null" /\ spc' = "crashed" /\ line' = l /\ UNCHANGED <<from, args, isdigit, sent>>
             \/ h = "query" /\ Query(l, "loc")
             \/ h = "set" /\ l.name = "gfevt" /\ Answered(l, "text")
             \/ /\ h \in {"binary", "get", "set"} /\ l.name # "gfevt"
                /\ prepare_cmd_to_device(l, l.name, "r", NoArgs)
    /\ Same

exec_set_command(l) ==
    /\ Take(l, {"set"})
    /\ \/ Found(l.name, {"SET", "GETSET"}) = {} /\ Refuse(l)
       \/ Found(l.name, {"SET", "GETSET"}) # {} /\ rejected' = NoLine /\ AskFirst(l, l.name)
    /\ Same

exec_do_command(l) ==
    /\ Take(l, {"do"})
    /\ \/ Found(l.name, {"DO"}) = {} /\ Refuse(l)
       \/ /\ Found(l.name, {"DO"}) # {} /\ rejected' = NoLine
          /\ \/ Entry(l.name).cmdhandler = "do" /\ prepare_cmd_to_device(l, l.name, "w", NoArgs)
             \/ Entry(l.name).cmdhandler = "query" /\ Query(l, l.name)
    /\ Same

-----------------------------------------------------------------------------
\* Does a reply fit the argument?
Fits(k, c) == CASE k.type = "SELECT" -> c \in {"empty", "choice"}
                [] k.type = "INT"    -> c \in {"empty", "digits"}
                [] OTHER             -> c # "dot"

Class(l) == IF l.verb = "reply" THEN l.name ELSE "other"

\* Mutant: a reply is taken without a look at it.
AcceptedUnseen(k, c) == TRUE

\* In the loop for an integer isdigit is set once: after a reply that is not a number only an
\* empty one is accepted.
Accepted(k, c) == IF k.type = "INT" THEN c = "empty" \/ (c = "digits" /\ isdigit) ELSE Fits(k, c)

\* get_arg, get_cmd_args: one reply.  "." stops; a reply that is too long, or does not fit into
\* the buffer of 256 bytes with the ones before, ends the command without a word.
get_cmd_args(l) ==
    /\ spc = "arg" /\ Arrived(l) /\ to' = <<>>
    /\ LET k == cmdargs(line.name)[args.n + 1]
           c == Class(l)
           a == [n |-> args.n + 1, fit |-> args.fit /\ Fits(k, c)] IN
       \/ c = "long" /\ Quiet(l)
       \/ c = "dot" /\ Answered(l, "text")
       \/ c \notin {"long", "dot"} /\ args.n >= 4 /\ Accepted(k, c) /\ Quiet(l)
       \/ /\ c \notin {"long", "dot"} /\ ~Accepted(k, c)
          /\ isdigit' = (isdigit /\ k.type # "INT")
          /\ Ask(l.n) /\ UNCHANGED <<spc, args, line, sent>>
       \/ /\ c \notin {"long", "dot"} /\ Accepted(k, c)
          /\ \/ a.n < Len(cmdargs(line.name)) /\ args' = a /\ isdigit' = TRUE /\ Ask(l.n) /\ UNCHANGED <<spc, line, sent>>
             \/ a.n = Len(cmdargs(line.name)) /\ prepare_cmd_to_device([line EXCEPT !.n = l.n], line.name, "w", a)
    /\ Same /\ UNCHANGED rejected

\* No reply for five minutes: the command fails, and "\r\n" is sent that nobody asked for.
ArgTimeout ==
    /\ spc = "arg" /\ to = <<>> /\ ~hung_up
    /\ Quiet([line EXCEPT !.n = 0])
    /\ Same /\ UNCHANGED <<to, rejected>>

\* USER_DISCONNECT ends the session.
Disconnected ==
    /\ spc = "arg" /\ to = <<>> /\ hung_up
    /\ spc' = "closed"
    /\ UNCHANGED <<tries, line, args, isdigit, sent, to, hung_up, from, rejected>>

-----------------------------------------------------------------------------
\* A server command that asks the device begins with a line that tells the user to wait.
Gather(l) ==
    /\ spc' = "device" /\ Write(<<Text(l.n, "text")>>) /\ sent' = NotSent
    /\ line' = l /\ UNCHANGED <<args, isdigit>>

\* .nick: four queries, then db_update_nick and the new list.
_srvcmd_nick(l) == l.name = "nick" /\ Gather(l)

\* .report: refused when there is neither a device on USB nor a target.
_srv_device_report(l) == l.name = "report" /\ (Answered(l, "text") \/ Gather(l))

\* .lc, .ld and .target, .date, .cachestat: tables and texts.
_srv_cmd_lc(l) == l.name = "lc" /\ Answered(l, "text")
_srv_date(l) == l.name = "date" /\ Answered(l, "text")
_srv_cache_stat(l) == l.name = "cachestat" /\ Answered(l, "text")

\* .table and .lookup turn a flag of the output; what is none of these is refused.
exec_srv_command(l) ==
    /\ Take(l, {"srv"}) /\ rejected' = IF l.name = "typo" THEN [l EXCEPT !.n = 0] ELSE NoLine
    /\ \/ _srvcmd_nick(l) \/ _srv_device_report(l) \/ _srv_cmd_lc(l) \/ _srv_date(l) \/ _srv_cache_stat(l)
       \/ l.name \in {"table", "lookup", "typo"} /\ Answered(l, "text")
    /\ Same

\* The queries of a server command are over: all were answered, or .nick stopped at one that was not.
ServerWork ==
    /\ spc = "device" /\ line.verb = "srv"
    /\ \/ Answered(line, "text")
       \/ line.name = "nick" /\ Quiet(line)
    /\ Same /\ UNCHANGED <<to, rejected>>

\* Help: the list of all commands, or the synopsis and the arguments of one.
exec_help_commandlist(l) ==
    /\ Take(l, {"help"}) /\ l.name = "" /\ rejected' = NoLine
    /\ Answered(l, "text") /\ Same

exec_help_for_command(l) ==
    /\ Take(l, {"help"}) /\ l.name # ""
    /\ rejected' = IF \E i \in DOMAIN g7command_list : g7command_list[i].srvcmd = l.name
                   THEN NoLine ELSE [l EXCEPT !.n = 0]
    /\ Answered(l, "text") /\ Same

\* "$WP+...": only if the administrator has enabled it; here it is.
exec_native_command(l) ==
    /\ Take(l, {"native"}) /\ rejected' = NoLine
    /\ spc' = "device" /\ sent' = NotSent /\ line' = l /\ UNCHANGED <<from, args, isdigit>>
    /\ Same

\* The database commands and the presets print, and a line that nothing matches is refused.
cmdinterp(l) ==
    /\ Take(l, {"db", "preset", "reply", "password", "unknown"})
    /\ rejected' = IF l.verb = "unknown" THEN [l EXCEPT !.n = 0] ELSE NoLine
    /\ \/ l.verb = "reply" /\ l.name = "empty" /\ Quiet(l)
       \/ ~(l.verb = "reply" /\ l.name = "empty") /\ Answered(l, "text")
    /\ Same

\* "exit" and "quit": the last words have no "\r\n".
Quit(l) ==
    /\ Take(l, {"exit"}) /\ rejected' = NoLine
    /\ spc' = "closed" /\ Write(<<Text(l.n, "text")>>)
    /\ Same /\ UNCHANGED <<line, args, isdigit, sent>>

\* The device has answered or not, and the handler prints what there is to print; a GPRS command
\* that cannot be queued prints nothing.
DeviceAnswers ==
    /\ spc = "device" /\ line.verb # "srv"
    /\ \/ Answered(line, "text")
       \/ Quiet(line)
    /\ Same /\ UNCHANGED <<to, rejected>>

Served(l) ==
    \/ check_password(l) \/ exec_binary_command(l) \/ exec_get_locg(l) \/ exec_get_gfevt(l)
    \/ exec_get_command(l) \/ exec_set_command(l) \/ exec_do_command(l) \/ exec_srv_command(l)
    \/ exec_native_command(l) \/ exec_help_commandlist(l)
    \/ exec_help_for_command(l) \/ cmdinterp(l) \/ Quit(l) \/ get_cmd_args(l)

DaemonStep ==
    \/ \E k \in 1..Len(to) : Served([to[k] EXCEPT !.n = Last(to).n])
    \/ PasswordTimeout \/ Logout \/ ArgTimeout \/ Disconnected \/ ServerWork \/ DeviceAnswers
=============================================================================

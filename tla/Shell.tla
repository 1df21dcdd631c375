------------------------------- MODULE Shell -------------------------------
(***************************************************************************)
(* The command shell g7sh (src/src/shell/g7shell.c) and the session of the *)
(* daemon at the other end of its connection.                              *)
(*                                                                         *)
(* The shell sends a line, reads until a read ends with "\r\n", shows what *)
(* it read and asks the user again; it takes a last "?" as the sign that   *)
(* the daemon asked for an argument.  Nothing in the protocol says which   *)
(* line an answer belongs to: shell and daemon stay in step only because   *)
(* every line gets exactly one "\r\n".  Both sides give up waiting, the    *)
(* shell after three timeouts of 180 s, the daemon after 300 s for an      *)
(* argument, and then they are out of step.                                *)
(*                                                                         *)
(* A read returns any non-empty part of what has arrived; the two bytes of *)
(* "\r\n" arrive together.  The user types what the prompt asks for: lines *)
(* that completion offers, and some that it does not.                      *)
(***************************************************************************)
EXTENDS Session

CONSTANT MaxLate  \* bound: lines sent after one of the sides gave up waiting

ASSUME ShellAssumption == MaxLate \in Nat

\* The completion lists of the shell; of the server commands in cmd_list one of each kind.
cmd_list == {"table", "lookup", "nick", "report", "lc", "date", "cachestat"}

do_cmd_list == {"test", "clrec", "dlrec", "reboot", "reset"}

get_cmd_list == {"address", "ver", "locg", "gfevt", "phone", "roam", "led", "gfen", "sleep", "loc",
                 "imei", "sim", "nrec", "batt", "track", "mswitch", "tz", "sms", "comm", "vip", "ps",
                 "config", "rec", "lowbatt", "sens"}

set_cmd_list == {"roam", "led", "gfen", "sleep", "phone", "track", "mswitch", "tz", "sms", "comm",
                 "vip", "ps", "config", "rec", "lowbatt", "sens"}

onoff_cmds == {"roam", "led", "phone"}

\* cmd_completion: the words offered after what is already typed.
Offered == [verb : {"get"}, name : get_cmd_list] \cup [verb : {"do"}, name : do_cmd_list]
           \cup [verb : {"set"}, name : set_cmd_list]
           \cup [verb : {"on", "off"}, name : onoff_cmds]
           \cup [verb : {"srv"}, name : cmd_list]
           \cup [verb : {"help", "db", "preset"}, name : {""}]

\* What else a user may type.
Typed == Offered \cup [verb : {"get", "set", "do", "srv", "unknown"}, name : {"typo"}]
         \cup [verb : {"gfevt"}, name : {"inrange", "outside"}]
         \cup [verb : {"get2"}, name : {"locg"}] \cup [verb : {"help"}, name : {"led", "typo"}]
         \cup {[verb |-> "native", name |-> ""], [verb |-> "on", name |-> "sleep"], [verb |-> "set", name |-> "gfevt"]}

Replies == [verb : {"reply"}, name : {"empty", "dot", "digits", "choice", "other", "long"}]

VARIABLES
    shpc,     \* "init", "password", "prompt", "read" or "quit"
    single,   \* g7sh -e: the lines come from the command line
    lines,    \* lines sent
    heard,    \* what readwrite has of the answer
    shown,    \* the lines that the last answer is to
    prompt,   \* SHELL_PROMPT or SHELL_PROMPT_ARG
    late      \* history: 0, or one more than the lines sent since one of the sides gave up waiting

shellVars == <<shpc, single, lines, heard, shown, prompt, late>>

ShInit ==
    /\ SesInit
    /\ shpc = "init" /\ single \in BOOLEAN
    /\ lines = 0 /\ heard = <<>> /\ shown = {0} /\ prompt = "command"
    /\ late = 0

\* g7ctrl_command: the line is written unless the daemon has closed the connection.
g7ctrl_command(l, pc) ==
    /\ lines < MaxLines /\ late <= MaxLate
    /\ lines' = lines + 1 /\ late' = IF late > 0 THEN late + 1 ELSE 0
    /\ to' = IF spc \in {"closed", "crashed"} THEN to ELSE Append(to, [n |-> lines + 1, verb |-> l.verb, name |-> l.name])
    /\ shpc' = pc /\ heard' = <<>>
    /\ UNCHANGED <<single, shown, prompt>>

\* cb_rl_readline: the user answers the prompt.  With -e the next command follows whatever the
\* prompt is; "exit" and the end of input leave the shell.
cb_rl_readline ==
    /\ shpc = "prompt"
    /\ \/ \E l \in Typed : (single \/ prompt = "command") /\ g7ctrl_command(l, "read")
       \/ \E l \in Replies : ~single /\ prompt = "arg" /\ g7ctrl_command(l, "read")
    /\ UNCHANGED <<spc, tries, line, args, isdigit, sent, hung_up, from, rejected>>

\* g7sh -e exit: the line is sent.
ExitLine ==
    /\ shpc = "prompt" /\ single
    /\ g7ctrl_command([verb |-> "exit", name |-> ""], "read")
    /\ UNCHANGED <<spc, tries, line, args, isdigit, sent, hung_up, from, rejected>>

\* The user quits, the shell is interrupted, or all commands of the command line are done.
QuitShell ==
    /\ shpc \in {"prompt", "password", "read"}
    /\ shpc' = "quit" /\ hung_up' = TRUE
    /\ UNCHANGED <<single, lines, heard, shown, prompt, late>>
    /\ UNCHANGED <<spc, tries, line, args, isdigit, sent, to, from, rejected>>

\* Is the answer complete?
Complete(chunk) == Last(chunk).end

What(reply) == IF reply = <<>> THEN "" ELSE reply[1].what

Asks(reply) == Len(reply) > 1 /\ reply[Len(reply) - 1].what = "ask" /\ Last(reply).end

\* waitread, readwrite: a part of the answer; g7ctrl_initcomm and cb_rl_readline go on when it
\* is complete.  The password that is asked for comes from the user, also with -e.
readwrite(k) ==
    /\ shpc \in {"init", "read"} /\ k \in 1..Len(from)
    /\ LET chunk == SubSeq(from, 1, k)
           reply == heard \o chunk IN
       /\ from' = SubSeq(from, k + 1, Len(from))
       /\ \/ ~Complete(chunk) /\ heard' = reply /\ UNCHANGED <<shpc, shown, prompt>>
          \/ /\ Complete(chunk) /\ heard' = <<>> /\ shown' = {reply[i].n : i \in 1..Len(reply)}
             /\ prompt' = IF Asks(reply) THEN "arg" ELSE "command"
             /\ shpc' = CASE shpc = "init" /\ What(reply) = "password" -> "password"
                          [] shpc = "init" /\ What(reply) = "failed"   -> "quit"
                          [] OTHER                                     -> "prompt"
    /\ UNCHANGED <<single, lines, late>>
    /\ UNCHANGED <<spc, tries, line, args, isdigit, sent, to, hung_up, rejected>>

\* The password.  At the end of input the shell goes on as if it had been accepted.
g7ctrl_initcomm ==
    /\ shpc = "password"
    /\ \/ \E p \in {"right", "wrong"} : g7ctrl_command([verb |-> "password", name |-> p], "init")
       \/ /\ shpc' = "prompt" /\ UNCHANGED <<lines, to, single, heard, shown, prompt, late>>
    /\ UNCHANGED <<spc, tries, line, args, isdigit, sent, hung_up, from, rejected>>

GiveUp == late' = IF late = 0 THEN 1 ELSE late

\* Nothing arrives for three times 180 s, which only a device takes to answer: the shell reports
\* an error and prompts again.
ReadTimeout ==
    /\ shpc \in {"init", "read"} /\ from = <<>> /\ spc = "device"
    /\ shpc' = (IF shpc = "init" THEN "quit" ELSE "prompt")
    /\ GiveUp /\ prompt' = "command" /\ heard' = <<>>
    /\ UNCHANGED <<single, lines, shown>>
    /\ UNCHANGED <<spc, tries, line, args, isdigit, sent, to, hung_up, from, rejected>>

\* The daemon has closed the connection: is_disconnected, or a read of nothing.
RemoteClosed ==
    /\ spc \in {"closed", "crashed"} /\ from = <<>>
    /\ shpc \in {"init", "read", "prompt"}
    /\ shpc' = IF single /\ shpc = "read" THEN "prompt" ELSE "quit"
    /\ UNCHANGED <<single, lines, heard, shown, prompt, late>>
    /\ UNCHANGED <<spc, tries, line, args, isdigit, sent, to, hung_up, from, rejected>>

Daemon ==
    /\ DaemonStep
    /\ IF from' # from /\ Last(from').n = 0 THEN GiveUp ELSE UNCHANGED late
    /\ UNCHANGED <<shpc, single, lines, heard, shown, prompt>>

ShNext ==
    \/ Daemon \/ cb_rl_readline \/ ExitLine \/ QuitShell
    \/ \E k \in 1..Len(from) : readwrite(k)
    \/ g7ctrl_initcomm \/ ReadTimeout \/ RemoteClosed

ShSpec == ShInit /\ [][ShNext]_<<sesVars, shellVars>>

-----------------------------------------------------------------------------
SesTypeOK ==
    /\ spc \in {"pwd", "idle", "arg", "device", "closed", "crashed"}
    /\ tries \in 0..3 /\ lines \in 0..MaxLines /\ late \in 0..(MaxLate + 1)
    /\ shpc \in {"init", "password", "prompt", "read", "quit"} /\ prompt \in {"command", "arg"}
    /\ spc = "arg" => line.name \in Setters /\ args.n < Len(cmdargs(line.name))

\* As long as neither side gave up waiting, the shell shows the answer to the line it sent last,
\* all of it and nothing else, and its prompt tells whether the daemon waits for an argument
\* (readwrite, cb_rl_readline; cmd_clientsrv, get_cmd_args).
InStep ==
    late = 0 /\ shpc = "prompt" /\ spc \notin {"closed", "crashed"} =>
        /\ shown = {lines}
        /\ to = <<>> /\ from = <<>> /\ spc # "device"
        /\ spc = "arg" <=> prompt = "arg"

\* What is written to the device is what its entry in the tables allows: a write has as many
\* values as the argument list says, or one, and each is empty or of its kind; the reply can be
\* translated with the same list; and what completion offers is not refused as unknown,
\* but for "on" and "off" after "set phone" (get_cmd_args, prepare_cmd_to_device,
\* get_srvcmd_from_devcmd, cmd_completion).
SentIsWellFormed ==
    /\ spc = "device" /\ sent.mode = "w" =>
          /\ "w" \in Entry(sent.name).modes /\ sent.args.fit
          /\ sent.name \in Setters => sent.args.n \in {1, Len(cmdargs(sent.name))}
    /\ spc = "device" /\ sent.name \in Setters =>
          get_srvcmd_from_devcmd(get_devcmd_from_srvcmd(sent.name)) = sent.name
    /\ [verb |-> rejected.verb, name |-> rejected.name] \in Offered =>
          rejected.name = "phone" \/ (rejected.verb = "set" /\ rejected.name \in {"roam", "led", "sleep"})
=============================================================================

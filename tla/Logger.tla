------------------------------- MODULE Logger -------------------------------
(***************************************************************************)
(* The log file (src/src/logger.c).  logmsg formats a message, opens the   *)
(* log file, appends the line and closes the file, all of it under         *)
(* logger_mutex.  Opening and writing are cancellation points, and a       *)
(* thread that is cancelled there (an older connection of a device, the    *)
(* thread of an unplugged one) keeps the mutex.                            *)
(*                                                                         *)
(* A message is its thread, its number and its priority.  LOG_COMPRESS is  *)
(* 0 in this build: the counting of repeated messages is not modelled.     *)
(***************************************************************************)
EXTENDS Integers, Sequences, SequencesExt

CONSTANTS LogThreads,  \* threads that log
          MaxLogs,     \* bound: messages of a thread
          verbose_log  \* the configured verbosity, 0..3

NoThread == "none"

ASSUME LogAssumption == MaxLogs \in Nat /\ verbose_log \in 0..3 /\ NoThread \notin LogThreads

Priorities == {"crit", "err", "warning", "info", "notice", "debug"}

VARIABLES
    logger_mutex,  \* its owner
    lpc,           \* what a thread does in logmsg
    msg,           \* the message of the call
    writable,      \* the log file can be opened
    log,           \* lines of the file
    syslog,        \* lines of the system log
    logged,        \* history: messages in the order in which their calls got the mutex
    returned,      \* history: messages whose call returned
    gone,          \* cancelled threads
    exited         \* the daemon exited

logVars == <<logger_mutex, lpc, msg, writable, log, syslog, logged, returned, gone, exited>>

LogInit ==
    /\ logger_mutex = NoThread
    /\ lpc = [t \in LogThreads |-> "idle"]
    /\ msg = [t \in LogThreads |-> [n |-> 0, priority |-> "err"]]
    /\ writable = TRUE
    /\ log = <<>> /\ syslog = <<>> /\ logged = <<>> /\ returned = {}
    /\ gone = {} /\ exited = FALSE

\* Errors always; the others as verbose_log says.
Loud(p) == \/ p \in {"err", "crit", "warning"}
           \/ p = "info" /\ verbose_log > 0
           \/ p = "notice" /\ verbose_log > 1
           \/ p = "debug" /\ verbose_log > 2

LogGoto(t, l) == lpc' = [lpc EXCEPT ![t] = l]

\* logmsg is called.
logmsg(t, p) ==
    /\ lpc[t] = "idle" /\ t \notin gone /\ ~exited
    /\ msg[t].n < MaxLogs
    /\ msg' = [msg EXCEPT ![t] = [n |-> msg[t].n + 1, priority |-> p]]
    /\ LogGoto(t, "lock")
    /\ UNCHANGED <<logger_mutex, writable, log, syslog, logged, returned, gone, exited>>

Line(t) == [thread |-> t, n |-> msg[t].n]

\* It gets the mutex and formats the message; a message that is not loud enough is done.
Lock(t) ==
    /\ lpc[t] = "lock" /\ logger_mutex = NoThread /\ t \notin gone /\ ~exited
    /\ logger_mutex' = t
    /\ logged' = IF Loud(msg[t].priority) THEN Append(logged, Line(t)) ELSE logged
    /\ LogGoto(t, IF Loud(msg[t].priority) THEN "open" ELSE "unlock")
    /\ UNCHANGED <<msg, writable, log, syslog, returned, gone, exited>>

\* The file is opened; if that fails, syslog is told and the daemon exits.
OpenLog(t) ==
    /\ lpc[t] = "open" /\ t \notin gone /\ ~exited
    /\ \/ writable /\ LogGoto(t, "write") /\ UNCHANGED <<syslog, exited>>
       \/ ~writable /\ syslog' = Append(syslog, Line(t)) /\ exited' = TRUE /\ UNCHANGED lpc
    /\ UNCHANGED <<logger_mutex, msg, writable, log, logged, returned, gone>>

\* Mutant: the mutex is released before the line is written.
UnlockFirst(t) ==
    /\ lpc[t] = "write" /\ t \notin gone /\ ~exited
    /\ logger_mutex' = IF logger_mutex = t THEN NoThread ELSE logger_mutex
    /\ log' = IF logger_mutex = t THEN log ELSE Append(log, Line(t))
    /\ LogGoto(t, IF logger_mutex = t THEN "write" ELSE "idle")
    /\ UNCHANGED <<msg, writable, syslog, logged, returned, gone, exited>>

\* The line is appended (O_APPEND) and the file closed.
WriteLog(t) ==
    /\ lpc[t] = "write" /\ t \notin gone /\ ~exited
    /\ log' = Append(log, Line(t))
    /\ LogGoto(t, "unlock")
    /\ UNCHANGED <<logger_mutex, msg, writable, syslog, logged, returned, gone, exited>>

Unlock(t) ==
    /\ lpc[t] = "unlock" /\ ~exited
    /\ logger_mutex' = NoThread
    /\ returned' = IF Loud(msg[t].priority) THEN returned \cup {Line(t)} ELSE returned
    /\ LogGoto(t, "idle")
    /\ UNCHANGED <<msg, writable, log, syslog, logged, gone, exited>>

\* pthread_cancel takes effect in open or write, or outside of logmsg.
Cancel(t) ==
    /\ lpc[t] \in {"idle", "open", "write"} /\ t \notin gone /\ ~exited
    /\ gone' = gone \cup {t}
    /\ UNCHANGED <<logger_mutex, lpc, msg, writable, log, syslog, logged, returned, exited>>

\* The disk fills up, or the permissions of the directory change.
LoseLogFile ==
    /\ writable /\ writable' = FALSE
    /\ UNCHANGED <<logger_mutex, lpc, msg, log, syslog, logged, returned, gone, exited>>

LogNext ==
    \/ \E t \in LogThreads :
          \/ \E p \in Priorities : logmsg(t, p)
          \/ Lock(t) \/ OpenLog(t) \/ WriteLog(t) \/ Unlock(t) \/ Cancel(t)
    \/ LoseLogFile

LogSpec == LogInit /\ [][LogNext]_logVars

-----------------------------------------------------------------------------
LogTypeOK ==
    /\ logger_mutex \in LogThreads \cup {NoThread}
    /\ lpc \in [LogThreads -> {"idle", "lock", "open", "write", "unlock"}]
    /\ gone \subseteq LogThreads /\ writable \in BOOLEAN /\ exited \in BOOLEAN

\* The file has the messages in the order in which their calls got the mutex, every one whose
\* call returned, and lacks at most the one of the mutex's holder; a mutex that nobody
\* will release belongs to a thread that was cancelled in the middle of logmsg, or the
\* daemon has exited.
LogIsWhole ==
    /\ returned \subseteq ToSet(log)
    /\ log \in {logged, SubSeq(logged, 1, Len(logged) - 1)}
    /\ Len(log) < Len(logged) => logger_mutex # NoThread
    /\ logger_mutex \in gone => lpc[logger_mutex] \in {"open", "write"}
=============================================================================

-------------------------------- MODULE Mail --------------------------------
(***************************************************************************)
(* Mails (src/src/mailutil.c, src/src/libsmtpmail/mailclientlib.c).  A     *)
(* mail is composed and delivered in one dialogue with the SMTP server:    *)
(* greeting, EHLO, perhaps authentication, then MAIL FROM, RCPT TO for     *)
(* every recipient, DATA, the text, "." and QUIT.  Every answer is awaited *)
(* for five seconds.                                                       *)
(*                                                                         *)
(* The server answers every command, as it likes and when it likes: its    *)
(* answers travel in `wire` and the client takes what has arrived.  Text,  *)
(* addresses, headers and encodings are left out.                          *)
(***************************************************************************)
EXTENDS Integers, Sequences

CONSTANTS MaxMails,  \* bound: mails
          MaxRcpt    \* MAX_RCPT

ASSUME MailAssumption == MaxMails \in Nat /\ MaxRcpt \in Nat \ {0}

Callers == {"send_mail_template", "sendmail_helper", "sendmail_binattach_helper"}

\* What a caller passes: number of recipients, one of them malformed, whether there is a
\* text in HTML and in plain form, a file to attach; and the configured credentials.
Letters == [caller : Callers, rcpts : 1..(MaxRcpt + 1), malformed : BOOLEAN, html : BOOLEAN,
            plain : BOOLEAN, file : {"none", "good", "missing"}, user : BOOLEAN]
NoLetter == [caller |-> "send_mail_template", rcpts |-> 1, malformed |-> FALSE, html |-> FALSE,
             plain |-> FALSE, file |-> "none", user |-> FALSE]

VARIABLES
    letter,   \* the mail that is being sent
    mpc,      \* the command that is sent next or awaits its answer
    waiting,  \* the answer is awaited
    wire,     \* answers on their way
    sockets,  \* open sockets
    caps,     \* authentication methods in the answer to EHLO
    body,     \* html, plain and attachments of the handle
    nth,      \* recipients that were told to the server
    srv,      \* the server: has MAIL, recipients, DATA, has accepted
    mrc,      \* result of the last mail
    mailed,   \* mails so far
    refused,  \* history: mails without known or accepted authentication, or without host name
    failedAt, \* history: the command whose answer ended the mail
    crashed   \* the daemon used a null or uninitialized pointer

mailVars == <<letter, mpc, waiting, wire, sockets, caps, body, nth, srv, mrc, mailed, refused,
              failedAt, crashed>>

NewServer == [mail |-> FALSE, rcpts |-> 0, data |-> FALSE, accepted |-> FALSE]
NoBody    == [html |-> FALSE, plain |-> FALSE, files |-> 0]

MailInit ==
    /\ letter = NoLetter /\ mpc = "idle" /\ waiting = FALSE
    /\ wire = <<>> /\ sockets = 0 /\ caps = "none"
    /\ body = NoBody /\ nth = 0 /\ srv = NewServer
    /\ mrc = 0 /\ mailed = 0 /\ refused = 0
    /\ failedAt = "none" /\ crashed = FALSE

-----------------------------------------------------------------------------
(* The server (not part of this program)                                   *)

\* One answer: its status, the lines it has, whether it arrived in one piece.
Good(c) == CASE c \in {"ehlo", "mail", "rcpt", "dot"} -> 250
             [] c \in {"auth", "user"} -> 334
             [] c = "secret" -> 235
             [] c = "data" -> 354
             [] c = "quit" -> 221
             [] c = "greet" -> 220
Commands == {"ehlo", "auth", "user", "secret", "mail", "rcpt", "data", "dot", "quit"}
Answers(c) == {[status |-> s, form |-> f] : s \in {Good(c), 502, 554}, f \in {"line", "lines", "part"}}
Server(c, r) ==
    IF r.status # Good(c) THEN srv
    ELSE CASE c = "mail"             -> [srv EXCEPT !.mail = TRUE]
           [] c = "rcpt" /\ srv.mail -> [srv EXCEPT !.rcpts = @ + 1]
           [] c = "data"             -> [srv EXCEPT !.data = srv.rcpts > 0]
           [] c = "dot"              -> [srv EXCEPT !.accepted = srv.data]
           [] OTHER                  -> srv

-----------------------------------------------------------------------------
(* Steps of the dialogue                                                   *)

StopMail(rc, c) ==
    /\ mrc' = rc /\ failedAt' = IF rc = 0 THEN "none" ELSE c
    /\ mpc' = "idle" /\ waiting' = FALSE
    /\ wire' = <<>>

\* smtp_setup gives up after the connection was made and closes nothing.
LeaveOpen(rc, c) == StopMail(rc, c) /\ UNCHANGED sockets

\* The mail ends with rc at the command c, and smtp_cleanup closes the socket.
EndMail(rc, c) == StopMail(rc, c) /\ sockets' = sockets - 1

MGoto(c) == mpc' = c /\ waiting' = FALSE /\ UNCHANGED <<mrc, failedAt, sockets>>

\* _smtp_send_command writes a command.
SmtpSend ==
    /\ mpc \in Commands
    /\ ~waiting /\ ~crashed
    /\ \E r \in Answers(mpc) : wire' = Append(wire, r) /\ srv' = Server(mpc, r)
    /\ waiting' = TRUE
    /\ UNCHANGED <<letter, mpc, sockets, caps, body, nth, mrc, mailed, refused, failedAt, crashed>>

\* _smtp_split_reply with room for n lines: only the first answer of what arrived is looked
\* at, and it must be complete and fit.
_smtp_split_reply(r, n) == r.form = "line" \/ (r.form = "lines" /\ n > 1)

\* Mutant: the status is not compared.
SendChkAny(c, r) == _smtp_split_reply(r, 1)

\* _sendchk: the status is the expected one.
SendChk(c, r) == _smtp_split_reply(r, 1) /\ r.status = Good(c)

\* _smtp_send_command: an answer, other than 502.
HasAnswer(r, n) == _smtp_split_reply(r, n) /\ r.status # 502

\* recv takes the first answer and, if more has arrived, more of them; what is behind the
\* first one is lost.  The rest of an answer that came in pieces will come.
Rest == [status |-> 0, form |-> "part"]
Recv(r) ==
    /\ waiting /\ wire # <<>> /\ ~crashed
    /\ r = Head(wire)
    /\ \/ r.form = "part" /\ r # Rest /\ wire' = <<Rest>> \o Tail(wire)
       \/ /\ r.form # "part" \/ r = Rest
          /\ \E k \in 1..Len(wire) : wire' = SubSeq(wire, k + 1, Len(wire))

\* EHLO: any answer but 502 will do.  Without a user there is no authentication; with one
\* PLAIN is preferred to LOGIN, and a server that has neither makes smtp_setup fail.
EhloAnswer ==
    /\ mpc = "ehlo" /\ waiting /\ wire # <<>>
    /\ LET r == Head(wire) IN
       \/ ~HasAnswer(r, 63) /\ EndMail(-1, "ehlo") /\ UNCHANGED <<caps, refused>>
       \/ /\ HasAnswer(r, 63)
          /\ caps' \in IF r.status = 250 /\ r.form = "lines" THEN {"none", "plain", "login"} ELSE {"none"}
          /\ \/ letter.user /\ caps' = "none" /\ LeaveOpen(-1, "ehlo") /\ refused' = refused + 1
             \/ letter.user /\ caps' # "none" /\ MGoto("auth") /\ Recv(r) /\ UNCHANGED refused
             \/ ~letter.user /\ MGoto("compose") /\ Recv(r) /\ UNCHANGED refused
    /\ UNCHANGED <<letter, body, nth, srv, mailed, crashed>>

\* "auth plain" or "auth login", and the user for LOGIN: without an answer 334 the dialogue
\* goes on without authentication.
AuthAnswer ==
    /\ mpc \in {"auth", "user"}
    /\ \E r \in {wire[i] : i \in DOMAIN wire} :
          /\ Recv(r)
          /\ MGoto(IF ~(HasAnswer(r, 1) /\ r.status = 334) THEN "compose"
                   ELSE IF mpc = "auth" /\ caps = "login" THEN "user" ELSE "secret")
    /\ UNCHANGED <<letter, caps, body, nth, srv, mailed, refused, crashed>>

\* The password: a refusal ends smtp_setup, no or a broken answer does not.
SecretAnswer ==
    /\ mpc = "secret" /\ waiting /\ wire # <<>>
    /\ LET r == Head(wire) IN
       \/ HasAnswer(r, 1) /\ r.status # 235 /\ LeaveOpen(-1, "secret") /\ refused' = refused + 1
       \/ /\ ~HasAnswer(r, 1) \/ r.status = 235
          /\ Recv(r)
          /\ MGoto("compose")
          /\ UNCHANGED refused
    /\ UNCHANGED <<letter, caps, body, nth, srv, mailed, crashed>>

\* The command cannot be written, or there is no answer within five seconds.  While
\* authenticating the dialogue goes on; EHLO ends it; _sendchk frees a list it never filled,
\* which may crash.
Timeout ==
    /\ ~crashed
    /\ \/ mpc \in {"auth", "user", "secret"} /\ MGoto("compose") /\ UNCHANGED <<wire, crashed>>
       \/ mpc = "ehlo" /\ EndMail(-1, "ehlo") /\ UNCHANGED crashed
       \/ /\ mpc \in {"mail", "rcpt", "data", "dot", "quit"}
          /\ EndMail(-1, mpc)
          /\ crashed' \in BOOLEAN
    /\ UNCHANGED <<letter, caps, body, nth, srv, mailed, refused>>

-----------------------------------------------------------------------------
(* Composing                                                               *)

\* The mail command of the system, in a pipe.
send_mail == {0, -1}

\* send_mail_template is disabled (-99), lacks its template, or uses the system's mail
\* command: none of these opens a connection.
NoSmtp ==
    /\ mpc = "idle" /\ mailed < MaxMails /\ ~crashed
    /\ mailed' = mailed + 1
    /\ mrc' \in {-99, -1} \cup send_mail /\ failedAt' = "local"
    /\ letter' = NoLetter /\ srv' = NewServer
    /\ UNCHANGED <<mpc, waiting, wire, sockets, caps, body, nth, refused, crashed>>

\* smtp_setup up to the greeting, which must be one line, and the host name.
_smtp_connect(l) ==
    /\ mpc = "idle" /\ mailed < MaxMails /\ ~crashed
    /\ mailed' = mailed + 1
    /\ letter' = l /\ srv' = NewServer /\ body' = NoBody /\ nth' = 0
    /\ \E r \in Answers("greet") :
          \/ StopMail(-1, "greet") /\ UNCHANGED <<sockets, refused>>
          \/ /\ _smtp_split_reply(r, 1)
             /\ sockets' = sockets + 1
             /\ \/ StopMail(-1, "greet") /\ refused' = refused + 1
                \/ mpc' = "ehlo" /\ UNCHANGED <<waiting, wire, mrc, failedAt, refused>>
    /\ UNCHANGED <<caps, crashed>>

\* smtp_add_rcpt
RcptsAdded == ~letter.malformed /\ letter.rcpts <= MaxRcpt
\* smtp_add_html: the plain text is optional
HtmlAdded == letter.html
\* smtp_add_attachment_binary
FileAdded == letter.file = "good"

\* The helpers give up when a part cannot be added, send_mail_template only for recipients.
send_mail_template == RcptsAdded
sendmail_helper == HtmlAdded /\ RcptsAdded
sendmail_binattach_helper == HtmlAdded /\ RcptsAdded /\ FileAdded

Composed == CASE letter.caller = "send_mail_template" -> send_mail_template
              [] letter.caller = "sendmail_helper"    -> sendmail_helper
              [] OTHER                                -> sendmail_binattach_helper

Compose ==
    /\ mpc = "compose" /\ ~crashed
    /\ \/ /\ Composed
          /\ body' = [html  |-> HtmlAdded, plain |-> HtmlAdded /\ letter.plain,
                      files |-> IF FileAdded /\ letter.caller # "sendmail_helper" THEN 1 ELSE 0]
          /\ MGoto("build")
          /\ UNCHANGED wire
       \/ ~Composed /\ EndMail(-1, "compose") /\ UNCHANGED body
    /\ UNCHANGED <<letter, caps, nth, srv, mailed, refused, crashed>>

\* smtp_sendmail puts the parts together: plain, alternative, mixed or related.  With HTML
\* alone it takes the length of a null pointer; an empty mail, or files without a plain
\* text, are refused.
CrashingBody(b) == b.html /\ ~b.plain /\ b.files = 0
SendableBody(b) == b.plain

BuildBody ==
    /\ mpc = "build" /\ ~crashed
    /\ \/ SendableBody(body) /\ MGoto("mail") /\ UNCHANGED <<wire, crashed>>
       \/ CrashingBody(body) /\ crashed' = TRUE /\ UNCHANGED <<mpc, waiting, wire, sockets, mrc, failedAt>>
       \/ /\ ~SendableBody(body) /\ ~CrashingBody(body)
          /\ EndMail(-1, "build")
          /\ UNCHANGED crashed
    /\ UNCHANGED <<letter, caps, body, nth, srv, mailed, refused>>

\* The answers in smtp_sendmail: each must be the expected one.
NextCommand == CASE mpc = "mail" -> "rcpt"
                 [] mpc = "rcpt" -> IF nth + 1 < letter.rcpts THEN "rcpt" ELSE "data"
                 [] mpc = "data" -> "text"
                 [] mpc = "dot"  -> "quit"
                 [] OTHER        -> "idle"

MailAnswer ==
    /\ mpc \in {"mail", "rcpt", "data", "dot", "quit"}
    /\ waiting /\ wire # <<>> /\ ~crashed
    /\ LET r == Head(wire) IN
       \/ ~SendChk(mpc, r) /\ EndMail(-1, mpc)
       \/ SendChk(mpc, r) /\ mpc = "quit" /\ EndMail(0, mpc)
       \/ SendChk(mpc, r) /\ mpc # "quit" /\ Recv(r) /\ MGoto(NextCommand)
    /\ nth' = IF mpc = "rcpt" THEN nth + 1 ELSE nth
    /\ UNCHANGED <<letter, caps, body, srv, mailed, refused, crashed>>

\* _senddata: headers and body.  A short write ends the mail.
_senddata ==
    /\ mpc = "text" /\ ~crashed
    /\ \/ MGoto("dot") /\ UNCHANGED wire
       \/ EndMail(-1, "text")
    /\ UNCHANGED <<letter, caps, body, nth, srv, mailed, refused, crashed>>

MailNext ==
    \/ NoSmtp
    \/ \E l \in Letters : _smtp_connect(l)
    \/ SmtpSend \/ EhloAnswer \/ AuthAnswer \/ SecretAnswer \/ Timeout
    \/ Compose \/ BuildBody \/ MailAnswer \/ _senddata

MailSpec == MailInit /\ [][MailNext]_mailVars

-----------------------------------------------------------------------------
(* Properties                                                              *)

MailTypeOK ==
    /\ letter \in Letters
    /\ mpc \in {"idle", "ehlo", "auth", "user", "secret", "compose", "build", "mail", "rcpt", "data",
                "text", "dot", "quit"}
    /\ caps \in {"none", "plain", "login"}
    /\ body \in [html : BOOLEAN, plain : BOOLEAN, files : 0..1]
    /\ {waiting, crashed} \subseteq BOOLEAN
    /\ nth \in 0..MaxRcpt /\ mailed \in 0..MaxMails /\ mrc \in {0, -1, -99}

\* Between mails: one that is reported as sent was accepted by the server with all its
\* recipients, although answers come late, in pieces or together (smtp_sendmail), and one that
\* was accepted is reported as failed only when the answer to "." or QUIT was lost or refused.
\* A socket is left open exactly by the mails whose smtp_setup returned NULL after it had
\* connected: the server refused the credentials or has no known method of authentication, or
\* the host has no name.  The daemon crashes only for a mail in HTML alone, or when an answer to
\* smtp_sendmail timed out.
MailIsHonest ==
    /\ mpc = "idle" /\ failedAt # "local" /\ mailed > 0 =>
          /\ mrc = 0 => srv.accepted /\ srv.rcpts = letter.rcpts
          /\ mrc # 0 /\ srv.accepted => failedAt \in {"dot", "quit"}
    /\ sockets = refused + (IF mpc = "idle" THEN 0 ELSE 1)
    /\ crashed => \/ CrashingBody(body)
                  \/ failedAt \in {"mail", "rcpt", "data", "dot", "quit"}

\* The inductive invariant behind MailIsHonest.  Answers that nobody waited for stay on the wire
\* while the mail is composed, but none of them is what MAIL FROM expects: once that was
\* granted, the answer on the wire is the one to the last command, and the client knows what
\* the server knows.
SmtpReply == [status : Int, form : {"line", "lines", "part"}]
Stale == {0, 235, 334, 502, 554}
Granted == waiting /\ wire[Len(wire)].status = Good(mpc)

WireInv ==
    /\ wire \in Seq(SmtpReply)
    /\ mpc \in Commands \cup {"idle", "compose", "build", "text"}
    /\ waiting \in BOOLEAN /\ (waiting => mpc \in Commands)
    /\ waiting => wire # <<>>
    /\ ~waiting /\ mpc \in {"idle", "ehlo", "rcpt", "data", "text", "dot", "quit"} => wire = <<>>
    /\ waiting /\ mpc \in {"ehlo", "rcpt", "data", "dot", "quit"} => Len(wire) = 1
    /\ mpc \in {"auth", "user", "secret", "compose", "build", "mail"} =>
          \A i \in DOMAIN wire : wire[i].status \in Stale \/ (mpc = "mail" /\ waiting /\ i = Len(wire))

Knows(m, r, d, a) == [mail |-> m, rcpts |-> r, data |-> d, accepted |-> a]

ServerInv ==
    /\ letter \in Letters /\ nth \in Nat
    /\ mpc \in {"ehlo", "auth", "user", "secret", "compose", "build"} => nth = 0 /\ srv = NewServer
    /\ mpc = "mail" => nth = 0 /\ srv = Knows(Granted, 0, FALSE, FALSE)
    /\ mpc = "rcpt" => nth < letter.rcpts
                       /\ srv = Knows(TRUE, IF Granted THEN nth + 1 ELSE nth, FALSE, FALSE)
    /\ mpc = "data" => srv = Knows(TRUE, letter.rcpts, Granted, FALSE)
    /\ mpc = "text" => srv = Knows(TRUE, letter.rcpts, TRUE, FALSE)
    /\ mpc = "dot"  => srv = Knows(TRUE, letter.rcpts, TRUE, Granted)
    /\ mpc = "quit" => srv = Knows(TRUE, letter.rcpts, TRUE, TRUE)

OutcomeInv ==
    /\ sockets \in Int /\ refused \in Int /\ crashed \in BOOLEAN
    /\ crashed => mpc \in {"idle", "build"}
    /\ MailIsHonest
=============================================================================

------------------------------ MODULE Services ------------------------------
(***************************************************************************)
(* The services of the daemon side by side: geocoding with its caches and  *)
(* its rate limit, mails, the database, the packages of a tracker, the     *)
(* log, the presets, a command session with the shell at its other end,    *)
(* the USB port and the device report.  Each is a specification of its own *)
(* with variables of its own; a behaviour exercises one of them, the       *)
(* subject, and the others rest in an initial state.                       *)
(***************************************************************************)
EXTENDS Geocode, RateLimit, Mail, Database, Tracker, Logger, Presets, Shell, UsbLink, Report

VARIABLE subject

Subjects ==
    {"geocode", "ratelimit", "mail", "database", "tracker", "logger", "presets", "shell", "usb", "report"}

\* What another subject starts with is one of its initial states.
Resting ==
    /\ subject # "tracker" => conf = [force |-> FALSE, maps |-> FALSE, gfen |-> FALSE, script |-> FALSE]
    /\ subject # "shell" => ~single
    /\ subject # "usb" => memory = <<>>

ServicesInit ==
    /\ subject \in Subjects
    /\ GeoInit /\ RateInit /\ MailInit /\ DbInit /\ TrkInit /\ LogInit /\ PreInit /\ ShInit /\ UsbInit /\ RepInit
    /\ Resting

Only(s) ==
    /\ subject = s /\ UNCHANGED subject
    /\ s # "geocode"   => UNCHANGED geoVars
    /\ s # "ratelimit" => UNCHANGED rateVars
    /\ s # "mail"      => UNCHANGED mailVars
    /\ s # "database"  => UNCHANGED dbVars
    /\ s # "tracker"   => UNCHANGED trkVars
    /\ s # "logger"    => UNCHANGED logVars
    /\ s # "presets"   => UNCHANGED preVars
    /\ s # "shell"     => UNCHANGED sesVars /\ UNCHANGED shellVars
    /\ s # "usb"       => UNCHANGED usbVars
    /\ s # "report"    => UNCHANGED repVars

ServicesNext ==
    \/ Only("geocode") /\ GeoNext
    \/ Only("ratelimit") /\ RateNext
    \/ Only("mail") /\ MailNext
    \/ Only("database") /\ DbNext
    \/ Only("tracker") /\ TrkNext
    \/ Only("logger") /\ LogNext
    \/ Only("presets") /\ PreNext
    \/ Only("shell") /\ ShNext
    \/ Only("usb") /\ UsbNext
    \/ Only("report") /\ RepNext

servicesVars == <<subject, geoVars, rateVars, mailVars, dbVars, trkVars, logVars, preVars, sesVars, shellVars,
                  usbVars, repVars>>

ServicesSpec == ServicesInit /\ [][ServicesNext]_servicesVars

\* Every variable of the service at work keeps its type.
ServicesTypeOK ==
    /\ subject \in Subjects
    /\ subject = "geocode" => GeoTypeOK
    /\ subject = "ratelimit" => RateTypeOK
    /\ subject = "mail" => MailTypeOK
    /\ subject = "database" => DbTypeOK
    /\ subject = "tracker" => TrkTypeOK
    /\ subject = "logger" => LogTypeOK
    /\ subject = "presets" => PreTypeOK
    /\ subject = "shell" => SesTypeOK
    /\ subject = "usb" => UsbTypeOK
    /\ subject = "report" => RepTypeOK
=============================================================================

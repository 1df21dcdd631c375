------------------------------- MODULE Report -------------------------------
(***************************************************************************)
(* The device report (src/src/g7pdf_report_model.c, g7pdf_report_view.c,   *)
(* the array of libxstr/assocarray.c).  A session asks its device for      *)
(* everything it can tell, one command after the other, puts the replies   *)
(* into an associative array, lays out a PDF whose cells read the array,   *)
(* and saves both.  Array, document and jump buffer are globals, and a     *)
(* report takes many seconds: the source says itself that two sessions     *)
(* must not make reports at the same time, and nothing keeps them from it. *)
(*                                                                         *)
(* An array is the names it has values for, the geofence events it holds   *)
(* and the sessions whose devices gave them.  Values, texts and drawing    *)
(* are left out, and so is the numbering of pages.                         *)
(***************************************************************************)
EXTENDS Integers, Sequences, FiniteSets

CONSTANTS RepThreads,                    \* sessions; each has a device of its own
          MaxEvent,                      \* the last geofence event, 99
          MaxReports,                    \* bound: reports
          OddCmds, MaxOdd,               \* bounds: commands and number of replies with unexpected fields
          MeetFrom,                      \* bound: how far a report is when another one may begin
          pdfreport_hide_empty_geoevent  \* from the configuration

ASSUME ReportAssumption ==
    /\ {MaxReports, MaxOdd, MeetFrom} \subseteq Nat /\ MaxEvent \in 50..99
    /\ pdfreport_hide_empty_geoevent \in BOOLEAN

RepCmd(c, f) == [cmd_name |-> c, fld_names |-> f]

dev_report_cmd_list == <<
    RepCmd("config", {"device_id", "device_pwd", "sim_pin"}),
    RepCmd("dlrec", {"logged_num", "logged_dates"}),
    RepCmd("comm", {"comm_select", "sms_base", "csd_base", "gprs_apn", "gprs_user", "gprs_pwd", "server_ip",
                   "server_port", "gprs_keep_alive", "gprs_dns"}),
    RepCmd("roam", {"roam"}),
    RepCmd("track", {"track_mode", "track_time", "track_dist", "track_num", "track_gps_fix",
                    "track_commselect", "track_heading"}),
    RepCmd("lowbatt", {"lowbatt_report", "lowbatt_vip"}),
    RepCmd("phone", {"vloc_stat", "vloc_vip"}),
    RepCmd("imei", {"imei"}),
    RepCmd("sim", {"sim_id"}),
    RepCmd("vip", {"vip1", "vip2", "vip3", "vip4", "vip5"}),
    RepCmd("ps", {"ps_mode", "ps_interval", "ps_wakup_action", "ps_vip", "ps_timer1", "ps_timer2", "ps_timer3"}),
    RepCmd("mswitch", {"mswitch_action", "mswitch_vip"}),
    RepCmd("ver", {"sw_ver", "hw_ver"}),
    RepCmd("led", {"led"}),
    RepCmd("sms", {"sms_mode"}),
    RepCmd("tz", {"tz_sign", "tz_h", "tz_m"}),
    RepCmd("sleep", {"sleep_action"}),
    RepCmd("rec", {"rec_mode", "rec_timer", "rec_dist", "rec_number", "rec_gps_fix", "rec_heading"}),
    RepCmd("sens", {"gsens"}),
    RepCmd("gfen", {"gfen_status", "gfen_radius", "gfen_zone", "gfen_action", "gfen_vip"}),
    RepCmd("test", {"test_result", "test_batt"}) >>

RepFields == UNION {dev_report_cmd_list[i].fld_names : i \in DOMAIN dev_report_cmd_list}

-----------------------------------------------------------------------------
(* The names that the callback of a cell reads, and the cells of each      *)
(* table.                                                                  *)

cb_DEVICE == [ID |-> {"device_id"}, nick |-> {"device_id"}, PIN |-> {"device_pwd"}, SW_VER |-> {"sw_ver"},
              TZ |-> {"tz_sign", "tz_h", "tz_m"}, LED |-> {"led"}, RA |-> {"mswitch_action", "mswitch_vip"},
              GSENS |-> {"gsens"}, TEST |-> {"test_result"}]

\* Column 2 shows the second number again, column 3 the third.
cb_VIP_no(c) == {CASE c = 0 -> "vip1" [] c \in {1, 2} -> "vip2" [] c = 3 -> "vip3" [] c = 4 -> "vip5"}

\* ROAMING returns the pointer that GET gives it as a _Bool: always TRUE, whatever was read.
cb_SIM == [ID |-> {"sim_id"}, PIN |-> {"sim_pin"}, ROAMING |-> {}]

cb_POWER == [MODE |-> {"ps_mode"}, INTERVAL |-> {"ps_interval"}, SLEEP |-> {"sleep_action"},
             WAKEUP |-> {"ps_wakup_action", "ps_vip"}]
cb_POWER_TIMER(c) == {CASE c = 0 -> "ps_timer1" [] c = 1 -> "ps_timer2" [] OTHER -> "ps_timer3"}

cb_BATTERY == [VOLTAGE |-> {"test_batt"}, PERCENT |-> {"test_batt"}, LOW |-> {"lowbatt_report", "lowbatt_vip"}]

cb_GSM == [MODE |-> {"comm_select"}, SMS |-> {"sms_mode"}, SMS_NBR |-> {"sms_base"}, CSD_NBR |-> {"csd_base"},
           LOCATION |-> {"vloc_stat", "vloc_vip"}, IMEI |-> {"imei"}]

cb_GPRS == [APN |-> {"gprs_apn"}, server |-> {"server_ip"}, port |-> {"server_port"}, user |-> {"gprs_user"},
            pwd |-> {"gprs_pwd"}, DNS |-> {"gprs_dns"}, keep_alive |-> {"gprs_keep_alive"}]

cb_LLOG == [mode |-> {"rec_mode"}, timer |-> {"rec_timer"}, dist |-> {"rec_dist"}, number |-> {"rec_number"},
            heading |-> {"rec_heading"}, waitGPS |-> {"rec_gps_fix"}]

cb_LTRACK == [mode |-> {"track_mode"}, commselect |-> {"track_commselect"}, timer |-> {"track_time"},
              dist |-> {"track_dist"}, number |-> {"track_num"}, heading |-> {"track_heading"},
              waitGPS |-> {"track_gps_fix"}]

cb_GFENCE == [status |-> {"gfen_status"}, radius |-> {"gfen_radius"}, zone |-> {"gfen_zone"},
              action |-> {"gfen_action", "gfen_vip"}]

cb_LOGGED == [number |-> {"logged_num"}, dates_start |-> {"logged_dates"}, dates_end |-> {"logged_dates"}]

_tbl_device == {cb_DEVICE.ID, cb_DEVICE.nick, cb_DEVICE.PIN, cb_DEVICE.SW_VER, cb_DEVICE.RA, cb_DEVICE.TEST,
                cb_DEVICE.TZ, cb_DEVICE.LED, cb_BATTERY.LOW, cb_BATTERY.VOLTAGE, cb_BATTERY.PERCENT,
                cb_DEVICE.GSENS}
_tbl_VIP    == {cb_VIP_no(c) : c \in 0..4}
_tbl_GSM    == {cb_GSM.MODE, cb_GSM.SMS, cb_GSM.SMS_NBR, cb_GSM.CSD_NBR, cb_GSM.LOCATION, cb_SIM.ROAMING,
                cb_SIM.PIN, cb_GSM.IMEI, cb_SIM.ID}
_tbl_GPRS   == {cb_GPRS.APN, cb_GPRS.server \cup cb_GPRS.port, cb_GPRS.DNS, cb_GPRS.user, cb_GPRS.pwd,
                cb_GPRS.keep_alive}
_tbl_POWER  == {cb_POWER.MODE, cb_POWER.WAKEUP, cb_POWER.INTERVAL, cb_POWER.SLEEP}
               \cup {cb_POWER_TIMER(c) : c \in 1..3}
_tbl_llog   == {cb_LLOG.mode, cb_LLOG.timer, cb_LLOG.dist, cb_LLOG.number, cb_LLOG.heading, cb_LLOG.waitGPS}
_tbl_ltrack == {cb_LTRACK.mode, cb_LTRACK.commselect, cb_LTRACK.timer, cb_LTRACK.dist, cb_LTRACK.number,
                cb_LTRACK.heading, cb_LTRACK.waitGPS}
_tbl_LOGGED == {cb_LOGGED.number, cb_LOGGED.dates_start, cb_LOGGED.dates_end}
_tbl_gfence == {cb_GFENCE.status, cb_GFENCE.radius, cb_GFENCE.zone, cb_GFENCE.action}

RepCells == UNION (_tbl_device \cup _tbl_VIP \cup _tbl_GSM \cup _tbl_GPRS \cup _tbl_POWER \cup _tbl_llog
                   \cup _tbl_ltrack \cup _tbl_LOGGED \cup _tbl_gfence)

-----------------------------------------------------------------------------
VARIABLES rep,            \* [t |-> where its report is, what was asked for, and met: another ran meanwhile]
          repArrays,      \* the arrays allocated so far; live: not yet freed
          device_info,    \* the array in use (0: none yet), the file's global
          _g7report_env,  \* whose stack the jump buffer points into
          pdf_doc,        \* the document and what its cells show
          repStart,       \* whose dates the static buffer of cb_LOGGED_dates_start holds
          repSaved,       \* the models exported to JSON so far
          repGot,         \* history: [t |-> what the source of its running or written report told]
          repOut,         \* [t |-> how its last report ended]
          repCount, repOdd, repErrors,
          repMeeting,     \* history: two reports ran at the same time
          repWild         \* freed memory was used, or a jump went to another thread's stack

repVars == <<rep, repArrays, device_info, _g7report_env, pdf_doc, repStart, repSaved, repGot, repOut,
             repCount, repOdd, repErrors, repMeeting, repWild>>

RepEvents == 50..MaxEvent
NoModel   == [flds |-> {}, events |-> [e \in RepEvents |-> "none"], who |-> {}]
NoDoc     == [live |-> FALSE, flds |-> {}, events |-> {}, who |-> {}, start |-> {}]
NotAsked  == [pc |-> "idle", pos |-> 0, file |-> FALSE, gfevt |-> FALSE, met |-> FALSE]
Ended(rc) == [rc |-> rc, pdf |-> NoDoc, json |-> NoModel]

Reporting == {t \in RepThreads : rep[t].pc # "idle"}
ArrayLive == repArrays[device_info].live

RepInit ==
    /\ rep = [t \in RepThreads |-> NotAsked]
    /\ repArrays = <<>> /\ device_info = 0
    /\ _g7report_env = {} /\ pdf_doc = NoDoc
    /\ repStart = {} /\ repSaved = {}
    /\ repGot = [t \in RepThreads |-> NoModel]
    /\ repOut = [t \in RepThreads |-> Ended("none")]
    /\ repCount = 0 /\ repOdd = 0 /\ repErrors = 0
    /\ repMeeting = FALSE /\ repWild = FALSE

\* A name that is already there keeps its value.
assoc_put(m, names, t) ==
    IF names \subseteq m.flds THEN m ELSE [m EXCEPT !.flds = @ \cup names, !.who = @ \cup {t}]
PutEvent(m, e, lat, t) ==
    IF m.events[e] # "none" THEN m ELSE [m EXCEPT !.events[e] = lat, !.who = @ \cup {t}]

Model(a)     == [flds |-> a.flds, events |-> a.events, who |-> a.who]
AsArray(m)   == [live |-> TRUE, flds |-> m.flds, events |-> m.events, who |-> m.who]
Destroyed    == [AsArray(NoModel) EXCEPT !.live = FALSE]

RepReturn(t, out) ==
    /\ rep' = [rep EXCEPT ![t].pc = "idle"]
    /\ repOut' = [repOut EXCEPT ![t] = out]
    /\ repGot' = [repGot EXCEPT ![t] = IF out.rc = "written" THEN @ ELSE NoModel]

\* Memory that is no longer there was touched: nothing is said of what follows.
GoWild ==
    /\ repWild' = TRUE
    /\ UNCHANGED <<rep, repArrays, device_info, _g7report_env, pdf_doc, repGot, repOut, repCount, repOdd, repErrors,
                   repMeeting>>

-----------------------------------------------------------------------------
(* `report' or `.freport' from session t.  Bounds: where reports meet, and *)
(* that only behaviours in which none do have odd replies.                 *)

RepBegin(t, read_from_file, include_geofevt) ==
    /\ rep[t].pc = "idle"
    /\ \/ ~read_from_file /\ UNCHANGED repVars                    \* no device is connected: an error message
       \/ /\ repCount < MaxReports
          /\ \A u \in Reporting : rep[u].pos >= MeetFrom /\ repOdd = 0
          /\ rep' = [u \in RepThreads |->
                       IF u = t
                       THEN [pc |-> "init", pos |-> 0, file |-> read_from_file, gfevt |-> include_geofevt,
                             met |-> Reporting # {}]
                       ELSE [rep[u] EXCEPT !.met = @ \/ u \in Reporting]]
          /\ repGot' = [repGot EXCEPT ![t] = NoModel]
          /\ repOut' = [repOut EXCEPT ![t] = Ended("none")]
          /\ repCount' = repCount + 1
          /\ repMeeting' = (repMeeting \/ Reporting # {})
          /\ UNCHANGED <<repArrays, device_info, _g7report_env, pdf_doc, repStart, repSaved, repOdd, repErrors,
                         repWild>>

\* Mutant of init_model_from_device: an array that is already there is used again.
init_model_keeps_array(t) ==
    /\ rep[t].pc = "init" /\ ~rep[t].file
    /\ _g7report_env' = {t}
    /\ device_info' = IF device_info = 0 THEN 1 ELSE device_info
    /\ repArrays' = IF device_info = 0 THEN <<AsArray(NoModel)>> ELSE repArrays
    /\ rep' = [rep EXCEPT ![t].pc = "query", ![t].pos = 1]
    /\ UNCHANGED <<pdf_doc, repStart, repSaved, repCount, repOdd, repMeeting, repWild, repGot, repOut,
                   repErrors>>

\* A new array every time; the one of a failed import stays allocated.
init_model_from_device(t) ==
    /\ rep[t].pc = "init"
    /\ _g7report_env' = {t}
    /\ device_info' = Len(repArrays) + 1
    /\ UNCHANGED <<pdf_doc, repStart, repSaved, repCount, repOdd, repMeeting, repWild>>
    /\ \/ /\ ~rep[t].file
          /\ repArrays' = Append(repArrays, AsArray(NoModel))
          /\ rep' = [rep EXCEPT ![t].pc = "query", ![t].pos = 1]
          /\ UNCHANGED <<repGot, repOut, repErrors>>
       \/ /\ rep[t].file
          /\ \E m \in repSaved :                                  \* an export, copied to export.json
                /\ repArrays' = Append(repArrays, AsArray(m))
                /\ repGot' = [repGot EXCEPT ![t] = m]
          /\ rep' = [rep EXCEPT ![t].pc = "layout"]
          /\ UNCHANGED <<repOut, repErrors>>
       \/ /\ rep[t].file                                          \* no file, or not one of ours
          /\ repArrays' = Append(repArrays, AsArray(NoModel))
          /\ RepReturn(t, Ended("failed"))
          /\ repErrors' = repErrors + 1

QueryAnswered(t) ==
    rep' = IF rep[t].pos < Len(dev_report_cmd_list) THEN [rep EXCEPT ![t].pos = @ + 1]
           ELSE IF rep[t].gfevt THEN [rep EXCEPT ![t].pc = "events", ![t].pos = 50]
           ELSE [rep EXCEPT ![t].pc = "layout"]

\* One command of the list: the reply has the expected fields and they are stored, or it has not
\* (for dlrec: no dates) and nothing is, or there is none and the report ends.
send_command_get_replies(t) ==
    LET cmd == dev_report_cmd_list[rep[t].pos] IN
    /\ rep[t].pc = "query"
    /\ \/ /\ ArrayLive
          /\ repArrays' = [repArrays EXCEPT ![device_info] = assoc_put(@, cmd.fld_names, t)]
          /\ repGot' = [repGot EXCEPT ![t] = assoc_put(@, cmd.fld_names, t)]
          /\ QueryAnswered(t)
          /\ UNCHANGED <<repOut, repOdd, repWild>>
       \/ /\ repOdd < MaxOdd /\ cmd.cmd_name \in OddCmds /\ ~repMeeting
          /\ repOdd' = repOdd + 1
          /\ QueryAnswered(t)
          /\ UNCHANGED <<repArrays, repGot, repOut, repWild>>
       \/ /\ ArrayLive
          /\ repArrays' = [repArrays EXCEPT ![device_info] = Destroyed]
          /\ RepReturn(t, Ended("failed"))
          /\ UNCHANGED <<repOdd, repWild>>
       \/ /\ ~ArrayLive /\ GoWild
    /\ UNCHANGED <<device_info, _g7report_env, pdf_doc, repStart, repSaved, repCount, repErrors, repMeeting>>

EventAnswered(t) ==
    rep' = IF rep[t].pos < MaxEvent THEN [rep EXCEPT ![t].pos = @ + 1] ELSE [rep EXCEPT ![t].pc = "layout"]

\* One geofence event, set or empty; one that cannot be read is passed over.
gfevt(t) ==
    /\ rep[t].pc = "events"
    /\ \/ /\ ArrayLive
          /\ \E lat \in {"set", "empty"} :
                /\ repArrays' = [repArrays EXCEPT ![device_info] = PutEvent(@, rep[t].pos, lat, t)]
                /\ repGot' = [repGot EXCEPT ![t] = PutEvent(@, rep[t].pos, lat, t)]
          /\ EventAnswered(t)
          /\ UNCHANGED <<repOut, repWild>>
       \/ /\ EventAnswered(t)
          /\ UNCHANGED <<repArrays, repGot, repOut, repWild>>
       \/ /\ ~ArrayLive /\ GoWild
    /\ UNCHANGED <<device_info, _g7report_env, pdf_doc, repStart, repSaved, repCount, repOdd, repErrors,
                   repMeeting>>

\* The error handler of the PDF library jumps to whoever called setjmp last; there the document
\* is freed and the array is not.
error_handler(t) ==
    \/ /\ _g7report_env = {t}
       /\ pdf_doc' = NoDoc
       /\ RepReturn(t, Ended("failed"))
       /\ repErrors' = repErrors + 1
       /\ UNCHANGED repWild
    \/ /\ _g7report_env # {t}
       /\ GoWild

\* Whose dates the Start time cell shows: those of the array, or what an earlier report left in the buffer.
cb_LOGGED_dates_start ==
    IF "logged_dates" \in repArrays[device_info].flds THEN repArrays[device_info].who ELSE repStart

\* The events that get a table: those that were read, without the empty ones if they are hidden.
EventTables(a) ==
    {e \in RepEvents : a.events[e] = "set" \/ (a.events[e] = "empty" /\ ~pdfreport_hide_empty_geoevent)}

layout_g7ctrl_report(t) ==
    LET a == repArrays[device_info] IN
    /\ rep[t].pc = "layout"
    /\ \/ /\ ArrayLive
          /\ pdf_doc' = [live |-> TRUE, flds |-> a.flds \cap RepCells,
                         events |-> IF rep[t].gfevt THEN EventTables(a) ELSE {},
                         who |-> a.who, start |-> cb_LOGGED_dates_start]
          /\ repStart' = cb_LOGGED_dates_start
          /\ rep' = [rep EXCEPT ![t].pc = "save"]
          /\ UNCHANGED <<repGot, repOut, repErrors, repWild>>
       \/ /\ ArrayLive
          /\ \E d \in {repStart, cb_LOGGED_dates_start} : repStart' = d
          /\ error_handler(t)
       \/ /\ ~ArrayLive /\ GoWild /\ UNCHANGED repStart
    /\ UNCHANGED <<repArrays, device_info, _g7report_env, repSaved, repCount, repOdd, repMeeting>>

\* The model as JSON, if the file can be written, then the document; then both are freed.
export_g7ctrl_report(t) ==
    LET m == Model(repArrays[device_info]) IN
    /\ rep[t].pc = "save"
    /\ \/ /\ ArrayLive /\ pdf_doc.live
          /\ \E json \in {m, NoModel} :
                /\ repSaved' = repSaved \cup ({json} \ {NoModel})
                /\ RepReturn(t, [rc |-> "written", pdf |-> pdf_doc, json |-> json])
          /\ pdf_doc' = NoDoc
          /\ repArrays' = [repArrays EXCEPT ![device_info] = Destroyed]
          /\ UNCHANGED <<repErrors, repWild>>
       \/ /\ ArrayLive /\ pdf_doc.live
          /\ \E json \in {m, NoModel} : repSaved' = repSaved \cup ({json} \ {NoModel})
          /\ error_handler(t)
          /\ UNCHANGED repArrays
       \/ /\ ~(ArrayLive /\ pdf_doc.live) /\ GoWild /\ UNCHANGED repSaved
    /\ UNCHANGED <<device_info, _g7report_env, repStart, repCount, repOdd, repMeeting>>

RepNext ==
    /\ ~repWild
    /\ \E t \in RepThreads :
          \/ \E file, events \in BOOLEAN : RepBegin(t, file, events)
          \/ init_model_from_device(t)
          \/ send_command_get_replies(t)
          \/ gfevt(t)
          \/ layout_g7ctrl_report(t)
          \/ export_g7ctrl_report(t)

RepSpec == RepInit /\ [][RepNext]_repVars

-----------------------------------------------------------------------------
RepTypeOK ==
    /\ \A t \in RepThreads :
          /\ rep[t].pc \in {"idle", "init", "query", "events", "layout", "save"}
          /\ rep[t].pc = "query" => rep[t].pos \in DOMAIN dev_report_cmd_list
          /\ rep[t].pc = "events" => rep[t].pos \in RepEvents
          /\ repGot[t].flds \subseteq RepFields
          /\ repOut[t].rc \in {"none", "failed", "written"}
    /\ device_info \in 0..Len(repArrays) /\ Len(repArrays) <= MaxReports
    /\ \A i \in DOMAIN repArrays : repArrays[i].flds \subseteq RepFields
    /\ _g7report_env \in SUBSET RepThreads /\ Cardinality(_g7report_env) <= 1
    /\ pdf_doc.flds \subseteq RepCells
    /\ repCount \in 0..MaxReports /\ repOdd \in 0..MaxOdd /\ repErrors \in 0..MaxReports
    /\ {repMeeting, repWild} \subseteq BOOLEAN

NeverShown == {"hw_ver", "vip4", "roam", "ps_timer1"}

\* A report that no other one met (g7pdf_report_view.c:154: the array, the document and the jump buffer are
\* globals) shows and exports what its own device or file told, no more and no less, whatever the reports
\* before it left behind: every field that a cell was meant for, except the four that no cell reads and a
\* start date when the reply had none; the events that are set.  And as long as reports did not meet, nothing
\* freed is used and the arrays in memory are those of the running reports and of the ones a PDF error or a
\* bad file ended.
ReportIsOwn ==
    /\ \A t \in RepThreads : repOut[t].rc = "written" /\ ~rep[t].met =>
          LET pdf == repOut[t].pdf
              got == repGot[t]
          IN  /\ pdf.flds = got.flds \ NeverShown
              /\ pdf.events = (IF rep[t].gfevt THEN EventTables(got) ELSE {})
              /\ pdf.who = got.who
              /\ "logged_dates" \in got.flds => pdf.start = got.who
              /\ repOut[t].json \in {got, NoModel}
    /\ ~repMeeting =>
          /\ ~repWild
          /\ Cardinality({i \in DOMAIN repArrays : repArrays[i].live})
               = repErrors + Cardinality({t \in RepThreads : rep[t].pc \notin {"idle", "init"}})
=============================================================================

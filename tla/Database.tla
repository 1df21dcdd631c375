------------------------------ MODULE Database ------------------------------
(***************************************************************************)
(* The database of locations and nicknames (src/src/dbcmd.c,               *)
(* src/src/nicks.c, src/src/export.c).  Every operation opens a connection *)
(* of its own (db_setup), and there is no mutex around it: what keeps the  *)
(* operations of several threads apart is the locking of SQLite alone,     *)
(* without a busy timeout.  The callbacks that collect result rows count   *)
(* them in variables that all threads share.                               *)
(*                                                                         *)
(* A report is its number, which is also its time on the device; the order *)
(* of `loc` is the order of arrival.  Number 0 stands for a line that is   *)
(* not a report.  Coordinates, addresses, formats and texts are left out.  *)
(***************************************************************************)
EXTENDS Integers, Sequences, FiniteSets, SequencesExt, Rows

CONSTANTS DbThreads,  \* tracker and command threads
          ChunkSize,  \* INTERNAL_LIST_CHUNKSIZE
          MaxOps,     \* bound: operations on the database
          MaxMeet     \* bound: of these, the first ones may overlap

ASSUME DbAssumption == ChunkSize \in Nat \ {0} /\ {MaxOps, MaxMeet} \subseteq Nat

VARIABLES
    loc, table, nicktab,        \* the committed rows of tbl_track, whether it exists, tbl_nick
    reserved, reading, pend,    \* owner of the RESERVED lock, holders of SHARED, rows inserted and not committed
    num_cb, max_num_cb,         \* statics of dbcmd.c
    nick_cb_cnt, nick_res_set,  \* statics of nicks.c
    g7loc_list, resSetLength,   \* globals of export.c
    sort_order,                 \* static of dbcmd.c
    tmpfile, gzfile, files,     \* the file a mail is made of, compressed; export files that stay open
    dpc, job, row, got,         \* a thread's operation: its step, arguments, next row, result
    answer,                     \* history: the operation that ended last, and what it answered
    ops, fresh,                 \* operations so far, number of the next report
    told,                       \* reports whose callback ran (mail, script)
    bulk,                       \* history: reports from the memory of a device
    stored, failed, emptied,    \* history: reports of stores that succeeded, that failed, that were deleted
    met,                        \* history: two operations overlapped
    corrupt                     \* history: memory was used that is not theirs

rowVars  == <<loc, table, nicktab>>
lockVars == <<reserved, reading, pend>>
cbVars   == <<num_cb, max_num_cb>>
nickVars == <<nick_cb_cnt, nick_res_set>>
expVars  == <<g7loc_list, resSetLength>>
fileVars == <<tmpfile, gzfile, files>>
pcVars   == <<dpc, job, row, got, answer>>
pastVars == <<told, bulk, stored, failed, emptied>>
dbVars   == <<rowVars, lockVars, cbVars, nickVars, expVars, fileVars, sort_order, pcVars, ops, fresh, pastVars, met, corrupt>>

Nobody == "nobody"
Null   == <<-1>>   \* no list is allocated
Idle   == [op |-> "idle"]
NoAnswer == [job |-> Idle, out |-> <<>>]

\* A database from an earlier run: two reports, the older one arrived last, and one device.
DbInit ==
    /\ loc = <<2, 1>> /\ table = TRUE /\ nicktab = <<[nick |-> 1, devid |-> 1, imei |-> 1]>>
    /\ reserved = Nobody /\ reading = {} /\ pend = [t \in DbThreads |-> <<>>]
    /\ num_cb = 0 /\ max_num_cb = 0
    /\ nick_cb_cnt = 0 /\ nick_res_set = <<>>
    /\ g7loc_list = Null /\ resSetLength = 0
    /\ sort_order = "arrival"
    /\ tmpfile = Null /\ gzfile = Null /\ files = 0
    /\ dpc = [t \in DbThreads |-> "idle"] /\ job = [t \in DbThreads |-> Idle]
    /\ row = [t \in DbThreads |-> 0] /\ got = [t \in DbThreads |-> <<>>]
    /\ answer = NoAnswer
    /\ ops = 0 /\ fresh = 3
    /\ told = {} /\ bulk = {} /\ stored = {} /\ failed = {} /\ emptied = {}
    /\ met = FALSE /\ corrupt = FALSE

-----------------------------------------------------------------------------
(* Connections and locks (SQLite)                                          *)

\* db_setup: a new connection; an operation begins.  Nothing is said of a daemon whose memory
\* is corrupted.
db_setup(t, j) ==
    /\ dpc[t] = "idle" /\ ops < MaxOps /\ ~corrupt
    /\ ops >= MaxMeet => \A u \in DbThreads : dpc[u] = "idle"
    /\ ops' = ops + 1
    /\ met' = (met \/ \E u \in DbThreads \ {t} : dpc[u] # "idle")
    /\ job' = [job EXCEPT ![t] = j]
    /\ answer' = NoAnswer

Busy(t)     == reserved \notin {Nobody, t}
CanWrite(t) == ~Busy(t) /\ reading \subseteq {t}

DbGoto(t, l) == dpc' = [dpc EXCEPT ![t] = l]

\* db_close: locks are released, what was not committed is undone.
db_close(t, a) ==
    /\ DbGoto(t, "idle")
    /\ job' = [job EXCEPT ![t] = Idle]
    /\ row' = [row EXCEPT ![t] = 0]
    /\ got' = [got EXCEPT ![t] = <<>>]
    /\ answer' = [job |-> job[t], out |-> a]
    /\ reserved' = IF reserved = t THEN Nobody ELSE reserved
    /\ reading' = reading \ {t}
    /\ pend' = [pend EXCEPT ![t] = <<>>]

-----------------------------------------------------------------------------
(* Storing reports                                                         *)

\* db_store_locations: the statement is prepared, the transaction begins.  Lines come from a
\* tracker, one at a time and with a callback, or from the memory of a device (DLREC).
StartStore(t, lines, cb) ==
    /\ db_setup(t, [op |-> "store", lines |-> lines, cb |-> cb])
    /\ DbGoto(t, IF table THEN "row" ELSE "refused")
    /\ row' = [row EXCEPT ![t] = 1]
    /\ bulk' = IF cb THEN bulk ELSE bulk \cup (ToSet(lines) \ {0})
    /\ fresh' = fresh + Cardinality(ToSet(lines) \ {0})
    /\ UNCHANGED <<rowVars, lockVars, cbVars, nickVars, expVars, fileVars, sort_order, got, told, stored, failed, emptied, corrupt>>

Lines(t) == ToSet(job[t].lines) \ {0}

EndStore(t, rc) ==
    /\ db_close(t, <<rc>>)
    /\ failed' = IF rc < 0 THEN failed \cup Lines(t) ELSE failed
    /\ stored' = IF rc < 0 THEN stored ELSE stored \cup Lines(t)

\* The table is gone: sqlite3_prepare_v2 fails.
CannotPrepare(t) ==
    /\ dpc[t] = "refused"
    /\ EndStore(t, -1)
    /\ UNCHANGED <<rowVars, cbVars, nickVars, expVars, fileVars, sort_order, ops, fresh, told, bulk, emptied, met, corrupt>>

\* Mutant: the other lines of the batch are kept when a line is malformed.
MalformedKept(t) ==
    /\ dpc[t] = "row" /\ job[t].lines[row[t]] = 0
    /\ EndStore(t, -1)
    /\ loc' = loc \o pend[t]
    /\ UNCHANGED <<table, nicktab, cbVars, nickVars, expVars, fileVars, sort_order, ops, fresh, told, bulk, emptied, met, corrupt>>

\* A line that is no report ends the store, and the lines before it are undone.
MalformedLine(t) ==
    /\ dpc[t] = "row" /\ job[t].lines[row[t]] = 0
    /\ EndStore(t, -1)
    /\ UNCHANGED <<rowVars, cbVars, nickVars, expVars, fileVars, sort_order, ops, fresh, told, bulk, emptied, met, corrupt>>

\* sqlite3_step inserts the row.  When another connection writes, or the table is gone, it
\* does not, and nobody notices: only SQLITE_LOCKED is looked for.
InsertRow(t) ==
    /\ dpc[t] = "row" /\ job[t].lines[row[t]] # 0
    /\ \/ /\ table /\ ~Busy(t)
          /\ reserved' = t
          /\ pend' = [pend EXCEPT ![t] = Append(@, job[t].lines[row[t]])]
       \/ /\ ~table \/ Busy(t)
          /\ UNCHANGED <<reserved, pend>>
    /\ DbGoto(t, "callback")
    /\ UNCHANGED <<rowVars, reading, cbVars, nickVars, expVars, fileVars, sort_order, job, row, got, answer, ops, fresh,
                   pastVars, met, corrupt>>

\* The callback of the row (store_loc_Callback of tracker.c), inside of the transaction.
RowCallback(t) ==
    /\ dpc[t] = "callback"
    /\ told' = IF job[t].cb THEN told \cup {job[t].lines[row[t]]} ELSE told
    /\ row' = [row EXCEPT ![t] = @ + 1]
    /\ DbGoto(t, IF row[t] < Len(job[t].lines) THEN "row" ELSE "commit")
    /\ UNCHANGED <<rowVars, lockVars, cbVars, nickVars, expVars, fileVars, sort_order, job, got, answer, ops, fresh,
                   bulk, stored, failed, emptied, met, corrupt>>

\* COMMIT fails while another connection reads, and the whole batch is undone.
Commit(t) ==
    /\ dpc[t] = "commit"
    /\ \/ /\ pend[t] = <<>> \/ CanWrite(t)
          /\ loc' = loc \o pend[t]
          /\ EndStore(t, Len(job[t].lines))
       \/ /\ pend[t] # <<>> /\ ~CanWrite(t)
          /\ EndStore(t, -1)
          /\ UNCHANGED loc
    /\ UNCHANGED <<table, nicktab, cbVars, nickVars, expVars, fileVars, sort_order, ops, fresh, told, bulk, emptied, met, corrupt>>

-----------------------------------------------------------------------------
(* Deleting                                                                *)

\* db_empty_loc: DROP TABLE, VACUUM and CREATE TABLE, the first that fails ends it.
StartEmpty(t) ==
    /\ db_setup(t, [op |-> "empty"])
    /\ DbGoto(t, "drop")
    /\ UNCHANGED <<rowVars, lockVars, cbVars, nickVars, expVars, fileVars, sort_order, row, got, fresh, pastVars, corrupt>>

DropTable(t) ==
    /\ dpc[t] = "drop"
    /\ \/ /\ table /\ CanWrite(t)
          /\ table' = FALSE /\ loc' = <<>>
          /\ emptied' = emptied \cup ToSet(loc)
          /\ DbGoto(t, "vacuum")
          /\ UNCHANGED <<lockVars, job, row, got, answer>>
       \/ /\ ~table \/ ~CanWrite(t)
          /\ db_close(t, <<-1>>)
          /\ UNCHANGED <<table, loc, emptied>>
    /\ UNCHANGED <<nicktab, cbVars, nickVars, expVars, fileVars, sort_order, ops, fresh, told, bulk, stored, failed, met, corrupt>>

Vacuum(t) ==
    /\ dpc[t] = "vacuum"
    /\ \/ CanWrite(t) /\ DbGoto(t, "create") /\ UNCHANGED <<lockVars, job, row, got, answer>>
       \/ ~CanWrite(t) /\ db_close(t, <<-1>>)
    /\ UNCHANGED <<rowVars, cbVars, nickVars, expVars, fileVars, sort_order, ops, fresh, pastVars, met, corrupt>>

CreateTable(t) ==
    /\ dpc[t] = "create"
    /\ \/ CanWrite(t) /\ table' = TRUE /\ db_close(t, <<0>>)
       \/ ~CanWrite(t) /\ UNCHANGED table /\ db_close(t, <<-1>>)
    /\ UNCHANGED <<loc, nicktab, cbVars, nickVars, expVars, fileVars, sort_order, ops, fresh, pastVars, met, corrupt>>

\* db_exec_sql: a statement whose result is not used; the command DLREC removes with it the
\* rows that are there twice, of which there are none here.
ExecSql(t) ==
    /\ db_setup(t, [op |-> "exec"])
    /\ DbGoto(t, "exec")
    /\ UNCHANGED <<rowVars, lockVars, cbVars, nickVars, expVars, fileVars, sort_order, row, got, fresh, pastVars, corrupt>>
EndExecSql(t) ==
    /\ dpc[t] = "exec"
    /\ db_close(t, IF table /\ CanWrite(t) THEN <<0>> ELSE <<-1>>)
    /\ UNCHANGED <<rowVars, cbVars, nickVars, expVars, fileVars, sort_order, ops, fresh, pastVars, met, corrupt>>

-----------------------------------------------------------------------------
(* Lists: db head, db tail, db lastloc, mail lastloc                       *)

Sorted(descending) ==
    LET s == IF sort_order = "arrival" THEN loc ELSE Ranked(ToSet(loc))
    IN  IF descending THEN Reverse(s) ELSE s

db_set_sortorder(o) ==
    /\ ops < MaxOps /\ \A t \in DbThreads : dpc[t] = "idle"
    /\ sort_order # o /\ sort_order' = o
    /\ ops' = ops + 1
    /\ answer' = NoAnswer
    /\ UNCHANGED <<rowVars, lockVars, cbVars, nickVars, expVars, fileVars, dpc, job, row, got, fresh, pastVars, met, corrupt>>

\* _db_getloclist: SELECT ... ORDER BY ... LIMIT n into an array of n rows.
db_loclist(t, op, head, n) ==
    /\ db_setup(t, [op |-> op, head |-> head, n |-> n])
    /\ DbGoto(t, IF table THEN "select" ELSE "nolist")
    /\ num_cb' = 0 /\ max_num_cb' = n
    /\ row' = [row EXCEPT ![t] = 1]
    /\ got' = [got EXCEPT ![t] = [i \in 1..n |-> 0]]
    /\ reading' = IF table THEN reading \cup {t} ELSE reading
    /\ UNCHANGED <<rowVars, reserved, pend, nickVars, expVars, fileVars, sort_order, fresh, pastVars, corrupt>>

Selected(t) == LET s == Sorted(job[t].head) IN SubSeq(s, 1, IF job[t].n < Len(s) THEN job[t].n ELSE Len(s))

\* One row of the result; the counter may have been moved by another list.
sql_reslist_callback(t) ==
    /\ dpc[t] = "select" /\ row[t] <= Len(Selected(t))
    /\ \/ num_cb >= max_num_cb /\ DbGoto(t, "nolist") /\ reading' = reading \ {t} /\ UNCHANGED <<num_cb, got, row, corrupt>>
       \/ /\ num_cb < max_num_cb
          /\ IF num_cb < job[t].n
             THEN got' = [got EXCEPT ![t][num_cb + 1] = Selected(t)[row[t]]] /\ UNCHANGED corrupt
             ELSE corrupt' = TRUE /\ UNCHANGED got
          /\ num_cb' = num_cb + 1
          /\ row' = [row EXCEPT ![t] = @ + 1]
          /\ UNCHANGED <<dpc, reading>>
    /\ UNCHANGED <<rowVars, reserved, pend, max_num_cb, nickVars, expVars, fileVars, sort_order, job, answer, ops, fresh,
                   pastVars, met>>

EndSelect(t) ==
    /\ dpc[t] = "select" /\ row[t] > Len(Selected(t))
    /\ reading' = reading \ {t}
    /\ DbGoto(t, IF num_cb = 0 THEN "nolist" ELSE "show")
    /\ UNCHANGED <<rowVars, reserved, pend, cbVars, nickVars, expVars, fileVars, sort_order, job, row, got, answer, ops, fresh,
                   pastVars, met, corrupt>>

ListError(t) ==
    /\ dpc[t] = "nolist"
    /\ db_close(t, <<-1>>)
    /\ UNCHANGED <<rowVars, cbVars, nickVars, expVars, fileVars, sort_order, ops, fresh, pastVars, met, corrupt>>

\* Mutant: the tail is not turned round.
ShownUnturned(t) == SubSeq(got[t], 1, num_cb)

\* The table that is shown, newest first: the rows of a tail are turned round.
Shown(t) == IF job[t].head THEN SubSeq(got[t], 1, num_cb) ELSE Reverse(SubSeq(got[t], 1, num_cb))

Filled(t) == num_cb <= job[t].n /\ \A i \in 1..num_cb : got[t][i] # 0

\* The rows are taken by the shared counter: a place that was not filled, or lies behind the
\* array, is read as a string.
ShowList(t) ==
    /\ dpc[t] = "show" /\ job[t].op = "list"
    /\ \/ /\ Filled(t)
          /\ db_close(t, Shown(t)) /\ UNCHANGED corrupt
       \/ /\ ~Filled(t)
          /\ corrupt' = TRUE /\ db_close(t, <<-1>>)
    /\ UNCHANGED <<rowVars, cbVars, nickVars, expVars, fileVars, sort_order, ops, fresh, pastVars, met>>

\* mail_lastloc: the row is taken without a look at the counter, and mailed.
mail_lastloc(t) ==
    /\ dpc[t] = "show" /\ job[t].op = "mailloc"
    /\ corrupt' = (corrupt \/ got[t][1] = 0)
    /\ \E sent \in BOOLEAN : db_close(t, IF sent THEN got[t] ELSE <<-1>>)
    /\ UNCHANGED <<rowVars, cbVars, nickVars, expVars, fileVars, sort_order, ops, fresh, pastVars, met>>

-----------------------------------------------------------------------------
(* Export and distance                                                     *)

\* export_to_internal_set: everything, or one device's rows, or an impossible range.  An
\* impossible range frees the list, whoever's list it is.
Ranges == {"all", "device", "wrong"}
export_to_internal_set(t, op, range, format, file) ==
    /\ db_setup(t, [op |-> op, range |-> range, format |-> format, file |-> file])
    /\ \/ /\ range = "wrong" \/ ~table
          /\ DbGoto(t, "free") /\ UNCHANGED <<expVars, reading>>
       \/ /\ range # "wrong" /\ table
          /\ g7loc_list' = <<>> /\ resSetLength' = 0
          /\ reading' = reading \cup {t}
          /\ DbGoto(t, "fill")
    /\ row' = [row EXCEPT ![t] = 1]
    /\ UNCHANGED <<rowVars, reserved, pend, cbVars, nickVars, fileVars, sort_order, got, fresh, pastVars, corrupt>>

InRange(t) == Kept(loc, {i \in DOMAIN loc : job[t].range = "all" \/ loc[i] % 2 = 1})

Put(s, i, n) == [k \in 1..(IF i > Len(s) THEN i ELSE Len(s)) |-> IF k = i THEN n ELSE IF k <= Len(s) THEN s[k] ELSE 0]

\* One row.  The list is enlarged by ChunkSize bytes, not rows: the row that needs it is
\* written behind it.
sqres_export_callback(t) ==
    /\ dpc[t] = "fill" /\ row[t] <= Len(InRange(t))
    /\ \/ /\ g7loc_list # Null /\ resSetLength < ChunkSize
          /\ g7loc_list' = Put(g7loc_list, resSetLength + 1, InRange(t)[row[t]])
          /\ resSetLength' = resSetLength + 1
          /\ UNCHANGED corrupt
       \/ /\ g7loc_list = Null \/ resSetLength >= ChunkSize
          /\ corrupt' = TRUE /\ UNCHANGED expVars
    /\ row' = [row EXCEPT ![t] = @ + 1]
    /\ UNCHANGED <<rowVars, lockVars, cbVars, nickVars, fileVars, sort_order, dpc, job, got, answer, ops, fresh, pastVars, met>>

EndFill(t) ==
    /\ dpc[t] = "fill" /\ row[t] > Len(InRange(t))
    /\ reading' = reading \ {t}
    /\ DbGoto(t, "file")
    /\ UNCHANGED <<rowVars, reserved, pend, cbVars, nickVars, expVars, fileVars, sort_order, job, row, got, answer, ops, fresh,
                   pastVars, met, corrupt>>

\* What the writers put into the file, and whether they close it.
export_to_prop_xml(rows) == [rows |-> rows, open |-> 1]
export_to_gpx(rows)      == [rows |-> rows, open |-> 0]
export_to_kml(rows)      == [rows |-> rows, open |-> 0]
export_to_csv(rows)      == [rows |-> rows, open |-> 0]
export_to_json(rows)     == [rows |-> rows, open |-> 0]
Written(format, rows) ==
    CASE format = "xml"  -> export_to_prop_xml(rows)
      [] format = "gpx"  -> export_to_gpx(rows)
      [] format = "kml"  -> export_to_kml(rows)
      [] format = "csv"  -> export_to_csv(rows)
      [] format = "json" -> export_to_json(rows)

\* Every name of a file is good here but a relative one.
open_export_file(file) == file # "relative"

\* exportdb_to_external_format writes the rows the list has now, as many as resSetLength says.
exportdb_to_external_format(t) ==
    /\ dpc[t] = "file" /\ job[t].op # "dist"
    /\ LET usable == open_export_file(job[t].file) /\ job[t].format # "unknown"
           out    == Written(job[t].format, SubSeq(g7loc_list, 1, resSetLength))
       IN \/ /\ usable /\ g7loc_list # Null
             /\ got' = [got EXCEPT ![t] = out.rows]
             /\ files' = files + out.open
             /\ tmpfile' = IF job[t].file = "tmp" THEN out.rows ELSE tmpfile
             /\ UNCHANGED corrupt
          \/ /\ usable /\ g7loc_list = Null
             /\ corrupt' = (corrupt \/ resSetLength > 0)
             /\ UNCHANGED <<got, tmpfile, files>>
          \/ /\ ~usable
             /\ got' = [got EXCEPT ![t] = <<-1>>]
             /\ UNCHANGED <<tmpfile, files, corrupt>>
    /\ DbGoto(t, "free")
    /\ UNCHANGED <<rowVars, lockVars, cbVars, nickVars, expVars, gzfile, sort_order, job, row, answer, ops, fresh,
                   pastVars, met>>

\* db_calc_distance: the legs between the rows that are listed now.
db_calc_distance(t) ==
    /\ dpc[t] = "file" /\ job[t].op = "dist"
    /\ corrupt' = (corrupt \/ (g7loc_list = Null /\ resSetLength > 1))
    /\ got' = [got EXCEPT ![t] = IF resSetLength > 1 THEN <<resSetLength - 1>> ELSE <<-1>>]
    /\ DbGoto(t, "free")
    /\ UNCHANGED <<rowVars, lockVars, cbVars, nickVars, expVars, fileVars, sort_order, job, row, answer, ops, fresh,
                   pastVars, met>>

free_internal_set(t) ==
    /\ dpc[t] = "free"
    /\ g7loc_list' = Null
    /\ \/ /\ job[t].op # "mail"
          /\ db_close(t, IF job[t].range = "wrong" THEN <<-1>> ELSE got[t])
       \/ job[t].op = "mail" /\ DbGoto(t, "compress") /\ UNCHANGED <<lockVars, job, row, got, answer>>
    /\ UNCHANGED <<rowVars, cbVars, nickVars, resSetLength, fileVars, sort_order, ops, fresh, pastVars, met, corrupt>>

\* mail_as_attachment: every mail uses the same name.  The exported file is replaced by its
\* compressed form, which is attached and removed when the mail was sent.
Compress(t) ==
    /\ dpc[t] = "compress"
    /\ \/ /\ tmpfile # Null
          /\ gzfile' = tmpfile /\ tmpfile' = Null
          /\ DbGoto(t, "attach") /\ UNCHANGED <<lockVars, job, row, got, answer>>
       \/ tmpfile = Null /\ db_close(t, <<-1>>) /\ UNCHANGED <<tmpfile, gzfile>>
    /\ UNCHANGED <<rowVars, cbVars, nickVars, expVars, files, sort_order, ops, fresh, pastVars, met, corrupt>>

mail_as_attachment(t) ==
    /\ dpc[t] = "attach"
    /\ \/ gzfile # Null /\ db_close(t, gzfile) /\ gzfile' = Null
       \/ db_close(t, <<-1>>) /\ UNCHANGED gzfile
    /\ UNCHANGED <<rowVars, cbVars, nickVars, expVars, tmpfile, files, sort_order, ops, fresh, pastVars, met, corrupt>>

-----------------------------------------------------------------------------
(* Nicknames; 0 is an empty argument                                       *)

NickMatches(j, r) == CASE j.by = "imei"  -> r.imei = j.imei
                       [] j.by = "devid" -> r.devid = j.devid
                       [] j.by = "nick"  -> r.nick = j.nick
                       [] j.by = "all"   -> TRUE
NickRows(j) == Kept(nicktab, {i \in DOMAIN nicktab : NickMatches(j, nicktab[i])})

\* The SELECT by which db_update_nick, db_get_nick_from_devid and db_get_devid_from_nick begin.
SelectNick(t, op, by, nick, devid, imei) ==
    /\ db_setup(t, [op |-> op, by |-> by, nick |-> nick, devid |-> devid, imei |-> imei])
    /\ nick_cb_cnt' = 0
    /\ reading' = reading \cup {t}
    /\ row' = [row EXCEPT ![t] = 1]
    /\ DbGoto(t, "nicks")
    /\ UNCHANGED <<rowVars, reserved, pend, cbVars, nick_res_set, expVars, fileVars, sort_order, got, fresh, pastVars, corrupt>>

update_nick_callback(t) ==
    /\ dpc[t] = "nicks" /\ row[t] <= Len(NickRows(job[t]))
    /\ nick_res_set' = Put(nick_res_set, nick_cb_cnt + 1, NickRows(job[t])[row[t]])
    /\ nick_cb_cnt' = nick_cb_cnt + 1
    /\ row' = [row EXCEPT ![t] = @ + 1]
    /\ UNCHANGED <<rowVars, lockVars, cbVars, expVars, fileVars, sort_order, dpc, job, got, answer, ops, fresh, pastVars,
                   met, corrupt>>

EndNicks(t) ==
    /\ dpc[t] = "nicks" /\ row[t] > Len(NickRows(job[t]))
    /\ reading' = reading \ {t}
    /\ DbGoto(t, IF job[t].op = "update" THEN "update" ELSE "nickname")
    /\ UNCHANGED <<rowVars, reserved, pend, cbVars, nickVars, expVars, fileVars, sort_order, job, row, got, answer, ops, fresh,
                   pastVars, met, corrupt>>

Or(a, b) == IF a # 0 THEN a ELSE b

\* db_update_nick: one row is updated, none is added when every value is given, several are
\* only reported.
db_update_nick(t) ==
    /\ dpc[t] = "update"
    /\ LET j   == job[t]
           old == nick_res_set[nick_cb_cnt]
       IN \/ /\ nick_cb_cnt = 1 /\ CanWrite(t)
             /\ nicktab' = [i \in DOMAIN nicktab |->
                              IF nicktab[i].imei # j.imei THEN nicktab[i]
                              ELSE [nick |-> Or(j.nick, old.nick), devid |-> Or(j.devid, old.devid), imei |-> j.imei]]
             /\ db_close(t, <<0>>)
          \/ /\ nick_cb_cnt = 0 /\ j.nick # 0 /\ j.devid # 0 /\ CanWrite(t)
             /\ nicktab' = Append(nicktab, [nick |-> j.nick, devid |-> j.devid, imei |-> j.imei])
             /\ db_close(t, <<0>>)
          \/ nick_cb_cnt > 1 /\ UNCHANGED nicktab /\ db_close(t, <<0>>)
          \/ /\ \/ nick_cb_cnt < 2 /\ ~CanWrite(t)
                \/ nick_cb_cnt = 0 /\ 0 \in {j.nick, j.devid}
             /\ UNCHANGED nicktab /\ db_close(t, <<-1>>)
    /\ UNCHANGED <<loc, table, cbVars, nickVars, expVars, fileVars, sort_order, ops, fresh, pastVars, met, corrupt>>

\* db_get_nick_from_devid, db_get_devid_from_nick: exactly one row is an answer.
db_get_nick(t) ==
    /\ dpc[t] = "nickname" /\ job[t].by # "all"
    /\ db_close(t, IF nick_cb_cnt # 1 THEN <<-1>>
                   ELSE <<IF job[t].by = "devid" THEN nick_res_set[1].nick ELSE nick_res_set[1].devid>>)
    /\ UNCHANGED <<rowVars, cbVars, nickVars, expVars, fileVars, sort_order, ops, fresh, pastVars, met, corrupt>>

db_get_nick_list(t) ==
    /\ dpc[t] = "nickname" /\ job[t].by = "all"
    /\ db_close(t, SubSeq(nick_res_set, 1, nick_cb_cnt))
    /\ UNCHANGED <<rowVars, cbVars, nickVars, expVars, fileVars, sort_order, ops, fresh, pastVars, met, corrupt>>

db_delete_nick(t, nick) ==
    /\ db_setup(t, [op |-> "delete", by |-> "nick", nick |-> nick, devid |-> 0, imei |-> 0])
    /\ DbGoto(t, "delete")
    /\ UNCHANGED <<rowVars, lockVars, cbVars, nickVars, expVars, fileVars, sort_order, row, got, fresh, pastVars, corrupt>>
EndDelete(t) ==
    /\ dpc[t] = "delete"
    /\ \/ /\ CanWrite(t)
          /\ nicktab' = Kept(nicktab, {i \in DOMAIN nicktab : nicktab[i].nick # job[t].nick})
          /\ db_close(t, <<IF Len(NickRows(job[t])) = 1 THEN 0 ELSE -1>>)
       \/ ~CanWrite(t) /\ UNCHANGED nicktab /\ db_close(t, <<-1>>)
    /\ UNCHANGED <<loc, table, cbVars, nickVars, expVars, fileVars, sort_order, ops, fresh, pastVars, met, corrupt>>

-----------------------------------------------------------------------------
Batches == {<<fresh>>, <<fresh, fresh + 1>>, <<fresh, 0>>}

DbStep(t) ==
    \/ CannotPrepare(t) \/ MalformedLine(t) \/ InsertRow(t) \/ RowCallback(t) \/ Commit(t)
    \/ DropTable(t) \/ Vacuum(t) \/ CreateTable(t) \/ EndExecSql(t)
    \/ sql_reslist_callback(t) \/ EndSelect(t) \/ ListError(t) \/ ShowList(t) \/ mail_lastloc(t)
    \/ sqres_export_callback(t) \/ EndFill(t) \/ exportdb_to_external_format(t) \/ db_calc_distance(t)
    \/ free_internal_set(t) \/ Compress(t) \/ mail_as_attachment(t)
    \/ update_nick_callback(t) \/ EndNicks(t) \/ db_update_nick(t) \/ db_get_nick(t) \/ db_get_nick_list(t) \/ EndDelete(t)

DbStart(t) ==
    \/ \E b \in Batches : StartStore(t, b, Len(b) = 1)
    \/ StartEmpty(t) \/ ExecSql(t)
    \/ \E head \in BOOLEAN, n \in {1, 3} : db_loclist(t, "list", head, n)
    \/ db_loclist(t, "mailloc", TRUE, 1)
    \/ \E r \in Ranges, f \in {"csv", "xml", "unknown"} : export_to_internal_set(t, "export", r, f, "absolute")
    \/ \E f \in {"gpx", "kml", "json"} : export_to_internal_set(t, "export", "all", f, "relative")
    \/ export_to_internal_set(t, "dist", "all", "none", "none")
    \/ export_to_internal_set(t, "mail", "all", "gpx", "tmp")
    \/ \E nick, imei \in 1..2 : SelectNick(t, "update", "imei", nick, imei, imei)
    \/ SelectNick(t, "update", "imei", 2, 0, 1)
    \/ \E d \in 1..2 : SelectNick(t, "get", "devid", 0, d, 0)
    \/ SelectNick(t, "get", "all", 0, 0, 0)
    \/ \E n \in 1..2 : SelectNick(t, "get", "nick", n, 0, 0) \/ db_delete_nick(t, n)

DbNext ==
    \/ \E t \in DbThreads : DbStart(t) \/ DbStep(t)
    \/ \E o \in {"arrival", "device"} : db_set_sortorder(o)

DbSpec == DbInit /\ [][DbNext]_dbVars

-----------------------------------------------------------------------------
DbTypeOK ==
    /\ {loc[i] : i \in DOMAIN loc} \subseteq Nat /\ {table, met, corrupt} \subseteq BOOLEAN
    /\ reserved \in DbThreads \cup {Nobody} /\ reading \subseteq DbThreads
    /\ {num_cb, max_num_cb, nick_cb_cnt, resSetLength} \subseteq Nat
    /\ sort_order \in {"arrival", "device"}

\* A store that reports failure has left no row of its batch in the table, whatever the other
\* threads did meanwhile (db_store_locations returns without COMMIT and closes); a report in
\* the table that came from a tracker has had its callback, its mail and its script; and no
\* report is there twice.
StoreIsHonest ==
    /\ ToSet(loc) \cap failed = {}
    /\ ToSet(loc) \cap stored \subseteq told \cup bulk
    /\ Cardinality(ToSet(loc)) = Len(loc)

\* The inductive invariant behind StoreIsHonest.  A store owns its numbers: no other store and
\* no row has them until it commits, and what it has inserted are lines it has been through.
Storing(t) == dpc[t] \in {"refused", "row", "callback", "commit"}
Through(t) == IF dpc[t] = "callback" THEN row[t] ELSE row[t] - 1   \* lines that were tried

JobsAreSorted ==
    /\ dpc = [t \in DbThreads |-> dpc[t]] /\ job = [t \in DbThreads |-> job[t]]
    /\ row = [t \in DbThreads |-> row[t]] /\ pend \in [DbThreads -> Seq(Nat)]

BatchIsOwn(t) ==
    /\ job[t].lines \in Seq(0..(fresh - 1))
    /\ \A i, k \in DOMAIN job[t].lines : job[t].lines[i] = job[t].lines[k] /\ i # k => job[t].lines[i] = 0
    /\ Lines(t) \cap (ToSet(loc) \cup failed \cup stored) = {}
    /\ \A u \in DbThreads \ {t} : Storing(u) => Lines(t) \cap Lines(u) = {}

RowsAreTried(t) ==
    /\ row[t] \in Nat \ {0}
    /\ dpc[t] \in {"row", "callback"} => row[t] <= Len(job[t].lines)
    /\ dpc[t] = "callback" => job[t].lines[row[t]] # 0
    /\ dpc[t] = "commit" => row[t] = Len(job[t].lines) + 1
    /\ \A i \in DOMAIN pend[t] : \E k \in 1..Through(t) : k \in DOMAIN job[t].lines /\ pend[t][i] = job[t].lines[k]
    /\ \A i, k \in DOMAIN pend[t] : pend[t][i] = pend[t][k] => i = k
    /\ \A i \in DOMAIN pend[t] : pend[t][i] # 0
    /\ IF job[t].cb THEN \A k \in DOMAIN job[t].lines : k < row[t] => job[t].lines[k] \in told \cup {0}
                    ELSE Lines(t) \subseteq bulk

RowsAreNumbered ==
    /\ fresh \in Nat \ {0}
    /\ loc \in Seq(1..(fresh - 1)) /\ failed \cup stored \subseteq 1..(fresh - 1)
    /\ \A i, k \in DOMAIN loc : loc[i] = loc[k] => i = k
    /\ ToSet(loc) \cap failed = {} /\ stored \subseteq told \cup bulk

StoreInv ==
    /\ JobsAreSorted /\ RowsAreNumbered
    /\ \A t \in DbThreads : IF Storing(t) THEN BatchIsOwn(t) /\ RowsAreTried(t) ELSE pend[t] = <<>>

\* Reference for the lists: n rows, newest first, and no newer (older) row is left out.
Age(n) == IF sort_order = "arrival" THEN CHOOSE i \in DOMAIN loc : loc[i] = n ELSE n
ListIsRight(j, out) ==
    IF loc = <<>> THEN out = <<-1>>
    ELSE /\ Len(out) = j.n \/ (Len(out) < j.n /\ ToSet(out) = ToSet(loc))
         /\ \A i, k \in DOMAIN out : i < k => Age(out[i]) > Age(out[k])
         /\ \A n \in ToSet(loc) \ ToSet(out) : \A i \in DOMAIN out : (Age(n) < Age(out[i])) = j.head

\* Reference for the export: the rows of the range, in the order of arrival.
ExportIsRight(j, out) ==
    IF j.range = "wrong" \/ j.file = "relative" \/ j.format = "unknown" THEN out = <<-1>>
    ELSE /\ ToSet(out) = {n \in ToSet(loc) : j.range = "all" \/ n % 2 = 1}
         /\ \A i, k \in DOMAIN out : i < k => \E a, b \in DOMAIN loc : a < b /\ loc[a] = out[i] /\ loc[b] = out[k]

\* One operation at a time answers the truth and keeps the database whole: the table exists,
\* a report whose store succeeded is in it until the user empties it, a device has one entry,
\* lists and exports show the rows they are asked for, and memory is corrupted by nothing but
\* an export of more than ChunkSize rows.
AloneIsExact ==
    ~met => /\ (\A t \in DbThreads : dpc[t] = "idle") => table
            /\ stored \subseteq ToSet(loc) \cup emptied
            /\ \A i, k \in DOMAIN nicktab : nicktab[i].imei = nicktab[k].imei => i = k
            /\ corrupt => Cardinality(ToSet(loc) \cup emptied) > ChunkSize
            /\ answer.job.op = "list" => ListIsRight(answer.job, answer.out)
            /\ answer.job.op = "export" /\ ~corrupt => ExportIsRight(answer.job, answer.out)
            /\ answer.job.op = "mail" /\ ~corrupt => answer.out \in {loc, <<-1>>}

\* A store that ends with success has put its reports into the table.
ReportsAreStored == stored \subseteq ToSet(loc) \cup emptied
=============================================================================

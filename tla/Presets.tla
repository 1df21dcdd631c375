------------------------------- MODULE Presets -------------------------------
(***************************************************************************)
(* Presets (src/src/presets.c, process_files of src/src/futils.c): named   *)
(* lists of device commands, read from files into an array of the daemon.  *)
(* "preset refresh" and SIGHUP read the files again, in place and file by  *)
(* file, while a session may be in the middle of "preset use", to which it *)
(* holds a pointer into that array.                                        *)
(*                                                                         *)
(* A file is its name, its commands and whether it can be read; the order  *)
(* is the order of the directory.  Descriptions are left out.              *)
(***************************************************************************)
EXTENDS Integers, Sequences, SequencesExt

CONSTANTS MaxPresets,  \* MAX_PRESETS
          MaxEdits,    \* bound: changes of the directory
          MaxUses      \* bound: uses of a preset

ASSUME PresetAssumption == MaxPresets \in Nat \ {0} /\ {MaxEdits, MaxUses} \subseteq Nat

\* Commands: two that are known, one that is not (get_devcmd_from_srvcmd).
A == [name |-> "A", cmds |-> <<"a1", "a2">>, good |-> TRUE]
B == [name |-> "B", cmds |-> <<"b1">>, good |-> TRUE]
C == [name |-> "C", cmds |-> <<"c1", "typo", "c2">>, good |-> TRUE]
Broken == [name |-> "B", cmds |-> <<>>, good |-> FALSE]
NoPreset == [name |-> "", cmds |-> <<>>]

VARIABLES
    disk,        \* the files
    presets,     \* the array
    numPresets,
    edits, uses,
    rpos,        \* the file that refreshPresets reads next; 0 when there is no refresh
    upc,         \* the session that uses a preset
    ptr, pidx,   \* its pointer, its next command
    wanted,      \* the preset it asked for, as it was listed then
    ran,         \* the commands it sent
    prc,         \* what it answered
    cli_socket,  \* its socket, -1 while a command of the preset runs
    mixed        \* history: a refresh overlapped the use

preVars == <<disk, presets, numPresets, edits, uses, rpos, upc, ptr, pidx, wanted, ran, prc, cli_socket, mixed>>

PreInit ==
    /\ disk = <<A, B>>
    /\ presets = [i \in 1..MaxPresets |-> NoPreset] /\ numPresets = 0
    /\ edits = 0 /\ uses = 0 /\ rpos = 1
    /\ upc = "idle" /\ ptr = 0 /\ pidx = 0
    /\ wanted = NoPreset /\ ran = <<>> /\ prc = 0 /\ cli_socket = 4 /\ mixed = FALSE

-----------------------------------------------------------------------------
\* The administrator changes the directory.
EditFiles(files) ==
    /\ edits < MaxEdits /\ rpos = 0 /\ disk # files
    /\ edits' = edits + 1 /\ disk' = files
    /\ UNCHANGED <<presets, numPresets, uses, rpos, upc, ptr, pidx, wanted, ran, prc, cli_socket, mixed>>

\* refreshPresets begins: the list is empty until it ends.
refreshPresets ==
    /\ rpos = 0 /\ rpos' = 1
    /\ edits > 0
    /\ numPresets' = 0
    /\ mixed' = (mixed \/ upc # "idle")
    /\ UNCHANGED <<disk, presets, edits, uses, upc, ptr, pidx, wanted, ran, prc, cli_socket>>

\* callback_preset_file: a file that cannot be read leaves the place as it was.
callback_preset_file ==
    /\ rpos \in 1..Len(disk) /\ rpos <= MaxPresets
    /\ presets' = IF disk[rpos].good
                  THEN [presets EXCEPT ![rpos] = [name |-> disk[rpos].name, cmds |-> disk[rpos].cmds]]
                  ELSE presets
    /\ rpos' = rpos + 1
    /\ UNCHANGED <<disk, numPresets, edits, uses, upc, ptr, pidx, wanted, ran, prc, cli_socket, mixed>>

\* process_files ends: every file counts, and too many of them are an error.
EndRefresh ==
    /\ rpos > Len(disk) \/ rpos > MaxPresets
    /\ numPresets' = IF rpos > Len(disk) THEN Len(disk) ELSE 0
    /\ rpos' = 0
    /\ UNCHANGED <<disk, presets, edits, uses, upc, ptr, pidx, wanted, ran, prc, cli_socket, mixed>>

-----------------------------------------------------------------------------
Listed(name) == {i \in 1..numPresets : presets[i].name = name}

\* execPreset, getPreset: the first preset of that name.
execPreset(name) ==
    /\ upc = "idle" /\ uses < MaxUses
    /\ uses' = uses + 1
    /\ ran' = <<>> /\ pidx' = 1 /\ mixed' = (rpos # 0)
    /\ \/ /\ Listed(name) = {}
          /\ prc' = -1 /\ wanted' = NoPreset
          /\ UNCHANGED <<upc, ptr>>
       \/ /\ Listed(name) # {}
          /\ ptr' = CHOOSE i \in Listed(name) : \A k \in Listed(name) : i <= k
          /\ wanted' = presets[ptr']
          /\ upc' = "loop" /\ prc' = 0
    /\ UNCHANGED <<disk, presets, numPresets, edits, rpos, cli_socket>>

EndUse(rc) == upc' = "idle" /\ prc' = rc /\ UNCHANGED <<ptr, pidx>>

\* Mutant: an unknown command is skipped.
PresetCommandSkipped ==
    /\ upc = "loop" /\ pidx <= Len(presets[ptr].cmds)
    /\ \/ presets[ptr].cmds[pidx] = "typo" /\ pidx' = pidx + 1 /\ UNCHANGED <<ptr, prc, ran, upc, cli_socket>>
       \/ /\ presets[ptr].cmds[pidx] # "typo"
          /\ ran' = Append(ran, presets[ptr].cmds[pidx])
          /\ cli_socket' = -1 /\ upc' = "device"
          /\ UNCHANGED <<ptr, pidx, prc>>
    /\ UNCHANGED <<disk, presets, numPresets, edits, uses, rpos, wanted, mixed>>

\* execPresetFunc translates the command and sends it, without a socket to answer on.
execPresetFunc ==
    /\ upc = "loop" /\ pidx <= Len(presets[ptr].cmds)
    /\ \/ presets[ptr].cmds[pidx] = "typo" /\ EndUse(-1) /\ UNCHANGED <<ran, cli_socket>>
       \/ /\ presets[ptr].cmds[pidx] # "typo"
          /\ ran' = Append(ran, presets[ptr].cmds[pidx])
          /\ cli_socket' = -1 /\ upc' = "device"
          /\ UNCHANGED <<ptr, pidx, prc>>
    /\ UNCHANGED <<disk, presets, numPresets, edits, uses, rpos, wanted, mixed>>

\* The device answers or not; an error ends the preset.
DeviceDone ==
    /\ upc = "device"
    /\ cli_socket' = 4
    /\ \/ upc' = "loop" /\ pidx' = pidx + 1 /\ UNCHANGED <<ptr, prc>>
       \/ EndUse(-1)
    /\ UNCHANGED <<disk, presets, numPresets, edits, uses, rpos, wanted, ran, mixed>>

\* All commands were executed.
EndPreset ==
    /\ upc = "loop" /\ pidx > Len(presets[ptr].cmds)
    /\ EndUse(0)
    /\ UNCHANGED <<disk, presets, numPresets, edits, uses, rpos, wanted, ran, cli_socket, mixed>>

PreNext ==
    \/ \E files \in {<<B, A>>, <<Broken, A>>, <<A>>, <<A, B, C>>, <<A, B, C, B>>} : EditFiles(files)
    \/ refreshPresets \/ callback_preset_file \/ EndRefresh
    \/ \E n \in {"A", "B", "C"} : execPreset(n)
    \/ execPresetFunc \/ DeviceDone \/ EndPreset

PreSpec == PreInit /\ [][PreNext]_preVars

-----------------------------------------------------------------------------
PreTypeOK ==
    /\ numPresets \in 0..MaxPresets /\ rpos \in 0..(Len(disk) + 1)
    /\ upc \in {"idle", "loop", "device"} /\ cli_socket \in {-1, 4}
    /\ upc # "idle" => ptr \in 1..MaxPresets

\* A use that no refresh overlapped sends the commands of the preset that was asked for, in
\* order and up to the first that fails, all of them when it answers success; and when the use
\* is over the session has its socket again (execPreset, execPresetFunc).
PresetRunsItself ==
    /\ ~mixed => /\ \E k \in 0..Len(wanted.cmds) : ran = SubSeq(wanted.cmds, 1, k)
                 /\ upc = "idle" /\ prc = 0 => ran = wanted.cmds
    /\ upc # "device" => cli_socket = 4

\* The inductive invariant behind PresetRunsItself: as long as no refresh overlaps, the pointer
\* shows the preset that was asked for, and the commands before the next one were sent.
PresetNames == {"", "A", "B", "C"}
PresetCmds == {"a1", "a2", "b1", "c1", "c2", "typo"}
PresetRecord == [name : PresetNames, cmds : Seq(PresetCmds)]
FileRecord == [name : PresetNames, cmds : Seq(PresetCmds), good : BOOLEAN]

PresetsAreListed ==
    /\ disk \in Seq(FileRecord) /\ presets \in [1..MaxPresets -> PresetRecord]
    /\ numPresets \in 0..MaxPresets
    /\ rpos \in 0..(MaxPresets + 1) /\ rpos <= Len(disk) + 1

SentSoFar(k) == k <= Len(wanted.cmds) /\ ran = SubSeq(wanted.cmds, 1, k)

UseFollows ==
    /\ wanted \in PresetRecord
    /\ upc \in {"idle", "loop", "device"}
    /\ cli_socket = IF upc = "device" THEN -1 ELSE 4
    /\ upc # "idle" => ptr \in 1..MaxPresets /\ pidx \in Nat \ {0}
    /\ ~mixed => /\ upc # "idle" => rpos = 0 /\ presets[ptr] = wanted
                 /\ upc = "loop" => SentSoFar(pidx - 1)
                 /\ upc = "device" => SentSoFar(pidx)
                 /\ upc = "idle" => /\ \E k \in 0..Len(wanted.cmds) : SentSoFar(k)
                                    /\ prc = 0 => ran = wanted.cmds

PresetInv == PresetsAreListed /\ UseFollows
==============================================================================

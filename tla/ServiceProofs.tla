---------------------------- MODULE ServiceProofs ----------------------------
(***************************************************************************)
(* What the proofs show of six services of the daemon, for every length of *)
(* the behaviours: the presets, the packages of a tracker, mails, the log, *)
(* the report of the settings of a device, and the dialogue of a session   *)
(* with the shell.                                                         *)
(***************************************************************************)
EXTENDS Presets, Tracker, Mail, Logger, Report, Shell,
        FiniteSetTheorems, FunctionTheorems, SequenceTheorems, WellFoundedInduction, TLAPS

-----------------------------------------------------------------------------
(* Presets                                                                 *)

\* The files the administrator can put there.
LEMMA FilesAreFiles ==
    /\ {A, B, C, Broken} \subseteq FileRecord
    /\ NoPreset \in PresetRecord
<1>1. /\ <<"a1", "a2">> \in Seq(PresetCmds) /\ <<"b1">> \in Seq(PresetCmds)
      /\ <<"c1", "typo", "c2">> \in Seq(PresetCmds) /\ <<>> \in Seq(PresetCmds)
  BY DEF PresetCmds
<1> QED BY <1>1 DEF A, B, C, Broken, NoPreset, PresetRecord, FileRecord, PresetNames

\* One more command of a preset is sent.
LEMMA SendNext ==
    ASSUME NEW s \in Seq(PresetCmds), NEW k \in Nat, k + 1 <= Len(s)
    PROVE  Append(SubSeq(s, 1, k), s[k + 1]) = SubSeq(s, 1, k + 1)
<1>1. SubSeq(s, 1, k + 1) = SubSeq(s, 1, k) \o <<s[k + 1]>>
  BY SubSeqRecursiveSecond
<1>2. SubSeq(s, 1, k) \in Seq(PresetCmds)
  OBVIOUS
<1> QED BY <1>1, <1>2

\* A set of numbers that is not empty has a least one.
LEMMA LeastOfNats ==
    ASSUME NEW S \in SUBSET Nat, S # {}
    PROVE  \E i \in S : \A k \in S : i <= k
<1> DEFINE Less == {ss \in Nat \X Nat : ss[1] < ss[2]}
<1>1. IsWellFoundedOn(Less, Nat)
  BY NatLessThanWellFounded DEF OpToRel
<1>2. PICK i \in S : \A k \in S : ~(<<k, i>> \in Less)
  <2> HIDE DEF Less
  <2> QED BY <1>1, WFMin
<1>3. ASSUME NEW k \in S PROVE i <= k
  <2>1. <<k, i>> \in Nat \X Nat /\ <<k, i>>[1] = k /\ <<k, i>>[2] = i
    OBVIOUS
  <2>2. ~(k < i)
    BY <1>2, <2>1
  <2> QED BY <2>2
<1> QED BY <1>3

\* The list of presets stays a list of presets.
LEMMA ListKept ==
    ASSUME PresetInv, [PreNext]_preVars
    PROVE  PresetsAreListed'
<1> USE PresetAssumption
<1>1. CASE UNCHANGED <<disk, presets, numPresets, rpos>>
  BY <1>1 DEF PresetInv, PresetsAreListed
<1>2. ASSUME NEW fs \in {<<B, A>>, <<Broken, A>>, <<A>>, <<A, B, C>>, <<A, B, C, B>>}, EditFiles(fs)
      PROVE  PresetsAreListed'
  <2>1. A \in FileRecord /\ B \in FileRecord /\ C \in FileRecord /\ Broken \in FileRecord
    BY FilesAreFiles
  <2>2. fs \in Seq(FileRecord)
    <3>1. <<B, A>> \in Seq(FileRecord) /\ <<Broken, A>> \in Seq(FileRecord) /\ <<A>> \in Seq(FileRecord)
      BY <2>1
    <3>2. <<A, B, C>> \in Seq(FileRecord) /\ <<A, B, C, B>> \in Seq(FileRecord)
      BY <2>1
    <3> QED BY <3>1, <3>2
  <2>3. Len(fs) \in Nat /\ rpos = 0 /\ disk' = fs /\ UNCHANGED <<presets, numPresets, rpos>>
    BY <1>2, <2>2 DEF EditFiles
  <2> QED BY <2>2, <2>3 DEF PresetInv, PresetsAreListed
<1>3. ASSUME refreshPresets PROVE PresetsAreListed'
  BY <1>3 DEF refreshPresets, PresetInv, PresetsAreListed
<1>4. ASSUME callback_preset_file PROVE PresetsAreListed'
  <2>1. disk[rpos] \in FileRecord
    BY <1>4 DEF callback_preset_file, PresetInv, PresetsAreListed
  <2>2. presets' \in [1..MaxPresets -> PresetRecord]
    BY <1>4, <2>1 DEF callback_preset_file, PresetInv, PresetsAreListed, PresetRecord, FileRecord
  <2> QED BY <1>4, <2>2 DEF callback_preset_file, PresetInv, PresetsAreListed
<1>5. ASSUME EndRefresh PROVE PresetsAreListed'
  BY <1>5 DEF EndRefresh, PresetInv, PresetsAreListed
<1> QED BY <1>1, <1>2, <1>3, <1>4, <1>5
        DEF PreNext, preVars, execPreset, execPresetFunc, DeviceDone, EndPreset

\* A use that no refresh overlaps goes on with the preset it began with.
LEMMA UseKept ==
    ASSUME PresetInv, [PreNext]_preVars
    PROVE  UseFollows'
<1> USE PresetAssumption
<1>1. CASE UNCHANGED <<upc, ptr, pidx, wanted, ran, prc, cli_socket, mixed, rpos, presets>>
  BY <1>1 DEF PresetInv, UseFollows, SentSoFar
<1>2. ASSUME refreshPresets PROVE UseFollows'
  BY <1>2 DEF refreshPresets, PresetInv, UseFollows, SentSoFar
<1>3. ASSUME callback_preset_file \/ EndRefresh PROVE UseFollows'
  <2>1. rpos # 0 /\ UNCHANGED <<upc, ptr, pidx, wanted, ran, prc, cli_socket, mixed>>
    BY <1>3 DEF callback_preset_file, EndRefresh, PresetInv, PresetsAreListed
  <2>2. ~mixed => upc = "idle"
    BY <2>1 DEF PresetInv, UseFollows
  <2> QED BY <2>1, <2>2 DEF PresetInv, UseFollows, SentSoFar
<1>4. ASSUME NEW n, execPreset(n) PROVE UseFollows'
  <2>1. CASE Listed(n) = {}
    <3>1. /\ upc' = "idle" /\ wanted' = NoPreset /\ ran' = <<>> /\ prc' = -1
          /\ cli_socket' = 4
      BY <1>4, <2>1 DEF execPreset, PresetInv, UseFollows
    <3>2. wanted' \in PresetRecord /\ Len(wanted'.cmds) = 0
      BY <3>1, FilesAreFiles DEF NoPreset
    <3>3. SubSeq(wanted'.cmds, 1, 0) = <<>>
      OBVIOUS
    <3> QED BY <3>1, <3>2, <3>3 DEF UseFollows, SentSoFar
  <2>2. CASE Listed(n) # {}
    <3>1. /\ ptr' \in Listed(n) /\ wanted' = presets[ptr'] /\ upc' = "loop"
          /\ ran' = <<>> /\ pidx' = 1 /\ mixed' = (rpos # 0) /\ cli_socket' = 4
          /\ UNCHANGED <<presets, rpos>>
      <4>1. \E i \in Listed(n) : \A k \in Listed(n) : i <= k
        <5>1. Listed(n) \subseteq Nat
          BY DEF Listed, PresetInv, PresetsAreListed
        <5> QED BY <5>1, <2>2, LeastOfNats
      <4> QED BY <1>4, <2>2, <4>1 DEF execPreset, PresetInv, UseFollows
    <3>2. ptr' \in 1..MaxPresets
      BY <3>1 DEF Listed, PresetInv, PresetsAreListed
    <3>3. wanted' \in PresetRecord
      BY <3>1, <3>2 DEF PresetInv, PresetsAreListed
    <3>4. SubSeq(wanted'.cmds, 1, 0) = <<>> /\ 0 <= Len(wanted'.cmds)
      BY <3>3 DEF PresetRecord
    <3>5. SentSoFar(pidx - 1)'
      <4>1. pidx' - 1 = 0 /\ ran' = <<>>
        BY <3>1
      <4> QED BY <3>4, <4>1 DEF SentSoFar
    <3>6. ~mixed' => rpos' = 0 /\ presets'[ptr'] = wanted'
      BY <3>1
    <3> QED BY <3>1, <3>2, <3>3, <3>5, <3>6 DEF UseFollows
  <2> QED BY <2>1, <2>2
<1>5. ASSUME execPresetFunc PROVE UseFollows'
  <2> DEFINE s == presets[ptr].cmds
  <2>1. /\ upc = "loop" /\ pidx \in Nat \ {0} /\ pidx <= Len(s) /\ s \in Seq(PresetCmds)
        /\ UNCHANGED <<presets, rpos, wanted, mixed>>
    BY <1>5 DEF execPresetFunc, PresetInv, PresetsAreListed, UseFollows, PresetRecord
  <2>2. CASE s[pidx] = "typo"
    BY <1>5, <2>1, <2>2 DEF execPresetFunc, EndUse, PresetInv, UseFollows, SentSoFar
  <2>3. CASE s[pidx] # "typo"
    <3>1. /\ ran' = Append(ran, s[pidx]) /\ cli_socket' = -1 /\ upc' = "device"
          /\ UNCHANGED <<ptr, pidx, prc>>
      BY <1>5, <2>3 DEF execPresetFunc
    <3>2. ~mixed => SentSoFar(pidx)'
      <4> SUFFICES ASSUME ~mixed PROVE SentSoFar(pidx)'
        OBVIOUS
      <4>1. wanted.cmds = s /\ ran = SubSeq(s, 1, pidx - 1)
        BY <2>1 DEF PresetInv, UseFollows, SentSoFar
      <4>2. Append(SubSeq(s, 1, pidx - 1), s[(pidx - 1) + 1]) = SubSeq(s, 1, (pidx - 1) + 1)
        BY <2>1, SendNext
      <4>3. ran' = SubSeq(s, 1, pidx)
        BY <2>1, <3>1, <4>1, <4>2
      <4> QED BY <2>1, <3>1, <4>1, <4>3 DEF SentSoFar
    <3> QED BY <2>1, <3>1, <3>2 DEF PresetInv, UseFollows
  <2> QED BY <2>2, <2>3
<1>6. ASSUME DeviceDone PROVE UseFollows'
  BY <1>6 DEF DeviceDone, EndUse, PresetInv, UseFollows, SentSoFar, PresetRecord
<1>7. ASSUME EndPreset PROVE UseFollows'
  <2>1. /\ upc = "loop" /\ pidx \in Nat \ {0} /\ pidx > Len(presets[ptr].cmds)
        /\ presets[ptr] \in PresetRecord
        /\ UNCHANGED <<presets, rpos, wanted, mixed, ran, cli_socket>> /\ upc' = "idle"
    BY <1>7 DEF EndPreset, EndUse, PresetInv, PresetsAreListed, UseFollows
  <2>2. ~mixed => ran = wanted.cmds /\ SentSoFar(Len(wanted.cmds)) /\ Len(wanted.cmds) \in Nat
    <3> SUFFICES ASSUME ~mixed PROVE ran = wanted.cmds /\ SentSoFar(Len(wanted.cmds)) /\ Len(wanted.cmds) \in Nat
      OBVIOUS
    <3>1. /\ wanted.cmds \in Seq(PresetCmds) /\ pidx - 1 = Len(wanted.cmds)
          /\ ran = SubSeq(wanted.cmds, 1, pidx - 1)
      BY <2>1 DEF PresetInv, UseFollows, SentSoFar, PresetRecord
    <3>2. SubSeq(wanted.cmds, 1, Len(wanted.cmds)) = wanted.cmds
      BY <3>1, SubSeqFull
    <3> QED BY <3>1, <3>2 DEF SentSoFar
  <2>3. ~mixed' => \E k \in 0..Len(wanted'.cmds) : SentSoFar(k)'
    BY <2>1, <2>2 DEF SentSoFar
  <2> QED BY <2>1, <2>2, <2>3 DEF PresetInv, UseFollows
<1> QED BY <1>1, <1>2, <1>3, <1>4, <1>5, <1>6, <1>7 DEF PreNext, preVars, EditFiles

\* No use has begun.
LEMMA PresetInitial ==
    ASSUME PreInit
    PROVE  PresetInv
<1>1. A \in FileRecord /\ B \in FileRecord /\ NoPreset \in PresetRecord
  BY FilesAreFiles
<1>2. disk \in Seq(FileRecord) /\ Len(disk) = 2
  BY <1>1 DEF PreInit
<1>3. PresetsAreListed
  BY <1>1, <1>2, PresetAssumption DEF PreInit, PresetsAreListed
<1>4. wanted.cmds = <<>> /\ ran = <<>> /\ Len(wanted.cmds) = 0
  BY DEF PreInit, NoPreset
<1>5. SubSeq(wanted.cmds, 1, 0) = <<>>
  BY SubSeqEmpty
<1> QED BY <1>1, <1>3, <1>4, <1>5 DEF PreInit, PresetInv, UseFollows, SentSoFar

\* Every variable of the presets keeps its type: a pointer shows a place of the table, and the
\* socket of a session is its own or none (presets.c).
THEOREM PresetTypes == PreSpec => []PreTypeOK
<1>1. PreInit => PresetInv
  BY PresetInitial
<1>2. PresetInv /\ [PreNext]_preVars => PresetInv'
  BY ListKept, UseKept DEF PresetInv
<1>3. PresetInv => PreTypeOK
  <2> SUFFICES ASSUME PresetInv PROVE PreTypeOK
    OBVIOUS
  <2>1. Len(disk) \in Nat
    BY DEF PresetInv, PresetsAreListed
  <2> QED BY <2>1, PresetAssumption DEF PresetInv, PresetsAreListed, UseFollows, PreTypeOK
<1> QED BY <1>1, <1>2, <1>3, PTL DEF PreSpec

\* A use of a preset that no refresh overlapped sends the commands of the preset that was asked
\* for, in order and up to the first that fails, and gives the session its socket back, for any
\* number of presets, edits and uses (execPreset, execPresetFunc, refreshPresets).
THEOREM PresetsRunThemselves == PreSpec => []PresetRunsItself
<1>1. PreInit => PresetInv
  BY PresetInitial
<1>2. PresetInv /\ [PreNext]_preVars => PresetInv'
  BY ListKept, UseKept DEF PresetInv
<1>3. PresetInv => PresetRunsItself
  <2> SUFFICES ASSUME PresetInv PROVE PresetRunsItself
    OBVIOUS
  <2>1. Len(wanted.cmds) \in Nat
    BY DEF PresetInv, UseFollows, PresetRecord
  <2> QED BY <2>1 DEF PresetInv, UseFollows, SentSoFar, PresetRunsItself
<1> QED BY <1>1, <1>2, <1>3, PTL DEF PreSpec

-----------------------------------------------------------------------------
(* Packages of a tracker: the sequences of tokens                          *)

\* A sequence is cut in two.
LEMMA CutInTwo ==
    ASSUME NEW S, NEW s \in Seq(S), NEW k \in 0..Len(s)
    PROVE  LET a == SubSeq(s, 1, k)
               b == SubSeq(s, k + 1, Len(s))
           IN  /\ a \in Seq(S) /\ DOMAIN a = 1..k /\ Len(a) = k /\ \A i \in 1..k : a[i] = s[i]
               /\ b \in Seq(S) /\ DOMAIN b = 1..(Len(s) - k) /\ Len(b) = Len(s) - k
               /\ \A i \in 1..(Len(s) - k) : b[i] = s[i + k]
               /\ ToSet(s) = ToSet(a) \cup ToSet(b)
<1> DEFINE a == SubSeq(s, 1, k)
           b == SubSeq(s, k + 1, Len(s))
<1>1. Len(s) \in Nat /\ DOMAIN s = 1..Len(s) /\ \A i \in 1..Len(s) : s[i] \in S
  BY LenProperties
<1>2. a \in Seq(S) /\ DOMAIN a = 1..k /\ Len(a) = k /\ \A i \in 1..k : a[i] = s[i]
  BY <1>1, SubSeqProperties
<1>3. /\ b \in Seq(S) /\ DOMAIN b = 1..(Len(s) - k) /\ Len(b) = Len(s) - k
      /\ \A i \in 1..(Len(s) - k) : b[i] = s[i + k]
  <2>1. \A i \in (k + 1)..Len(s) : s[i] \in S
    BY <1>1
  <2>2. /\ b \in Seq(S) /\ Len(b) = IF k + 1 <= Len(s) THEN Len(s) - (k + 1) + 1 ELSE 0
        /\ \A i \in 1..(Len(s) - (k + 1) + 1) : b[i] = s[(k + 1) + i - 1]
    BY <1>1, <2>1, SubSeqProperties
  <2> HIDE DEF b
  <2>3. Len(b) = Len(s) - k /\ Len(s) - (k + 1) + 1 = Len(s) - k
    <3>1. Len(b) = IF k + 1 <= Len(s) THEN Len(s) - (k + 1) + 1 ELSE 0
      BY <2>2
    <3>2. \A n \in Nat : \A j \in 0..n : /\ n - (j + 1) + 1 = n - j
                                         /\ ~(j + 1 <= n) => n - j = 0
      OBVIOUS
    <3>3. /\ Len(s) - (k + 1) + 1 = Len(s) - k
          /\ ~(k + 1 <= Len(s)) => Len(s) - k = 0
      BY <1>1, <3>2
    <3> QED BY <3>1, <3>3
  <2>4. \A i \in 1..(Len(s) - k) : (k + 1) + i - 1 = i + k
    BY <1>1
  <2> QED BY <1>1, <2>2, <2>3, <2>4, LenProperties
<1> HIDE DEF a, b
<1>4. ToSet(s) = ToSet(a) \cup ToSet(b)
  <2>1. \A i \in 1..k : i \in DOMAIN s
    BY <1>1
  <2>2. \A i \in 1..(Len(s) - k) : i + k \in DOMAIN s
    BY <1>1
  <2>3. \A i \in DOMAIN s : i \in 1..k \/ (i - k \in 1..(Len(s) - k) /\ (i - k) + k = i)
    BY <1>1
  <2>4. ToSet(a) \cup ToSet(b) \subseteq ToSet(s)
    <3>1. ToSet(a) \subseteq ToSet(s)
      BY <1>2, <2>1 DEF ToSet
    <3>2. ToSet(b) \subseteq ToSet(s)
      BY <1>3, <2>2 DEF ToSet
    <3> QED BY <3>1, <3>2
  <2>5. ToSet(s) \subseteq ToSet(a) \cup ToSet(b)
    <3> SUFFICES ASSUME NEW i \in DOMAIN s PROVE s[i] \in ToSet(a) \cup ToSet(b)
      BY DEF ToSet
    <3>1. CASE i \in 1..k
      BY <1>2, <3>1 DEF ToSet
    <3>2. CASE i - k \in 1..(Len(s) - k) /\ (i - k) + k = i
      <4>1. b[i - k] = s[i]
        BY <1>3, <3>2
      <4> QED BY <1>3, <3>2, <4>1 DEF ToSet
    <3> QED BY <2>3, <3>1, <3>2
  <2> QED BY <2>4, <2>5
<1> QED BY <1>2, <1>3, <1>4 DEF a, b

\* Texts that rise still do in both parts of a sequence that is cut.
LEMMA CutRises ==
    ASSUME NEW S, NEW s \in Seq(S), NEW k \in 0..Len(s), Rising(s)
    PROVE  LET a == SubSeq(s, 1, k)
               b == SubSeq(s, k + 1, Len(s))
           IN  /\ Rising(a) /\ Rising(b)
               /\ \A x \in ToSet(a), y \in ToSet(b) : x.part = "text" /\ y.part = "text" => x.msg < y.msg
<1> DEFINE a == SubSeq(s, 1, k)
           b == SubSeq(s, k + 1, Len(s))
<1>1. /\ Len(s) \in Nat /\ DOMAIN s = 1..Len(s)
      /\ DOMAIN a = 1..k /\ \A i \in 1..k : a[i] = s[i]
      /\ DOMAIN b = 1..(Len(s) - k) /\ \A i \in 1..(Len(s) - k) : b[i] = s[i + k]
  BY CutInTwo, LenProperties
<1> HIDE DEF a, b
<1>2. Rising(a)
  BY <1>1 DEF Rising
<1>3. Rising(b)
  <2> SUFFICES ASSUME NEW i \in DOMAIN b, NEW j \in DOMAIN b, i < j, b[i].part = "text", b[j].part = "text"
               PROVE  b[i].msg < b[j].msg
    BY DEF Rising
  <2>1. i + k \in DOMAIN s /\ j + k \in DOMAIN s /\ i + k < j + k /\ b[i] = s[i + k] /\ b[j] = s[j + k]
    BY <1>1
  <2> QED BY <2>1 DEF Rising
<1>4. ASSUME NEW x \in ToSet(a), NEW y \in ToSet(b), x.part = "text", y.part = "text"
      PROVE  x.msg < y.msg
  <2>1. PICK i \in 1..k : x = s[i]
    BY <1>1 DEF ToSet
  <2>2. PICK j \in 1..(Len(s) - k) : y = s[j + k]
    BY <1>1 DEF ToSet
  <2>3. i \in DOMAIN s /\ j + k \in DOMAIN s /\ i < j + k
    BY <1>1
  <2> QED BY <1>4, <2>1, <2>2, <2>3 DEF Rising
<1> QED BY <1>2, <1>3, <1>4 DEF a, b

-----------------------------------------------------------------------------
(* Packages of a tracker: reports in order                                 *)

\* The set of a sequence with one element more.
LEMMA AppendedSet ==
    ASSUME NEW S, NEW s \in Seq(S), NEW e \in S
    PROVE  /\ Append(s, e) \in Seq(S) /\ ToSet(Append(s, e)) = ToSet(s) \cup {e}
           /\ Len(s) \in Nat /\ Len(Append(s, e)) = Len(s) + 1
           /\ DOMAIN Append(s, e) = 1..(Len(s) + 1) /\ DOMAIN s = 1..Len(s)
           /\ \A i \in 1..Len(s) : Append(s, e)[i] = s[i]
           /\ Append(s, e)[Len(s) + 1] = e
<1> DEFINE r == Append(s, e)
<1>1. /\ r \in Seq(S) /\ Len(s) \in Nat /\ Len(r) = Len(s) + 1
      /\ DOMAIN r = 1..(Len(s) + 1) /\ DOMAIN s = 1..Len(s)
      /\ \A i \in 1..Len(s) : r[i] = s[i]
      /\ r[Len(s) + 1] = e
  OBVIOUS
<1> HIDE DEF r
<1>2. \A i \in DOMAIN r : i \in DOMAIN s \/ i = Len(s) + 1
  BY <1>1
<1>3. Len(s) + 1 \in DOMAIN r /\ \A i \in DOMAIN s : i \in DOMAIN r
  BY <1>1
<1>4. ToSet(r) = ToSet(s) \cup {e}
  BY <1>1, <1>2, <1>3 DEF ToSet
<1> QED BY <1>1, <1>4 DEF r

\* Tokens are taken from the front of what was read, and a report may be handled.
LEMMA StreamShorter ==
    ASSUME StreamInv, HandlingInv, UNCHANGED <<delivered, net>>,
           NEW j \in 0..Len(buf), buf' = SubSeq(buf, j + 1, Len(buf)),
           \/ handled' = handled
           \/ /\ j >= 1 /\ buf[1].part = "text"
              /\ handled' = Append(handled, buf[1].msg)
    PROVE  StreamInv'
<1>1. /\ buf \in Seq(Token) /\ Rising(buf) /\ Len(buf) \in Nat
  BY LenProperties DEF StreamInv
<1>2. /\ buf' \in Seq(Token) /\ Rising(buf') /\ ToSet(buf') \subseteq ToSet(buf)
  BY <1>1, CutInTwo, CutRises
<1>3. /\ delivered' \in Seq(Kinds) /\ Token' = Token /\ net' \in Seq(Token) /\ Rising(net')
      /\ \A x \in ToSet(buf'), y \in ToSet(net') : x.part = "text" /\ y.part = "text" => x.msg < y.msg
  BY <1>2 DEF StreamInv, Token
<1>4. \A n \in ToSet(handled'), x \in ToSet(buf') \cup ToSet(net') : x.part = "text" => n < x.msg
  <2>1. \A n \in ToSet(handled), x \in ToSet(buf') \cup ToSet(net') : x.part = "text" => n < x.msg
    BY <1>2 DEF StreamInv
  <2>2. CASE handled' = handled
    BY <2>1, <2>2
  <2>3. CASE j >= 1 /\ buf[1].part = "text" /\ handled' = Append(handled, buf[1].msg)
    <3>1. buf[1] \in Token /\ 1 \in DOMAIN buf /\ buf[1] \in ToSet(buf)
      BY <1>1, <2>3, LenProperties DEF ToSet
    <3>2. ToSet(handled') = ToSet(handled) \cup {buf[1].msg}
      <4>1. buf[1].msg \in 1..Len(delivered) /\ handled \in Seq(1..Len(delivered))
        BY <3>1 DEF Token, HandlingInv
      <4> DEFINE S == 1..Len(delivered)
      <4> HIDE DEF S
      <4>2. buf[1].msg \in S /\ handled \in Seq(S)
        BY <4>1 DEF S
      <4> QED BY <2>3, <4>2, AppendedSet
    <3>3. ASSUME NEW x \in ToSet(buf'), x.part = "text" PROVE buf[1].msg < x.msg
      <4> DEFINE a == SubSeq(buf, 1, j)
      <4>1. a[1] = buf[1] /\ DOMAIN a = 1..j
        BY <1>1, <2>3, CutInTwo
      <4> HIDE DEF a
      <4>2. buf[1] \in ToSet(a)
        <5>1. 1 \in DOMAIN a
          BY <1>1, <2>3, <4>1
        <5> QED BY <4>1, <5>1 DEF ToSet
      <4> QED BY <1>1, <2>3, <3>3, <4>2, CutRises DEF a
    <3>4. ASSUME NEW x \in ToSet(net'), x.part = "text" PROVE buf[1].msg < x.msg
      BY <2>3, <3>1, <3>4 DEF StreamInv
    <3> QED BY <2>1, <3>2, <3>3, <3>4
  <2> QED BY <2>2, <2>3
<1> QED BY <1>2, <1>3, <1>4 DEF StreamInv

\* A read takes tokens off the stream.
LEMMA StreamRead ==
    ASSUME StreamInv, HandlingInv, NEW k \in 1..Len(net), socket_read(k)
    PROVE  StreamInv'
<1>1. /\ net \in Seq(Token) /\ Rising(net) /\ Len(net) \in Nat /\ k \in 0..Len(net)
  BY LenProperties DEF StreamInv
<1>2. /\ buf' = SubSeq(net, 1, k) /\ net' = SubSeq(net, k + 1, Len(net))
      /\ delivered' = delivered /\ handled' = handled /\ Token' = Token
  BY DEF socket_read, Token
<1>3. /\ buf' \in Seq(Token) /\ net' \in Seq(Token) /\ ToSet(net) = ToSet(buf') \cup ToSet(net')
  BY <1>1, <1>2, CutInTwo
<1>4. /\ Rising(buf') /\ Rising(net')
      /\ \A x \in ToSet(buf'), y \in ToSet(net') : x.part = "text" /\ y.part = "text" => x.msg < y.msg
  BY <1>1, <1>2, CutRises
<1> QED BY <1>2, <1>3, <1>4 DEF StreamInv

\* The tokens of a new message, and what is known of the messages before it.
LEMMA NewTokens ==
    ASSUME StreamInv, NEW k \in Kinds, DeviceSends(k)
    PROVE  LET n == Len(delivered) + 1
               m == Tokens(n, k)
           IN  /\ Len(delivered) \in Nat /\ delivered' = Append(delivered, k) /\ Len(delivered') = n
               /\ delivered' \in Seq(Kinds) /\ delivered'[n] = k
               /\ \A i \in 1..Len(delivered) : delivered'[i] = delivered[i]
               /\ net' = net \o m
               /\ Seq(Token) \subseteq Seq(Token') /\ m \in Seq(Token')
               /\ \A x \in ToSet(m) : x.msg = n
               /\ Rising(m)
<1> DEFINE n == Len(delivered) + 1
           m == Tokens(n, k)
<1>1. /\ Len(delivered) \in Nat /\ delivered' = Append(delivered, k) /\ Len(delivered') = n
      /\ delivered' \in Seq(Kinds) /\ delivered'[n] = k
      /\ \A i \in 1..Len(delivered) : delivered'[i] = delivered[i]
  BY AppendedSet DEF StreamInv, DeviceSends
<1>2. net' = net \o m
  BY DEF DeviceSends
<1>3. Token \subseteq Token'
  BY <1>1 DEF Token
<1>4. Seq(Token) \subseteq Seq(Token')
  BY <1>3, SeqMonotonic
<1>5. [msg |-> n, part |-> "text"] \in Token' /\ [msg |-> n, part |-> "end"] \in Token'
      /\ [msg |-> n, part |-> "whole"] \in Token'
  BY <1>1 DEF Token
<1> HIDE DEF n
<1>6. CASE k = "keepalive"
  <2>1. m = <<[msg |-> n, part |-> "whole"]>>
    BY <1>6 DEF Tokens
  <2>2. m \in Seq(Token') /\ DOMAIN m = {1} /\ m[1] = [msg |-> n, part |-> "whole"]
    BY <1>5, <2>1
  <2>3. (\A x \in ToSet(m) : x.msg = n) /\ Rising(m)
    BY <2>2 DEF ToSet, Rising
  <2> QED BY <1>1, <1>2, <1>4, <2>2, <2>3 DEF n
<1>7. CASE k # "keepalive"
  <2>1. m = <<[msg |-> n, part |-> "text"], [msg |-> n, part |-> "end"]>>
    BY <1>7 DEF Tokens
  <2>2. /\ m \in Seq(Token') /\ DOMAIN m = {1, 2} /\ m[1] = [msg |-> n, part |-> "text"]
        /\ m[2] = [msg |-> n, part |-> "end"]
    BY <1>5, <2>1
  <2>3. (\A x \in ToSet(m) : x.msg = n) /\ Rising(m)
    BY <2>2 DEF ToSet, Rising
  <2> QED BY <1>1, <1>2, <1>4, <2>2, <2>3 DEF n
<1> QED BY <1>6, <1>7

\* Two sequences in a row.
LEMMA RowOfTwo ==
    ASSUME NEW S, NEW s \in Seq(S), NEW m \in Seq(S)
    PROVE  /\ s \o m \in Seq(S) /\ ToSet(s \o m) = ToSet(s) \cup ToSet(m)
           /\ Len(s) \in Nat /\ Len(m) \in Nat /\ DOMAIN s = 1..Len(s) /\ DOMAIN m = 1..Len(m)
           /\ DOMAIN (s \o m) = 1..(Len(s) + Len(m))
           /\ \A i \in DOMAIN (s \o m) : \/ i \in DOMAIN s /\ (s \o m)[i] = s[i]
                                         \/ i - Len(s) \in DOMAIN m /\ (s \o m)[i] = m[i - Len(s)]
           /\ \A i \in DOMAIN s : i \in DOMAIN (s \o m) /\ (s \o m)[i] = s[i]
           /\ \A i \in DOMAIN m : i + Len(s) \in DOMAIN (s \o m) /\ (s \o m)[i + Len(s)] = m[i]
<1> DEFINE c == s \o m
<1>1. /\ Len(s) \in Nat /\ Len(m) \in Nat /\ DOMAIN s = 1..Len(s) /\ DOMAIN m = 1..Len(m)
      /\ c \in Seq(S) /\ DOMAIN c = 1..(Len(s) + Len(m))
      /\ \A i \in 1..(Len(s) + Len(m)) : c[i] = IF i <= Len(s) THEN s[i] ELSE m[i - Len(s)]
  BY ConcatProperties, LenProperties
<1> HIDE DEF c
<1>2. \A i \in DOMAIN c : \/ i \in DOMAIN s /\ c[i] = s[i]
                          \/ i - Len(s) \in DOMAIN m /\ c[i] = m[i - Len(s)]
  BY <1>1
<1>3. \A i \in DOMAIN s : i \in DOMAIN c /\ c[i] = s[i]
  BY <1>1
<1>4. \A i \in DOMAIN m : i + Len(s) \in DOMAIN c /\ c[i + Len(s)] = m[i]
  BY <1>1
<1>5. ToSet(c) \subseteq ToSet(s) \cup ToSet(m)
  BY <1>2 DEF ToSet
<1>6. ToSet(s) \subseteq ToSet(c)
  BY <1>3 DEF ToSet
<1>7. ToSet(m) \subseteq ToSet(c)
  BY <1>4 DEF ToSet
<1> QED BY <1>1, <1>2, <1>3, <1>4, <1>5, <1>6, <1>7 DEF c

\* The elements of a sequence are in its set.
LEMMA InSet ==
    ASSUME NEW s
    PROVE  /\ \A i \in DOMAIN s : s[i] \in ToSet(s)
           /\ \A x \in ToSet(s) : \E i \in DOMAIN s : x = s[i]
BY DEF ToSet

\* A new message is younger than everything on its way.
LEMMA StreamSent ==
    ASSUME StreamInv, HandlingInv, NEW k \in Kinds, DeviceSends(k)
    PROVE  StreamInv'
<1> DEFINE n == Len(delivered) + 1
           m == Tokens(n, k)
<1>1. /\ Len(delivered) \in Nat /\ delivered' \in Seq(Kinds)
      /\ net' = net \o m /\ buf' = buf /\ handled' = handled
      /\ Seq(Token) \subseteq Seq(Token') /\ m \in Seq(Token')
      /\ \A x \in ToSet(m) : x.msg = n
      /\ Rising(m)
  BY NewTokens DEF DeviceSends
<1>2. \A x \in ToSet(net) \cup ToSet(buf) : x.msg \in 1..Len(delivered)
  <2>1. \A x \in ToSet(net) \cup ToSet(buf) : x \in Token
    BY LenProperties DEF StreamInv, ToSet
  <2> QED BY <2>1 DEF Token
<1>3. \A h \in ToSet(handled) : h \in 1..Len(delivered)
  BY LenProperties DEF HandlingInv, ToSet
<1>4. net \in Seq(Token') /\ buf' \in Seq(Token')
  BY <1>1 DEF StreamInv
<1> HIDE DEF m
<1>5. net' \in Seq(Token') /\ ToSet(net') = ToSet(net) \cup ToSet(m)
  BY <1>1, <1>4, RowOfTwo
<1>6. Rising(net')
  <2> SUFFICES ASSUME NEW i \in DOMAIN net', NEW j \in DOMAIN net', i < j,
                      net'[i].part = "text", net'[j].part = "text"
               PROVE  net'[i].msg < net'[j].msg
    BY DEF Rising
  <2>1. /\ \A u \in DOMAIN net' : \/ u \in DOMAIN net /\ net'[u] = net[u]
                                  \/ u - Len(net) \in DOMAIN m /\ net'[u] = m[u - Len(net)]
        /\ Len(net) \in Nat /\ Len(m) \in Nat /\ DOMAIN net = 1..Len(net) /\ DOMAIN m = 1..Len(m)
        /\ DOMAIN net' = 1..(Len(net) + Len(m))
    BY <1>1, <1>4, RowOfTwo
  <2>2. CASE i \in DOMAIN net /\ net'[i] = net[i] /\ j \in DOMAIN net /\ net'[j] = net[j]
    BY <2>2 DEF StreamInv, Rising
  <2>3. CASE i \in DOMAIN net /\ net'[i] = net[i] /\ j - Len(net) \in DOMAIN m /\ net'[j] = m[j - Len(net)]
    <3>1. net[i].msg \in 1..Len(delivered) /\ m[j - Len(net)].msg = n
      BY <1>1, <1>2, <2>3, InSet
    <3> QED BY <1>1, <2>3, <3>1
  <2>4. CASE i - Len(net) \in DOMAIN m /\ net'[i] = m[i - Len(net)]
             /\ j - Len(net) \in DOMAIN m /\ net'[j] = m[j - Len(net)]
    <3>1. i - Len(net) < j - Len(net)
      BY <2>1
    <3> QED BY <1>1, <2>4, <3>1 DEF Rising
  <2>5. CASE i - Len(net) \in DOMAIN m /\ j \in DOMAIN net
    BY <2>1, <2>5
  <2> QED BY <2>1, <2>2, <2>3, <2>4, <2>5
<1>7. ASSUME NEW x \in ToSet(buf'), NEW y \in ToSet(net'), x.part = "text", y.part = "text"
      PROVE  x.msg < y.msg
  <2>1. CASE y \in ToSet(net)
    BY <1>1, <1>7, <2>1 DEF StreamInv
  <2>2. CASE y \in ToSet(m)
    BY <1>1, <1>2, <2>2
  <2> QED BY <1>5, <2>1, <2>2
<1>8. ASSUME NEW h \in ToSet(handled'), NEW y \in ToSet(buf') \cup ToSet(net'), y.part = "text"
      PROVE  h < y.msg
  <2>1. CASE y \in ToSet(buf) \cup ToSet(net)
    BY <1>1, <1>8, <2>1 DEF StreamInv
  <2>2. CASE y \in ToSet(m)
    BY <1>1, <1>3, <2>2
  <2> QED BY <1>1, <1>5, <2>1, <2>2
<1> QED BY <1>1, <1>4, <1>5, <1>6, <1>7, <1>8 DEF StreamInv

\* Steps that neither handle a report nor notify of a connection.
LEMMA HandlingFrame ==
    ASSUME HandlingInv,
           UNCHANGED <<conf, delivered, cur, handled, trkMailed, scripts, tracks, noticed, known>>,
           tpc' = tpc \/ (tpc \in {"read", "alive", "line"} /\ tpc' \in {"read", "alive", "line"})
    PROVE  HandlingInv'
<1>1. Notices' = Notices
  BY DEF Notices
<1> QED BY <1>1 DEF HandlingInv, ToSet

\* A new message.
LEMMA HandlingSent ==
    ASSUME StreamInv, HandlingInv, NEW k \in Kinds, DeviceSends(k)
    PROVE  HandlingInv'
<1>1. /\ Len(delivered) \in Nat /\ Len(delivered') = Len(delivered) + 1
      /\ \A i \in 1..Len(delivered) : delivered'[i] = delivered[i]
      /\ UNCHANGED <<conf, tpc, cur, known, handled, trkMailed, scripts, tracks, noticed>>
  BY NewTokens DEF DeviceSends
<1>2. \A h \in ToSet(handled) : h \in 1..Len(delivered)
  BY LenProperties DEF HandlingInv, ToSet
<1>3. handled' \in Seq(1..Len(delivered'))
  <2>1. 1..Len(delivered) \subseteq 1..Len(delivered')
    BY <1>1
  <2> QED BY <1>1, <2>1, SeqMonotonic DEF HandlingInv
<1>4. \A h \in ToSet(handled) : delivered'[h] = delivered[h]
  BY <1>1, <1>2
<1>5. Notices' = Notices /\ ToSet(handled') = ToSet(handled)
  BY <1>1 DEF Notices
<1>6. \A m \in trkMailed' : delivered'[m.msg] \notin {"rec", "unknown"}
  BY <1>1, <1>4 DEF HandlingInv
<1> QED BY <1>1, <1>3, <1>4, <1>5, <1>6 DEF HandlingInv

\* A line is treated.
LEMMA HandlingLine ==
    ASSUME StreamInv, HandlingInv, NextLine
    PROVE  HandlingInv'
<1> DEFINE n == buf[1].msg
<1>1. /\ tpc = "line" /\ cur = 0 /\ buf[1].part = "text" /\ UNCHANGED <<conf, delivered, known, trkMailed, scripts, tracks, noticed>>
  BY DEF NextLine, HandlingInv
<1>2. 1 \in DOMAIN buf /\ buf[1] \in Token /\ n \in 1..Len(delivered)
  <2>1. \E i \in DOMAIN buf : TRUE
    BY DEF NextLine, HasEnd
  <2>2. 1 \in DOMAIN buf /\ buf[1] \in Token
    BY <2>1, LenProperties DEF StreamInv
  <2> QED BY <2>2 DEF Token
<1>3. CASE handled' = handled /\ cur' = cur /\ tpc' \in {"read", "line"}
  BY <1>1, <1>3, HandlingFrame
<1>4. CASE handled' = Append(handled, n) /\ cur' = n /\ tpc' = "mail"
  <2>1. \A h \in ToSet(handled) : h < n
    BY <1>1, <1>2, InSet DEF StreamInv
  <2>2. Notices' = Notices
    BY <1>1 DEF Notices
  <2> DEFINE S == 1..Len(delivered)
  <2>3. handled \in Seq(S) /\ n \in S
    BY <1>2 DEF HandlingInv
  <2> HIDE DEF S, n
  <2>4. /\ handled' \in Seq(S) /\ ToSet(handled') = ToSet(handled) \cup {n}
        /\ Len(handled) \in Nat /\ DOMAIN handled' = 1..(Len(handled) + 1) /\ DOMAIN handled = 1..Len(handled)
        /\ \A i \in 1..Len(handled) : handled'[i] = handled[i]
        /\ handled'[Len(handled) + 1] = n
    BY <1>4, <2>3, AppendedSet
  <2>5. ASSUME NEW i \in DOMAIN handled', NEW j \in DOMAIN handled', i < j
        PROVE  handled'[i] < handled'[j]
    <3>1. i \in DOMAIN handled
      BY <2>4, <2>5
    <3>2. CASE j \in DOMAIN handled
      BY <2>4, <2>5, <3>1, <3>2 DEF HandlingInv
    <3>3. CASE j = Len(handled) + 1
      BY <2>1, <2>4, <3>1, <3>3, InSet
    <3> QED BY <2>4, <3>2, <3>3
  <2>6. n \notin ToSet(handled) /\ n # 0
    BY <2>1, <2>3 DEF S
  <2>7. handled' \in Seq(1..Len(delivered'))
    BY <1>1, <2>4 DEF S
  <2>8. n \notin tracks /\ n \notin scripts
    BY <2>6 DEF HandlingInv
  <2>9. \A h \in ToSet(handled') \ {n} : h \in ToSet(handled) /\ h # cur
    <3>1. \A h \in ToSet(handled) : h \in S
      BY <2>3, LenProperties DEF ToSet
    <3>2. 0 \notin S
      BY DEF S
    <3> QED BY <1>1, <2>4, <3>1, <3>2
  <2> QED BY <1>1, <1>4, <2>2, <2>4, <2>5, <2>6, <2>7, <2>8, <2>9 DEF HandlingInv
<1> QED BY <1>1, <1>3, <1>4 DEF NextLine, TrkGoto

\* The callback of a stored report, and the notices of a new connection.
LEMMA HandlingActs ==
    ASSUME HandlingInv, chk_sendmail \/ chk_actionscript \/ chk_specialhandling
                        \/ handleKeepAlivePackage \/ chk_connection_notification
    PROVE  HandlingInv'
<1> USE DEF TrkGoto
<1>1. conf' = conf /\ Notices' = Notices /\ delivered' = delivered /\ handled' = handled
      /\ ToSet(handled') = ToSet(handled)
  BY DEF chk_sendmail, chk_actionscript, chk_specialhandling, handleKeepAlivePackage,
         chk_connection_notification, Notices
<1>2. 0 \notin ToSet(handled)
  BY LenProperties DEF HandlingInv, ToSet
<1>3. CASE chk_sendmail
  <2>1. /\ tpc = "mail" /\ tpc' = "script" /\ cur # 0 /\ cur \in ToSet(handled)
        /\ UNCHANGED <<cur, known, scripts, tracks, noticed>>
    BY <1>3 DEF chk_sendmail, HandlingInv
  <2>2. \A x \in trkMailed' : x \in trkMailed \/ (x.msg = cur /\ MailDue(delivered[cur]))
    BY <1>3 DEF chk_sendmail
  <2>3. \A x \in trkMailed' : x.msg \in ToSet(handled) /\ delivered[x.msg] \notin {"rec", "unknown"}
    BY <2>1, <2>2 DEF HandlingInv, MailDue
  <2> QED BY <1>1, <2>1, <2>3 DEF HandlingInv
<1>4. CASE chk_actionscript
  <2>1. /\ tpc = "script" /\ tpc' = "special" /\ cur # 0 /\ cur \in ToSet(handled) /\ cur \notin scripts
        /\ scripts' = (IF conf.script THEN scripts \cup {cur} ELSE scripts)
        /\ UNCHANGED <<cur, known, trkMailed, tracks, noticed>>
    BY <1>4 DEF chk_actionscript, HandlingInv
  <2> QED BY <1>1, <2>1 DEF HandlingInv
<1>5. CASE chk_specialhandling
  <2>1. /\ tpc = "special" /\ tpc' \in {"read", "line"} /\ cur \in ToSet(handled) /\ cur' = 0 /\ cur \notin tracks
        /\ tracks' = (IF delivered[cur] = "gfen" /\ conf.gfen THEN tracks \cup {cur} ELSE tracks)
        /\ UNCHANGED <<known, trkMailed, scripts, noticed>>
    BY <1>5 DEF chk_specialhandling, HandlingInv, SpecialDue, AfterLine
  <2>2. \A n \in ToSet(handled) : n \in tracks' <=> delivered[n] = "gfen" /\ conf.gfen
    BY <2>1 DEF HandlingInv
  <2>3. \A n \in ToSet(handled) : n \in scripts <=> conf.script
    BY <2>1 DEF HandlingInv
  <2>4. 0 \notin tracks'
    BY <1>2, <2>1 DEF HandlingInv
  <2> QED BY <1>1, <2>1, <2>2, <2>3, <2>4 DEF HandlingInv
<1>6. CASE handleKeepAlivePackage
  <2>1. /\ tpc = "alive" /\ cur = 0
        /\ \/ known' = TRUE /\ tpc' = (IF known THEN "read" ELSE "connected")
           \/ known' = known /\ tpc' = "read"
        /\ UNCHANGED <<cur, trkMailed, scripts, tracks, noticed>>
    BY <1>6 DEF handleKeepAlivePackage, HandlingInv
  <2>2. noticed' = IF known' /\ tpc' # "connected" THEN Notices ELSE <<>>
    BY <2>1 DEF HandlingInv
  <2>3. /\ tpc' = "connected" => known'
        /\ tpc' \in {"read", "connected"}
    BY <2>1
  <2> QED BY <1>1, <2>1, <2>2, <2>3 DEF HandlingInv
<1>7. CASE chk_connection_notification
  <2>1. /\ tpc = "connected" /\ tpc' = "read" /\ known /\ cur = 0 /\ noticed = <<>>
        /\ noticed' = noticed \o Notices
        /\ UNCHANGED <<cur, known, trkMailed, scripts, tracks>>
    BY <1>7 DEF chk_connection_notification, HandlingInv
  <2>2. noticed' = Notices
    <3>1. Notices \in Seq({"script", "mail"})
      <4> DEFINE a == IF conf.script THEN <<"script">> ELSE <<>>
                 b == IF conf.force THEN <<"mail">> ELSE <<>>
      <4>1. a \in Seq({"script", "mail"}) /\ b \in Seq({"script", "mail"})
        <5>1. \A x \in {"script", "mail"} : <<x>> \in Seq({"script", "mail"})
          OBVIOUS
        <5>2. <<>> \in Seq({"script", "mail"})
          OBVIOUS
        <5> QED BY <5>1, <5>2
      <4>2. Notices = a \o b
        BY DEF Notices
      <4> HIDE DEF a, b
      <4> QED BY <4>1, <4>2, ConcatProperties
    <3> QED BY <2>1, <3>1, ConcatEmptySeq
  <2> QED BY <1>1, <2>1, <2>2 DEF HandlingInv
<1> QED BY <1>3, <1>4, <1>5, <1>6, <1>7

\* The first end of a line in what was read.
LEMMA FirstEnd ==
    ASSUME StreamInv, HasEnd
    PROVE  (CHOOSE i \in DOMAIN buf : buf[i].part = "end" /\ \A k \in 1..(i - 1) : buf[k].part # "end") \in DOMAIN buf
<1> DEFINE Ends == {i \in DOMAIN buf : buf[i].part = "end"}
<1>1. Len(buf) \in Nat /\ DOMAIN buf = 1..Len(buf)
  BY LenProperties DEF StreamInv
<1>2. Ends # {} /\ Ends \in SUBSET Nat
  BY <1>1 DEF HasEnd
<1>3. PICK i \in Ends : \A k \in Ends : i <= k
  BY <1>2, LeastOfNats
<1>4. \A k \in 1..(i - 1) : k \in DOMAIN buf /\ ~(i <= k)
  BY <1>1, <1>3
<1>5. buf[i].part = "end" /\ \A k \in 1..(i - 1) : buf[k].part # "end"
  BY <1>3, <1>4
<1> QED BY <1>3, <1>5

\* What the steps of the connection take from the read: all of it, or tokens from the front.
LEMMA TakenOff ==
    ASSUME StreamInv,
           handleKeepAlivePackage \/ NoEnd \/ LineRest \/ KeepAliveInside \/ NextLine
    PROVE  \E j \in 0..Len(buf) : buf' = SubSeq(buf, j + 1, Len(buf)) /\ (NextLine => j >= 1)
<1>1. buf \in Seq(Token) /\ Len(buf) \in Nat /\ DOMAIN buf = 1..Len(buf)
  BY LenProperties DEF StreamInv
<1>2. CASE buf' = <<>> /\ ~NextLine
  <2>1. SubSeq(buf, Len(buf) + 1, Len(buf)) = <<>>
    BY <1>1, SubSeqEmpty
  <2> QED BY <1>1, <1>2, <2>1
<1>3. CASE LineRest
  <2>1. buf # <<>> /\ buf' = Tail(buf) /\ ~NextLine
    BY <1>3 DEF LineRest, NextLine, HasEnd
  <2>2. buf' = SubSeq(buf, 1 + 1, Len(buf)) /\ 1 \in 0..Len(buf)
    BY <1>1, <2>1, TailIsSubSeq
  <2> QED BY <2>1, <2>2
<1>4. CASE KeepAliveInside /\ buf' # <<>>
  <2> DEFINE e == CHOOSE i \in DOMAIN buf : buf[i].part = "end" /\ \A k \in 1..(i - 1) : buf[k].part # "end"
  <2>1. buf' = SubSeq(buf, e + 1, Len(buf)) /\ ~NextLine
    BY <1>4 DEF KeepAliveInside, NextLine
  <2>2. e \in DOMAIN buf
    BY <1>4, FirstEnd DEF KeepAliveInside
  <2> HIDE DEF e
  <2>3. e \in 0..Len(buf)
    BY <1>1, <2>2
  <2> QED BY <2>1, <2>3
<1>5. CASE NextLine
  <2>1. buf' = SubSeq(buf, 3, Len(buf)) /\ Len(buf) >= 1
    BY <1>1, <1>5 DEF NextLine, HasEnd
  <2>2. CASE Len(buf) >= 2
    BY <1>1, <2>1, <2>2
  <2>3. CASE Len(buf) = 1
    <3>1. SubSeq(buf, 3, Len(buf)) = <<>> /\ SubSeq(buf, 1 + 1, Len(buf)) = <<>>
      BY <2>3, SubSeqEmpty
    <3>2. buf' = SubSeq(buf, 1 + 1, Len(buf)) /\ 1 \in 0..Len(buf) /\ 1 >= 1
      BY <2>1, <2>3, <3>1
    <3> QED BY <3>2
  <2>4. Len(buf) >= 2 \/ Len(buf) = 1
    BY <1>1, <2>1
  <2> QED BY <2>2, <2>3, <2>4
<1> QED BY <1>2, <1>3, <1>4, <1>5 DEF handleKeepAlivePackage, NoEnd, KeepAliveInside, NextLine

\* Every step of the device and of its connection keeps the order.
LEMMA OrderKept ==
    ASSUME StreamInv, HandlingInv, [TrkNext]_trkVars
    PROVE  StreamInv' /\ HandlingInv'
<1> USE DEF TrkGoto
<1>1. ASSUME UNCHANGED <<delivered, net, buf, handled>> PROVE StreamInv'
  BY <1>1 DEF StreamInv, Token, Rising, ToSet
<1>2. CASE UNCHANGED trkVars
  BY <1>1, <1>2, HandlingFrame DEF trkVars
<1>3. ASSUME NEW k \in Kinds, DeviceSends(k) PROVE StreamInv' /\ HandlingInv'
  BY <1>3, StreamSent, HandlingSent
<1>4. ASSUME NEW k \in 1..Len(net), socket_read(k) PROVE StreamInv' /\ HandlingInv'
  BY <1>4, StreamRead, HandlingFrame DEF socket_read
<1>5. CASE handleKeepAlivePackage
  <2>1. UNCHANGED <<delivered, net, handled>>
    BY <1>5 DEF handleKeepAlivePackage
  <2> QED BY <1>5, <2>1, TakenOff, StreamShorter, HandlingActs
<1>6. CASE chk_connection_notification \/ chk_sendmail \/ chk_actionscript \/ chk_specialhandling
  <2>1. UNCHANGED <<delivered, net, buf, handled>>
    BY <1>6 DEF chk_connection_notification, chk_sendmail, chk_actionscript, chk_specialhandling
  <2> QED BY <1>1, <1>6, <2>1, HandlingActs
<1>7. CASE NoEnd \/ LineRest \/ KeepAliveInside
  <2>1. /\ UNCHANGED <<conf, delivered, net, cur, handled, trkMailed, scripts, tracks, noticed, known>>
        /\ tpc = "line" /\ tpc' \in {"read", "line"}
    BY <1>7 DEF NoEnd, LineRest, KeepAliveInside
  <2>2. HandlingInv'
    BY <2>1, HandlingFrame
  <2>3. StreamInv'
    BY <1>7, <2>1, TakenOff, StreamShorter
  <2> QED BY <2>2, <2>3
<1>8. CASE NextLine
  <2>1. PICK j \in 0..Len(buf) : buf' = SubSeq(buf, j + 1, Len(buf)) /\ j >= 1
    BY <1>8, TakenOff
  <2>2. /\ UNCHANGED <<delivered, net>> /\ buf[1].part = "text"
        /\ handled' = handled \/ handled' = Append(handled, buf[1].msg)
    BY <1>8 DEF NextLine
  <2>3. StreamInv'
    BY <2>1, <2>2, StreamShorter
  <2> QED BY <1>8, <2>3, HandlingLine
<1> QED BY <1>2, <1>3, <1>4, <1>5, <1>6, <1>7, <1>8 DEF TrkNext

\* Nothing has been sent yet.
LEMMA OrderInitial ==
    ASSUME TrkInit
    PROVE  StreamInv /\ HandlingInv
<1>1. ToSet(handled) = {} /\ ToSet(buf) = {} /\ ToSet(net) = {} /\ DOMAIN handled = {}
      /\ DOMAIN buf = {} /\ DOMAIN net = {}
  BY DEF TrkInit, ToSet
<1>2. StreamInv
  BY <1>1 DEF TrkInit, StreamInv, Rising
<1>3. HandlingInv
  BY <1>1 DEF TrkInit, HandlingInv
<1> QED BY <1>2, <1>3

\* However TCP cuts the stream and however long it is, reports are stored at most once and in the
\* order of the device, a device that crossed its fence is put into tracking mode, scripts and
\* mails follow the configuration, and a device is announced once (tracker_clientsrv,
\* store_loc_Callback, chk_connection_notification).
THEOREM ReportsInOrder == TrkSpec => []HandledInOrder
<1>1. TrkInit => StreamInv /\ HandlingInv
  BY OrderInitial
<1>2. StreamInv /\ HandlingInv /\ [TrkNext]_trkVars => (StreamInv /\ HandlingInv)'
  BY OrderKept
<1>3. StreamInv /\ HandlingInv => HandledInOrder
  BY DEF HandlingInv, HandledInOrder
<1> QED BY <1>1, <1>2, <1>3, PTL DEF TrkSpec

\* What the types of the tracker's variables need besides: the device sends no more than its
\* messages, and the flags are flags.
DeviceStops ==
    /\ Len(delivered) <= MaxMessages
    /\ {known, seamless} \subseteq BOOLEAN
    /\ tpc \in {"read", "alive", "connected", "line", "mail", "script", "special"}

\* Every step keeps these.
LEMMA DeviceStopsKept ==
    ASSUME StreamInv, DeviceStops, [TrkNext]_trkVars
    PROVE  DeviceStops'
<1> USE TrackerAssumption
<1>0. delivered \in Seq(Kinds) /\ Len(delivered) \in Nat
  BY DEF StreamInv
<1>1. CASE UNCHANGED trkVars
  BY <1>1 DEF trkVars, DeviceStops
<1>2. ASSUME NEW k \in Kinds, DeviceSends(k) PROVE DeviceStops'
  <2>1. Len(delivered') = Len(delivered) + 1
    BY <1>0, <1>2 DEF DeviceSends
  <2> QED BY <1>0, <1>2, <2>1 DEF DeviceSends, DeviceStops
<1>3. ASSUME NEW k \in 1..Len(net), socket_read(k) PROVE DeviceStops'
  <2>1. tpc' \in {"alive", "line"} /\ UNCHANGED <<delivered, known>> /\ seamless' \in BOOLEAN
    BY <1>3 DEF socket_read, TrkGoto
  <2> QED BY <2>1 DEF DeviceStops
<1>4. CASE handleKeepAlivePackage
  <2>1. tpc' \in {"read", "connected"} /\ UNCHANGED <<delivered, seamless>> /\ known' \in {known, TRUE}
    BY <1>4 DEF handleKeepAlivePackage, TrkGoto
  <2> QED BY <2>1 DEF DeviceStops
<1>5. CASE chk_connection_notification \/ NoEnd \/ LineRest \/ KeepAliveInside
  <2>1. tpc' \in {"read", "line"} /\ UNCHANGED <<delivered, known, seamless>>
    BY <1>5 DEF chk_connection_notification, NoEnd, LineRest, KeepAliveInside, TrkGoto
  <2> QED BY <2>1 DEF DeviceStops
<1>6. CASE NextLine
  <2>1. tpc' \in {"read", "line", "mail"} /\ UNCHANGED <<delivered, known, seamless>>
    BY <1>6 DEF NextLine, TrkGoto
  <2> QED BY <2>1 DEF DeviceStops
<1>7. CASE chk_sendmail \/ chk_actionscript \/ chk_specialhandling
  <2>1. tpc' \in {"script", "special", "read", "line"} /\ UNCHANGED <<delivered, known, seamless>>
    BY <1>7 DEF chk_sendmail, chk_actionscript, chk_specialhandling, AfterLine, TrkGoto
  <2> QED BY <2>1 DEF DeviceStops
<1> QED BY <1>1, <1>2, <1>3, <1>4, <1>5, <1>6, <1>7 DEF TrkNext

\* Every variable of a tracker keeps its type, and a report is stored, mailed, scripted or
\* handled specially exactly when there is one (tracker_clientsrv).
THEOREM TrackerTypes == TrkSpec => []TrkTypeOK
<1> DEFINE TrkInv == StreamInv /\ HandlingInv /\ DeviceStops
<1>1. TrkInit => TrkInv
  <2> SUFFICES ASSUME TrkInit PROVE DeviceStops
    BY OrderInitial
  <2>1. known = FALSE /\ seamless = TRUE /\ Len(delivered) = 0 /\ tpc = "read"
    BY DEF TrkInit
  <2>2. Len(delivered) <= MaxMessages
    BY <2>1, TrackerAssumption
  <2> QED BY ONLY <2>1, <2>2, Zenon DEF DeviceStops
<1>2. TrkInv /\ [TrkNext]_trkVars => TrkInv'
  BY OrderKept, DeviceStopsKept
<1>3. TrkInv => TrkTypeOK
  <2> SUFFICES ASSUME StreamInv, HandlingInv, DeviceStops PROVE TrkTypeOK
    OBVIOUS
  <2>1. Len(delivered) \in Nat /\ Len(delivered) <= MaxMessages
        /\ \A i \in DOMAIN delivered : delivered[i] \in Kinds
    BY DEF StreamInv, DeviceStops
  <2>2. cur # 0 => cur \in 1..Len(delivered)
    BY DEF HandlingInv, ToSet
  <2>3. cur \in 0..MaxMessages
    BY <2>1, <2>2, TrackerAssumption
  <2> QED BY <2>1, <2>3 DEF HandlingInv, DeviceStops, TrkTypeOK
<1> QED BY <1>1, <1>2, <1>3, PTL DEF TrkSpec

-----------------------------------------------------------------------------
(* Packages of a tracker: nothing is lost                                  *)

\* Messages that are cut apart behind an end stay whole.
LEMMA CutPaired ==
    ASSUME NEW S, NEW s \in Seq(S), NEW k \in 1..Len(s), Paired(s), s[k].part # "text"
    PROVE  Paired(SubSeq(s, 1, k)) /\ Paired(SubSeq(s, k + 1, Len(s)))
<1> DEFINE a == SubSeq(s, 1, k)
           b == SubSeq(s, k + 1, Len(s))
<1>1. /\ Len(s) \in Nat /\ DOMAIN s = 1..Len(s) /\ k \in 0..Len(s)
      /\ DOMAIN a = 1..k /\ \A i \in 1..k : a[i] = s[i]
      /\ DOMAIN b = 1..(Len(s) - k) /\ \A i \in 1..(Len(s) - k) : b[i] = s[i + k]
  <2>1. Len(s) \in Nat /\ DOMAIN s = 1..Len(s) /\ k \in 0..Len(s)
    BY LenProperties
  <2> QED BY <2>1, CutInTwo
<1> HIDE DEF a, b
<1>2. Paired(a)
  <2> SUFFICES ASSUME NEW i \in DOMAIN a
               PROVE  /\ a[i].part = "text" => i + 1 \in DOMAIN a /\ a[i + 1] = [msg |-> a[i].msg, part |-> "end"]
                      /\ a[i].part = "end"  => i - 1 \in DOMAIN a /\ a[i - 1] = [msg |-> a[i].msg, part |-> "text"]
    BY DEF Paired
  <2>1. i \in DOMAIN s /\ i \in 1..k /\ a[i] = s[i]
    BY <1>1
  <2>2. /\ s[i].part = "text" => i + 1 \in DOMAIN s /\ s[i + 1] = [msg |-> s[i].msg, part |-> "end"]
        /\ s[i].part = "end"  => i - 1 \in DOMAIN s /\ s[i - 1] = [msg |-> s[i].msg, part |-> "text"]
    BY <2>1 DEF Paired
  <2>3. s[i].part = "text" => i + 1 \in 1..k
    BY <1>1, <2>1
  <2>4. s[i].part = "end" => i - 1 \in 1..k
    BY <1>1, <2>1, <2>2
  <2> QED BY <1>1, <2>1, <2>2, <2>3, <2>4
<1>3. Paired(b)
  <2> SUFFICES ASSUME NEW i \in DOMAIN b
               PROVE  /\ b[i].part = "text" => i + 1 \in DOMAIN b /\ b[i + 1] = [msg |-> b[i].msg, part |-> "end"]
                      /\ b[i].part = "end"  => i - 1 \in DOMAIN b /\ b[i - 1] = [msg |-> b[i].msg, part |-> "text"]
    BY DEF Paired
  <2>1. i + k \in DOMAIN s /\ b[i] = s[i + k] /\ i \in Nat /\ k \in Nat
    BY <1>1
  <2>2. /\ s[i + k].part = "text" => (i + k) + 1 \in DOMAIN s /\ s[(i + k) + 1] = [msg |-> s[i + k].msg, part |-> "end"]
        /\ s[i + k].part = "end"  => (i + k) - 1 \in DOMAIN s /\ s[(i + k) - 1] = [msg |-> s[i + k].msg, part |-> "text"]
    BY <2>1 DEF Paired
  <2>3. ASSUME s[i + k].part = "text"
        PROVE  i + 1 \in DOMAIN b /\ b[i + 1] = s[(i + k) + 1]
    <3>1. i + 1 \in 1..(Len(s) - k) /\ (i + 1) + k = (i + k) + 1
      BY <1>1, <2>1, <2>2, <2>3
    <3> QED BY <1>1, <3>1
  <2>4. ASSUME s[i + k].part = "end"
        PROVE  i - 1 \in DOMAIN b /\ b[i - 1] = s[(i + k) - 1]
    <3>1. i # 1
      <4> SUFFICES ASSUME i = 1 PROVE FALSE
        OBVIOUS
      <4>1. (i + k) - 1 = k
        BY <2>1
      <4>2. s[k].part = "text"
        BY <2>2, <2>4, <4>1
      <4> QED BY <4>2
    <3>2. i - 1 \in 1..(Len(s) - k) /\ (i - 1) + k = (i + k) - 1
      BY <1>1, <2>1, <3>1
    <3> QED BY <1>1, <3>2
  <2> QED BY <2>1, <2>2, <2>3, <2>4
<1> QED BY <1>2, <1>3 DEF a, b

\* Whole messages in a row.
LEMMA RowPaired ==
    ASSUME NEW S, NEW s \in Seq(S), NEW m \in Seq(S), Paired(s), Paired(m)
    PROVE  Paired(s \o m)
<1> DEFINE c == s \o m
<1>1. /\ Len(s) \in Nat /\ Len(m) \in Nat /\ DOMAIN s = 1..Len(s) /\ DOMAIN m = 1..Len(m)
      /\ DOMAIN c = 1..(Len(s) + Len(m))
      /\ \A i \in DOMAIN c : \/ i \in DOMAIN s /\ c[i] = s[i]
                             \/ i - Len(s) \in DOMAIN m /\ c[i] = m[i - Len(s)]
      /\ \A i \in DOMAIN s : i \in DOMAIN c /\ c[i] = s[i]
      /\ \A i \in DOMAIN m : i + Len(s) \in DOMAIN c /\ c[i + Len(s)] = m[i]
  BY RowOfTwo
<1> HIDE DEF c
<1> SUFFICES ASSUME NEW i \in DOMAIN c
             PROVE  /\ c[i].part = "text" => i + 1 \in DOMAIN c /\ c[i + 1] = [msg |-> c[i].msg, part |-> "end"]
                    /\ c[i].part = "end"  => i - 1 \in DOMAIN c /\ c[i - 1] = [msg |-> c[i].msg, part |-> "text"]
  BY DEF Paired, c
<1>2. CASE i \in DOMAIN s /\ c[i] = s[i]
  BY <1>1, <1>2 DEF Paired
<1>3. CASE i - Len(s) \in DOMAIN m /\ c[i] = m[i - Len(s)]
  <2> DEFINE j == i - Len(s)
  <2>1. j \in DOMAIN m /\ c[i] = m[j] /\ (j + 1) + Len(s) = i + 1 /\ (j - 1) + Len(s) = i - 1
    BY <1>1, <1>3
  <2> HIDE DEF j
  <2>2. /\ m[j].part = "text" => j + 1 \in DOMAIN m /\ m[j + 1] = [msg |-> m[j].msg, part |-> "end"]
        /\ m[j].part = "end"  => j - 1 \in DOMAIN m /\ m[j - 1] = [msg |-> m[j].msg, part |-> "text"]
    BY <2>1 DEF Paired
  <2>3. j + 1 \in DOMAIN m => i + 1 \in DOMAIN c /\ c[i + 1] = m[j + 1]
    <3>1. j + 1 \in DOMAIN m => (j + 1) + Len(s) \in DOMAIN c /\ c[(j + 1) + Len(s)] = m[j + 1]
      BY <1>1
    <3> QED BY <2>1, <3>1
  <2>4. j - 1 \in DOMAIN m => i - 1 \in DOMAIN c /\ c[i - 1] = m[j - 1]
    <3>1. j - 1 \in DOMAIN m => (j - 1) + Len(s) \in DOMAIN c /\ c[(j - 1) + Len(s)] = m[j - 1]
      BY <1>1
    <3> QED BY <2>1, <3>1
  <2> QED BY <2>1, <2>2, <2>3, <2>4
<1> QED BY <1>1, <1>2, <1>3

\* The tokens of one message.
LEMMA TokensPaired ==
    ASSUME NEW n, NEW k
    PROVE  /\ Paired(Tokens(n, k)) /\ \E x \in ToSet(Tokens(n, k)) : x.msg = n
           /\ \A x \in ToSet(Tokens(n, k)) : x.part = "whole" <=> k = "keepalive"
<1> DEFINE m == Tokens(n, k)
<1>1. CASE k = "keepalive"
  <2>1. DOMAIN m = {1} /\ m[1] = [msg |-> n, part |-> "whole"]
    BY <1>1 DEF Tokens
  <2> HIDE DEF m
  <2>2. Paired(m) /\ m[1] \in ToSet(m) /\ \A x \in ToSet(m) : x = m[1]
    BY <2>1 DEF Paired, ToSet
  <2> QED BY <1>1, <2>1, <2>2 DEF m
<1>2. CASE k # "keepalive"
  <2>1. /\ DOMAIN m = {1, 2} /\ m[1] = [msg |-> n, part |-> "text"]
        /\ m[2] = [msg |-> n, part |-> "end"]
    BY <1>2 DEF Tokens
  <2> HIDE DEF m
  <2>2. Paired(m) /\ m[1] \in ToSet(m) /\ \A x \in ToSet(m) : x = m[1] \/ x = m[2]
    BY <2>1 DEF Paired, ToSet
  <2> QED BY <1>2, <2>1, <2>2 DEF m
<1> QED BY <1>1, <1>2

\* Every token belongs to a message that was sent.
LEMMA TokensTyped ==
    ASSUME StreamInv
    PROVE  /\ Len(delivered) \in Nat
           /\ \A x \in ToSet(net) \cup ToSet(buf) : x \in Token /\ x.msg \in 1..Len(delivered)
<1>1. Len(delivered) \in Nat
  BY LenProperties DEF StreamInv
<1>2. \A x \in ToSet(net) \cup ToSet(buf) : x \in Token
  BY LenProperties DEF StreamInv, ToSet
<1> QED BY <1>1, <1>2 DEF Token

\* A message that is settled stays so.
LEMMA SettledStays ==
    ASSUME NEW n, Settled(n), delivered'[n] = delivered[n], ToSet(handled) \subseteq ToSet(handled'),
           answered \subseteq answered', lost \subseteq lost', replies \subseteq replies'
    PROVE  Settled(n)'
BY DEF Settled, Reports

\* Steps that leave the stream and the read alone.
LEMMA SeamFrame ==
    ASSUME SeamInv, UNCHANGED <<delivered, net, buf, handled, replies, answered, lost, seamless>>,
           tpc # "alive", tpc' # "alive",
           tpc' \in {"read", "connected"} => buf = <<>>, tpc' = "line" => buf # <<>>
    PROVE  SeamInv'
<1>1. OnWay' = OnWay /\ \A n : Settled(n)' = Settled(n)
  BY DEF OnWay, Settled
<1> QED BY <1>1 DEF SeamInv

\* A new message is on its way, whole.
LEMMA SeamSent ==
    ASSUME StreamInv, SeamInv, NEW k \in Kinds, DeviceSends(k)
    PROVE  SeamInv'
<1> DEFINE n == Len(delivered) + 1
           m == Tokens(n, k)
<1>1. /\ Len(delivered) \in Nat /\ Len(delivered') = n /\ delivered'[n] = k
      /\ \A i \in 1..Len(delivered) : delivered'[i] = delivered[i]
      /\ net' = net \o m /\ m \in Seq(Token') /\ net \in Seq(Token')
      /\ \A x \in ToSet(m) : x.msg = n
  BY NewTokens DEF StreamInv
<1>2. UNCHANGED <<buf, tpc, handled, replies, answered, lost, seamless>>
  BY DEF DeviceSends
<1>3. /\ Paired(m) /\ (\E x \in ToSet(m) : x.msg = n)
      /\ \A x \in ToSet(m) : x.part = "whole" <=> k = "keepalive"
  BY TokensPaired
<1> HIDE DEF m
<1>4. ToSet(net') = ToSet(net) \cup ToSet(m)
  BY <1>1, RowOfTwo
<1>5. \A x \in ToSet(net) \cup ToSet(buf) : delivered'[x.msg] = delivered[x.msg]
  BY <1>1, TokensTyped
<1>6. lost' \subseteq 1..Len(delivered') /\ \A i \in lost : delivered'[i] = delivered[i]
  BY <1>1, <1>2 DEF SeamInv
<1>7. \A x \in ToSet(net') \cup ToSet(buf') : x.part = "whole" <=> delivered'[x.msg] = "keepalive"
  <2>1. \A x \in ToSet(m) : x.part = "whole" <=> delivered'[x.msg] = "keepalive"
    BY <1>1, <1>3
  <2>2. \A x \in ToSet(net) \cup ToSet(buf) : x.part = "whole" <=> delivered'[x.msg] = "keepalive"
    BY <1>5 DEF SeamInv
  <2> QED BY <1>2, <1>4, <2>1, <2>2
<1>8. OnWay' = OnWay \cup {n}
  <2>1. OnWay' = {x.msg : x \in ToSet(net') \cup ToSet(buf')}
    BY DEF OnWay
  <2> QED BY <1>1, <1>2, <1>3, <1>4, <2>1 DEF OnWay
<1>9. ASSUME seamless
      PROVE  /\ Paired(net')
             /\ \A i \in (1..Len(delivered')) \ OnWay' : Settled(i)'
  <2>1. Paired(net) /\ \A i \in (1..Len(delivered)) \ OnWay : Settled(i)
    BY <1>9 DEF SeamInv
  <2>2. Paired(net')
    BY <1>1, <1>3, <2>1, RowPaired
  <2>3. ASSUME NEW i \in (1..Len(delivered')) \ OnWay' PROVE Settled(i)'
    <3>1. i \in (1..Len(delivered)) \ OnWay
      BY <1>1, <1>8
    <3>2. Settled(i) /\ delivered'[i] = delivered[i]
      BY <1>1, <2>1, <3>1
    <3> QED BY <1>2, <3>2, SettledStays
  <2> QED BY <2>2, <2>3
<1> QED BY <1>2, <1>6, <1>7, <1>9 DEF SeamInv

\* A read ends behind a message, or the stream is no longer seamless.
LEMMA SeamRead ==
    ASSUME StreamInv, SeamInv, NEW k \in 1..Len(net), socket_read(k)
    PROVE  SeamInv'
<1>1. /\ net \in Seq(Token) /\ Len(net) \in Nat /\ DOMAIN net = 1..Len(net) /\ k \in 0..Len(net)
  BY LenProperties DEF StreamInv
<1>2. /\ buf' = SubSeq(net, 1, k) /\ net' = SubSeq(net, k + 1, Len(net)) /\ tpc = "read" /\ buf = <<>>
      /\ tpc' = (IF net[1].part = "whole" THEN "alive" ELSE "line")
      /\ seamless' = (seamless /\ Seam(k))
      /\ UNCHANGED <<delivered, handled, replies, answered, lost>>
  BY DEF socket_read, SeamInv, TrkGoto
<1>3. /\ DOMAIN buf' = 1..k /\ Len(buf') = k /\ \A i \in 1..k : buf'[i] = net[i]
      /\ ToSet(net) = ToSet(buf') \cup ToSet(net')
  BY <1>1, <1>2, CutInTwo
<1>4. ToSet(buf) = {}
  BY <1>2 DEF ToSet
<1>5. OnWay' = OnWay /\ \A n : Settled(n)' = Settled(n)
  <2>1. OnWay' = {x.msg : x \in ToSet(net') \cup ToSet(buf')}
    BY DEF OnWay
  <2>2. ToSet(net') \cup ToSet(buf') = ToSet(net) \cup ToSet(buf)
    BY <1>3, <1>4
  <2>3. \A n : Settled(n)' = Settled(n)
    BY <1>2 DEF Settled
  <2> QED BY <2>1, <2>2, <2>3 DEF OnWay
<1>6. buf' # <<>>
  BY <1>3
<1>7. ASSUME seamless'
      PROVE  /\ Paired(net')
             /\ IF tpc' = "alive" THEN Len(buf') = 1 /\ buf'[1].part = "whole"
                ELSE Paired(buf') /\ \A x \in ToSet(buf') : x.part # "whole"
  <2>1. seamless /\ Seam(k) /\ Paired(net)
    BY <1>2, <1>7 DEF SeamInv
  <2>2. Paired(net') /\ Paired(buf')
    BY <1>1, <1>2, <2>1, CutPaired DEF Seam
  <2>3. CASE net[1].part = "whole"
    <3>1. k = 1
      BY <2>1, <2>3 DEF Seam
    <3> QED BY <1>2, <1>3, <2>2, <2>3, <3>1
  <2>4. CASE net[1].part # "whole"
    <3>1. \A i \in 1..k : net[i].part # "whole"
      BY <2>1, <2>4 DEF Seam
    <3>2. \A x \in ToSet(buf') : x.part # "whole"
      BY <1>3, <3>1, InSet
    <3> QED BY <1>2, <2>2, <2>4, <3>2
  <2> QED BY <2>3, <2>4
<1> QED BY <1>2, <1>3, <1>4, <1>5, <1>6, <1>7 DEF SeamInv

\* A keep-alive that comes alone is answered.
LEMMA SeamAlive ==
    ASSUME StreamInv, SeamInv, handleKeepAlivePackage
    PROVE  SeamInv'
<1>1. /\ tpc = "alive" /\ buf' = <<>> /\ tpc' \in {"read", "connected"}
      /\ UNCHANGED <<delivered, net, handled, replies, seamless>>
      /\ \/ Len(buf) = 1 /\ answered' = answered \cup {buf[1].msg} /\ lost' = lost
         \/ Len(buf) > 1 /\ answered' = answered /\ lost' = lost \cup {x.msg : x \in ToSet(buf)}
  BY DEF handleKeepAlivePackage, TrkGoto, Drop
<1>2. ToSet(buf') = {} /\ DOMAIN buf' = {}
  BY <1>1 DEF ToSet
<1>3. Paired(buf')
  BY <1>2 DEF Paired
<1>4. lost' \subseteq 1..Len(delivered')
  BY <1>1, TokensTyped DEF SeamInv
<1>5. ASSUME seamless
      PROVE  /\ \A n \in lost' : delivered'[n] = "garbled"
             /\ \A n \in (1..Len(delivered')) \ OnWay' : Settled(n)'
  <2>1. Len(buf) = 1 /\ buf[1].part = "whole" /\ answered' = answered \cup {buf[1].msg} /\ lost' = lost
    <3>1. Len(buf) = 1 /\ buf[1].part = "whole"
      BY <1>1, <1>5 DEF SeamInv
    <3>2. ~(Len(buf) > 1)
      BY <3>1
    <3> QED BY <1>1, <3>1, <3>2
  <2>2. DOMAIN buf = {1}
    BY <2>1, LenProperties DEF StreamInv
  <2>3. ToSet(buf) = {buf[1]} /\ delivered[buf[1].msg] = "keepalive"
    BY <2>1, <2>2 DEF ToSet, SeamInv
  <2>4. OnWay' = {x.msg : x \in ToSet(net)} /\ OnWay = {x.msg : x \in ToSet(net)} \cup {buf[1].msg}
    <3>1. OnWay' = {x.msg : x \in ToSet(net') \cup ToSet(buf')}
      BY DEF OnWay
    <3> QED BY <1>1, <1>2, <2>3, <3>1 DEF OnWay
  <2>5. ASSUME NEW n \in (1..Len(delivered')) \ OnWay' PROVE Settled(n)'
    <3>1. CASE n = buf[1].msg
      BY <1>1, <2>1, <2>3, <3>1 DEF Settled, Reports
    <3>2. CASE n # buf[1].msg
      <4>1. Settled(n)
        BY <1>1, <1>5, <2>4, <2>5, <3>2 DEF SeamInv
      <4> QED BY <1>1, <2>1, <4>1, SettledStays
    <3> QED BY <3>1, <3>2
  <2> QED BY <1>1, <1>5, <2>1, <2>5 DEF SeamInv
<1>6. \A x \in ToSet(net') \cup ToSet(buf') : x.part = "whole" <=> delivered'[x.msg] = "keepalive"
  BY <1>1, <1>2 DEF SeamInv
<1>7. seamless' => Paired(net')
  BY <1>1 DEF SeamInv
<1> QED BY <1>1, <1>2, <1>3, <1>4, <1>5, <1>6, <1>7 DEF SeamInv

\* What is dropped was cut.
LEMMA SeamDrops ==
    ASSUME StreamInv, SeamInv, NoEnd \/ LineRest \/ KeepAliveInside
    PROVE  SeamInv'
<1>1. buf \in Seq(Token) /\ Len(buf) \in Nat /\ DOMAIN buf = 1..Len(buf) /\ tpc = "line" /\ buf # <<>>
  <2>1. buf \in Seq(Token) /\ Len(buf) \in Nat /\ DOMAIN buf = 1..Len(buf)
    BY LenProperties DEF StreamInv
  <2> QED BY <2>1 DEF NoEnd, LineRest, KeepAliveInside, SeamInv
<1>2. 1 \in DOMAIN buf /\ buf[1] \in ToSet(buf) /\ buf[1] \in Token
  <2>1. 1 \in DOMAIN buf
    BY <1>1
  <2> QED BY <1>1, <2>1, InSet
<1>3. ~seamless
  <2> SUFFICES ASSUME seamless PROVE FALSE
    OBVIOUS
  <2>1. Paired(buf) /\ \A x \in ToSet(buf) : x.part # "whole"
    BY <1>1 DEF SeamInv
  <2>2. buf[1].part \in {"text", "end"}
    BY <1>2, <2>1 DEF Token
  <2>3. buf[1].part # "end"
    <3>1. 1 - 1 \notin DOMAIN buf
      BY <1>1
    <3> QED BY <1>2, <2>1, <3>1 DEF Paired
  <2>4. HasEnd
    <3>1. 1 + 1 \in DOMAIN buf /\ buf[1 + 1] = [msg |-> buf[1].msg, part |-> "end"]
      BY <1>2, <2>1, <2>2, <2>3 DEF Paired
    <3>2. buf[1 + 1].part = "end"
      BY <3>1
    <3> QED BY <3>1, <3>2 DEF HasEnd
  <2> QED BY <1>2, <2>1, <2>2, <2>3, <2>4 DEF NoEnd, LineRest, KeepAliveInside
<1>4. PICK j \in 0..Len(buf) : buf' = SubSeq(buf, j + 1, Len(buf))
  BY TakenOff
<1>5. ToSet(buf') \subseteq ToSet(buf)
  <2>1. ToSet(SubSeq(buf, j + 1, Len(buf))) \subseteq ToSet(buf)
    BY <1>1, CutInTwo
  <2> QED BY <1>4, <2>1
<1>6. /\ UNCHANGED <<delivered, net, seamless>> /\ tpc' \in {"read", "line"}
  BY DEF NoEnd, LineRest, KeepAliveInside, TrkGoto
<1>7. lost' \subseteq 1..Len(delivered)
  <2>1. ASSUME NEW ts, Drop(ts), ToSet(ts) \subseteq ToSet(buf) PROVE lost' \subseteq 1..Len(delivered)
    BY <2>1, TokensTyped DEF Drop, SeamInv
  <2>2. CASE Drop(buf)
    BY <2>1, <2>2
  <2>3. CASE Drop(<<buf[1]>>)
    <3>1. ToSet(<<buf[1]>>) = {buf[1]}
      BY DEF ToSet
    <3> QED BY <1>2, <2>1, <2>3, <3>1
  <2>4. ASSUME KeepAliveInside, NEW e \in DOMAIN buf, Drop(SubSeq(buf, 1, e)) PROVE lost' \subseteq 1..Len(delivered)
    <3>1. e \in 0..Len(buf)
      BY <1>1
    <3>2. ToSet(SubSeq(buf, 1, e)) \subseteq ToSet(buf)
      BY <1>1, <3>1, CutInTwo
    <3> QED BY <2>1, <2>4, <3>2
  <2> QED BY <2>2, <2>3, <2>4, FirstEnd DEF NoEnd, LineRest, KeepAliveInside
<1>8. /\ tpc' = "read" => buf' = <<>>
      /\ tpc' = "line" => buf' # <<>>
  <2>1. CASE NoEnd
    BY <2>1 DEF NoEnd, TrkGoto
  <2>2. CASE LineRest
    <3>1. buf' = Tail(buf) /\ tpc' = (IF Len(buf) = 1 THEN "read" ELSE "line")
      BY <2>2 DEF LineRest, TrkGoto
    <3>2. buf' \in Seq(Token) /\ Len(buf') = Len(buf) - 1
      BY <1>1, <3>1, HeadTailProperties
    <3> QED BY <1>1, <3>1, <3>2, EmptySeq
  <2>3. CASE KeepAliveInside
    <3>1. CASE buf' = <<>> /\ tpc' = "read"
      BY <3>1
    <3>2. ASSUME NEW e \in DOMAIN buf, buf' = SubSeq(buf, e + 1, Len(buf)),
                 tpc' = IF Len(buf) = e THEN "read" ELSE "line"
          PROVE  /\ tpc' = "read" => buf' = <<>>
                 /\ tpc' = "line" => buf' # <<>>
      <4>1. e \in 0..Len(buf) /\ e \in Nat
        BY <1>1
      <4>2. /\ SubSeq(buf, e + 1, Len(buf)) \in Seq(Token)
            /\ Len(SubSeq(buf, e + 1, Len(buf))) = Len(buf) - e
        BY <1>1, <4>1, CutInTwo
      <4>3. SubSeq(buf, e + 1, Len(buf)) = <<>> <=> Len(buf) = e
        <5>1. SubSeq(buf, e + 1, Len(buf)) = <<>> => Len(buf) - e = 0
          BY <4>2, EmptySeq
        <5>2. Len(buf) = e => SubSeq(buf, e + 1, Len(buf)) = <<>>
          BY <4>1, SubSeqEmpty
        <5> QED BY <1>1, <4>1, <5>1, <5>2
      <4> QED BY <3>2, <4>3
    <3> QED BY <2>3, <3>1, <3>2, FirstEnd DEF KeepAliveInside, TrkGoto
  <2> QED BY <2>1, <2>2, <2>3
<1> QED BY <1>3, <1>5, <1>6, <1>7, <1>8 DEF SeamInv

\* A line is taken off whole, and its message goes where it belongs.
LEMMA SeamLine ==
    ASSUME StreamInv, HandlingInv, SeamInv, NextLine
    PROVE  SeamInv'
<1>0. PICK n : n = buf[1].msg
  OBVIOUS
<1>1. /\ tpc = "line" /\ HasEnd /\ buf[1].part = "text" /\ buf' = SubSeq(buf, 3, Len(buf))
      /\ UNCHANGED <<delivered, net, answered, seamless>>
      /\ tpc' = "mail" \/ tpc' = (IF Len(buf) = 2 THEN "read" ELSE "line")
      /\ ToSet(<<buf[1]>>) = {buf[1]}
  BY DEF NextLine, TrkGoto, ToSet
<1>2. buf \in Seq(Token) /\ Len(buf) \in Nat /\ DOMAIN buf = 1..Len(buf)
  BY LenProperties DEF StreamInv
<1>3. Len(buf) >= 2 /\ 1 \in DOMAIN buf /\ 2 \in DOMAIN buf /\ 2 \in 0..Len(buf)
  <2>1. PICK i \in DOMAIN buf : buf[i].part = "end"
    BY <1>1 DEF HasEnd
  <2>2. i # 1
    BY <1>1, <2>1
  <2> QED BY <1>2, <2>1, <2>2
<1>4. /\ SubSeq(buf, 3, Len(buf)) \in Seq(Token) /\ Len(SubSeq(buf, 3, Len(buf))) = Len(buf) - 2
      /\ ToSet(buf) = ToSet(SubSeq(buf, 1, 2)) \cup ToSet(SubSeq(buf, 3, Len(buf)))
      /\ DOMAIN SubSeq(buf, 1, 2) = 1..2 /\ \A i \in 1..2 : SubSeq(buf, 1, 2)[i] = buf[i]
  <2>1. \A k \in 0..Len(buf) :
           LET a == SubSeq(buf, 1, k)
               b == SubSeq(buf, k + 1, Len(buf))
           IN  /\ a \in Seq(Token) /\ DOMAIN a = 1..k /\ Len(a) = k /\ \A i \in 1..k : a[i] = buf[i]
               /\ b \in Seq(Token) /\ DOMAIN b = 1..(Len(buf) - k) /\ Len(b) = Len(buf) - k
               /\ \A i \in 1..(Len(buf) - k) : b[i] = buf[i + k]
               /\ ToSet(buf) = ToSet(a) \cup ToSet(b)
    BY <1>2, CutInTwo, Zenon
  <2>2. 2 + 1 = 3
    OBVIOUS
  <2> QED BY ONLY <1>3, <2>1, <2>2
<1>5. ToSet(buf) = {buf[1], buf[2]} \cup ToSet(buf')
  <2>1. ToSet(SubSeq(buf, 1, 2)) = {buf[1], buf[2]}
    BY <1>4 DEF ToSet
  <2> QED BY <1>1, <1>4, <2>1
<1>6. /\ tpc' \in {"read", "connected"} => buf' = <<>>
      /\ tpc' = "line" => buf' # <<>>
      /\ tpc' # "alive"
  <2>1. CASE tpc' = "mail"
    BY <2>1
  <2>2. CASE tpc' = (IF Len(buf) = 2 THEN "read" ELSE "line")
    <3>1. CASE Len(buf) = 2
      BY <1>1, <1>4, <2>2, <3>1, EmptySeq
    <3>2. CASE Len(buf) # 2
      <4>1. Len(SubSeq(buf, 3, Len(buf))) # 0
        BY <1>2, <1>4, <3>2
      <4>2. SubSeq(buf, 3, Len(buf)) # <<>>
        BY <1>4, <4>1, EmptySeq
      <4> QED BY <1>1, <2>2, <3>2, <4>2
    <3> QED BY <3>1, <3>2
  <2> QED BY <1>1, <2>1, <2>2
<1>7. n \in 1..Len(delivered) /\ delivered[n] # "keepalive"
  <2>1. buf[1] \in ToSet(buf)
    BY <1>5
  <2> QED BY <1>0, <1>1, <2>1, TokensTyped DEF SeamInv
<1>8. \/ /\ arrivingPackageType(delivered[n]) = "reply" /\ replies' = replies \cup {n}
         /\ UNCHANGED <<handled, lost>>
      \/ /\ arrivingPackageType(delivered[n]) = "loc" /\ handled' = Append(handled, n)
         /\ UNCHANGED <<replies, lost>>
      \/ /\ arrivingPackageType(delivered[n]) = "unknown" /\ lost' = lost \cup {n}
         /\ UNCHANGED <<handled, replies>>
  BY <1>0, <1>1 DEF NextLine, Drop
<1>9. /\ lost \subseteq lost' /\ lost' \subseteq lost \cup {n} /\ replies \subseteq replies'
      /\ n \in lost' => n \in lost \/ delivered[n] = "garbled"
      /\ ToSet(handled) \subseteq ToSet(handled')
      /\ Settled(n)'
  <2>1. CASE arrivingPackageType(delivered[n]) = "reply" /\ replies' = replies \cup {n} /\ UNCHANGED <<handled, lost>>
    <3>1. delivered'[n] \notin Reports \cup {"garbled", "keepalive"}
      BY <1>1, <1>7, <2>1 DEF arrivingPackageType
    <3> QED BY <2>1, <3>1 DEF Settled, Reports
  <2>2. CASE arrivingPackageType(delivered[n]) = "loc" /\ handled' = Append(handled, n) /\ UNCHANGED <<replies, lost>>
    <3>1. delivered'[n] \in Reports
      BY <1>1, <1>7, <2>2 DEF arrivingPackageType, Reports
    <3>2. ToSet(handled') = ToSet(handled) \cup {n}
      BY <1>7, <2>2, AppendedSet DEF HandlingInv
    <3> QED BY <2>2, <3>1, <3>2 DEF Settled, Reports
  <2>3. CASE arrivingPackageType(delivered[n]) = "unknown" /\ lost' = lost \cup {n} /\ UNCHANGED <<handled, replies>>
    <3>1. delivered'[n] = "garbled"
      BY <1>1, <1>7, <2>3 DEF arrivingPackageType, Reports
    <3> QED BY <1>1, <2>3, <3>1 DEF Settled, Reports
  <2> QED BY <1>8, <2>1, <2>2, <2>3
<1>10. ASSUME seamless
       PROVE  /\ Paired(buf') /\ \A x \in ToSet(buf') : x.part # "whole"
              /\ \A i \in lost' : delivered'[i] = "garbled"
              /\ \A i \in (1..Len(delivered')) \ OnWay' : Settled(i)'
  <2>1. /\ Paired(buf) /\ (\A x \in ToSet(buf) : x.part # "whole") /\ (\A i \in lost : delivered[i] = "garbled")
        /\ \A i \in (1..Len(delivered)) \ OnWay : Settled(i)
    BY <1>1, <1>10 DEF SeamInv
  <2>2. buf[2] = [msg |-> n, part |-> "end"]
    <3>1. buf[1 + 1] = [msg |-> n, part |-> "end"]
      BY <1>0, <1>1, <1>3, <2>1 DEF Paired
    <3> QED BY <3>1
  <2>3. Paired(buf')
    <3>1. 2 \in 1..Len(buf) /\ buf[2].part # "text" /\ 2 + 1 = 3
      BY <1>2, <1>3, <2>2
    <3>2. Paired(SubSeq(buf, 2 + 1, Len(buf)))
      BY <1>2, <2>1, <3>1, CutPaired
    <3> QED BY <1>1, <3>1, <3>2
  <2>4. OnWay \subseteq OnWay' \cup {n}
    <3>1. OnWay' = {x.msg : x \in ToSet(net') \cup ToSet(buf')}
      BY DEF OnWay
    <3>2. buf[1].msg = n /\ buf[2].msg = n
      BY <1>0, <2>2
    <3> QED BY <1>1, <1>5, <3>1, <3>2 DEF OnWay
  <2>5. ASSUME NEW i \in (1..Len(delivered')) \ OnWay' PROVE Settled(i)'
    <3>1. CASE i = n
      BY <1>9, <3>1
    <3>2. CASE i # n
      <4>1. Settled(i)
        BY <1>1, <2>1, <2>4, <2>5, <3>2
      <4> QED BY <1>1, <1>9, <4>1, SettledStays
    <3> QED BY <3>1, <3>2
  <2>6. \A x \in ToSet(buf') : x.part # "whole"
    BY <1>5, <2>1
  <2>7. \A i \in lost' : delivered'[i] = "garbled"
    BY <1>1, <1>9, <2>1
  <2> QED BY <2>3, <2>5, <2>6, <2>7
<1>11. lost' \subseteq 1..Len(delivered')
  BY <1>1, <1>7, <1>9 DEF SeamInv
<1>12. \A x \in ToSet(net') \cup ToSet(buf') : x.part = "whole" <=> delivered'[x.msg] = "keepalive"
  BY <1>1, <1>5 DEF SeamInv
<1>13. seamless' => Paired(net')
  BY <1>1 DEF SeamInv
<1> QED BY <1>1, <1>6, <1>10, <1>11, <1>12, <1>13 DEF SeamInv

\* No step takes a message away.
LEMMA SeamKept ==
    ASSUME StreamInv, HandlingInv, SeamInv, [TrkNext]_trkVars
    PROVE  SeamInv'
<1>1. CASE UNCHANGED trkVars
  <2>1. UNCHANGED <<delivered, net, buf, tpc, handled, replies, answered, lost, seamless>>
    BY <1>1 DEF trkVars
  <2>2. OnWay' = OnWay /\ \A n : Settled(n)' = Settled(n)
    BY <2>1 DEF OnWay, Settled
  <2> QED BY <2>1, <2>2 DEF SeamInv
<1>2. ASSUME NEW k \in Kinds, DeviceSends(k) PROVE SeamInv'
  BY <1>2, SeamSent
<1>3. ASSUME NEW k \in 1..Len(net), socket_read(k) PROVE SeamInv'
  BY <1>3, SeamRead
<1>4. CASE handleKeepAlivePackage
  BY <1>4, SeamAlive
<1>5. CASE chk_connection_notification
  BY <1>5, SeamFrame DEF chk_connection_notification, TrkGoto, SeamInv
<1>6. CASE chk_sendmail \/ chk_actionscript \/ chk_specialhandling
  <2>1. /\ UNCHANGED <<delivered, net, buf, handled, replies, answered, lost, seamless>>
        /\ tpc \in {"mail", "script", "special"} /\ tpc' \in {"script", "special", AfterLine}
    BY <1>6 DEF chk_sendmail, chk_actionscript, chk_specialhandling, TrkGoto
  <2> QED BY <2>1, SeamFrame DEF AfterLine
<1>7. CASE NoEnd \/ LineRest \/ KeepAliveInside
  BY <1>7, SeamDrops
<1>8. CASE NextLine
  BY <1>8, SeamLine
<1> QED BY <1>1, <1>2, <1>3, <1>4, <1>5, <1>6, <1>7, <1>8 DEF TrkNext

\* Nothing has been sent, and nothing lost.
LEMMA SeamInitial ==
    ASSUME TrkInit
    PROVE  SeamInv
<1>1. /\ ToSet(net) = {} /\ ToSet(buf) = {} /\ DOMAIN net = {} /\ DOMAIN buf = {}
      /\ Len(delivered) = 0 /\ lost = {} /\ tpc = "read" /\ buf = <<>>
  BY DEF TrkInit, ToSet
<1>2. Paired(net) /\ Paired(buf) /\ 1..Len(delivered) = {}
  BY <1>1 DEF Paired
<1> QED BY <1>1, <1>2 DEF SeamInv

\* As long as no read cuts a message and keep-alives come alone, every report that left the
\* stream was given to the database, every keep-alive was answered, every answer to a command
\* was taken for one, and only garbled lines were dropped (tracker_clientsrv): however many
\* messages there are, and however many of them come in one read.
THEOREM NothingIsLost == TrkSpec => []SeamlessLosesNothing
<1> DEFINE Inv == StreamInv /\ HandlingInv /\ SeamInv
<1>1. TrkInit => Inv
  BY OrderInitial, SeamInitial
<1>2. Inv /\ [TrkNext]_trkVars => Inv'
  BY OrderKept, SeamKept
<1>3. Inv => SeamlessLosesNothing
  BY DEF SeamInv, SeamlessLosesNothing, Settled, OnWay
<1> QED BY <1>1, <1>2, <1>3, PTL DEF TrkSpec

-----------------------------------------------------------------------------
(* Mails                                                                   *)

\* What recv leaves on the wire was there, or is the rest of an answer.
LEMMA ReceivedLeaves ==
    ASSUME WireInv, NEW r, Recv(r)
    PROVE  /\ wire' \in Seq(SmtpReply)
           /\ \A i \in DOMAIN wire' : wire'[i].status = 0 \/ \E k \in DOMAIN wire : wire'[i] = wire[k]
           /\ Len(wire) = 1 /\ r.form # "part" => wire' = <<>>
<1>1. wire \in Seq(SmtpReply) /\ Len(wire) \in Nat /\ DOMAIN wire = 1..Len(wire) /\ wire # <<>>
  BY LenProperties DEF WireInv, Recv
<1>2. Rest \in SmtpReply /\ Rest.status = 0
  BY DEF Rest, SmtpReply
<1>3. CASE r.form = "part" /\ r # Rest /\ wire' = <<Rest>> \o Tail(wire)
  <2>1. Tail(wire) \in Seq(SmtpReply) /\ <<Rest>> \in Seq(SmtpReply)
    BY <1>1, <1>2, HeadTailProperties
  <2>2. wire' \in Seq(SmtpReply) /\ ToSet(wire') = ToSet(<<Rest>>) \cup ToSet(Tail(wire))
    <3> DEFINE a == <<Rest>>
               b == Tail(wire)
    <3>1. a \in Seq(SmtpReply) /\ b \in Seq(SmtpReply) /\ wire' = a \o b
      BY <1>3, <2>1
    <3> HIDE DEF a, b
    <3>2. a \o b \in Seq(SmtpReply) /\ ToSet(a \o b) = ToSet(a) \cup ToSet(b)
      BY <3>1, RowOfTwo
    <3>3. wire' \in Seq(SmtpReply) /\ ToSet(wire') = ToSet(a) \cup ToSet(b)
      BY <3>1, <3>2
    <3> QED BY <3>3 DEF a, b
  <2>3. ToSet(<<Rest>>) = {Rest}
    BY DEF ToSet
  <2>4. Tail(wire) = SubSeq(wire, 1 + 1, Len(wire)) /\ 1 \in 0..Len(wire)
    BY <1>1, EmptySeq
  <2>5. ToSet(Tail(wire)) \subseteq ToSet(wire)
    <3>1. ToSet(SubSeq(wire, 1 + 1, Len(wire))) \subseteq ToSet(wire)
      BY <1>1, <2>4, CutInTwo
    <3> QED BY <2>4, <3>1
  <2>6. \A i \in DOMAIN wire' : wire'[i] = Rest \/ wire'[i] \in ToSet(wire)
    BY <2>2, <2>3, <2>5, InSet
  <2> QED BY <1>2, <1>3, <2>2, <2>6, InSet
<1>4. ASSUME NEW k \in 1..Len(wire), wire' = SubSeq(wire, k + 1, Len(wire))
      PROVE  /\ wire' \in Seq(SmtpReply)
             /\ \A i \in DOMAIN wire' : \E j \in DOMAIN wire : wire'[i] = wire[j]
             /\ Len(wire) = 1 => wire' = <<>>
  <2>1. k \in 0..Len(wire)
    BY <1>1
  <2>2. wire' \in Seq(SmtpReply) /\ ToSet(SubSeq(wire, k + 1, Len(wire))) \subseteq ToSet(wire)
    BY <1>1, <1>4, <2>1, CutInTwo
  <2>3. Len(wire) = 1 => SubSeq(wire, k + 1, Len(wire)) = <<>>
    BY <1>1, SubSeqEmpty
  <2> QED BY <1>4, <2>2, <2>3, InSet
<1> QED BY <1>3, <1>4 DEF Recv

\* An answer that is the expected one is the answer to the last command.
LEMMA ExpectedIsOwn ==
    ASSUME WireInv, mpc \in {"mail", "rcpt", "data", "dot", "quit"}, waiting, SendChk(mpc, Head(wire))
    PROVE  Granted /\ Len(wire) = 1 /\ Head(wire).form # "part"
<1>1. wire \in Seq(SmtpReply) /\ Len(wire) \in Nat /\ DOMAIN wire = 1..Len(wire) /\ wire # <<>>
  BY LenProperties DEF WireInv
<1>2. Head(wire) = wire[1] /\ 1 \in DOMAIN wire
  BY <1>1, EmptySeq
<1>3. wire[1].status = Good(mpc) /\ wire[1].form = "line"
  BY <1>2 DEF SendChk, _smtp_split_reply
<1>4. Len(wire) = 1
  <2>1. CASE mpc = "mail"
    <3>1. Good(mpc) = 250
      BY <2>1 DEF Good
    <3>2. wire[1].status \notin Stale
      BY <1>3, <3>1 DEF Stale
    <3> QED BY <1>2, <2>1, <3>2 DEF WireInv
  <2> QED BY <2>1 DEF WireInv
<1> QED BY <1>2, <1>3, <1>4 DEF Granted

\* A mail that ends leaves nothing on the wire.
LEMMA MailStops ==
    ASSUME ServerInv, NEW rc, NEW c, StopMail(rc, c), letter' \in Letters, nth' \in Nat
    PROVE  WireInv' /\ ServerInv'
<1>1. wire' = <<>> /\ mpc' = "idle" /\ waiting' = FALSE /\ DOMAIN wire' = {}
  BY DEF StopMail
<1>2. WireInv'
  <2>1. wire' \in Seq(SmtpReply)
    BY <1>1, EmptySeq
  <2> QED BY <1>1, <2>1 DEF WireInv, SmtpReply
<1>3. ServerInv'
  BY <1>1 DEF ServerInv
<1> QED BY <1>2, <1>3

\* The books of a mail that ends: its socket is closed, or left open and counted.
LEMMA MailBooks ==
    ASSUME OutcomeInv, mpc # "idle", UNCHANGED <<letter, srv, body>>, NEW rc \in {0, -1}, NEW c, c # "local",
           rc = 0 => srv.accepted /\ srv.rcpts = letter.rcpts,
           rc # 0 /\ srv.accepted => c \in {"dot", "quit"},
           ~crashed,
           \/ EndMail(rc, c) /\ UNCHANGED refused
           \/ LeaveOpen(rc, c) /\ refused' = refused + 1,
           crashed' \in BOOLEAN, crashed' => c \in {"mail", "rcpt", "data", "dot", "quit"} /\ rc # 0
    PROVE  OutcomeInv'
<1>1. /\ mrc' = rc /\ failedAt' = (IF rc = 0 THEN "none" ELSE c) /\ mpc' = "idle"
      /\ \/ sockets' = sockets - 1 /\ refused' = refused
         \/ sockets' = sockets /\ refused' = refused + 1
  BY DEF EndMail, LeaveOpen, StopMail
<1>2. sockets = refused + 1 /\ sockets \in Int /\ refused \in Int
  BY DEF OutcomeInv, MailIsHonest
<1>3. sockets' \in Int /\ refused' \in Int /\ sockets' = refused' + 0
  BY <1>1, <1>2
<1>4. MailIsHonest'
  BY <1>1, <1>3 DEF MailIsHonest
<1> QED BY <1>1, <1>3, <1>4 DEF OutcomeInv

\* What the server knows after it has answered c.
LEMMA ServerAnswers ==
    ASSUME NEW n \in Nat, NEW r
    PROVE  /\ \A c : r.status # Good(c) => Server(c, r) = srv
           /\ r.status = Good("mail") /\ srv = Knows(FALSE, 0, FALSE, FALSE) =>
                 Server("mail", r) = Knows(TRUE, 0, FALSE, FALSE)
           /\ r.status = Good("rcpt") /\ srv = Knows(TRUE, n, FALSE, FALSE) =>
                 Server("rcpt", r) = Knows(TRUE, n + 1, FALSE, FALSE)
           /\ r.status = Good("data") /\ srv = Knows(TRUE, n, FALSE, FALSE) /\ n > 0 =>
                 Server("data", r) = Knows(TRUE, n, TRUE, FALSE)
           /\ r.status = Good("dot") /\ srv = Knows(TRUE, n, TRUE, FALSE) =>
                 Server("dot", r) = Knows(TRUE, n, TRUE, TRUE)
<1>1. \A c : r.status # Good(c) => Server(c, r) = srv
  BY DEF Server
<1>2. ASSUME r.status = Good("mail"), srv = Knows(FALSE, 0, FALSE, FALSE)
      PROVE  Server("mail", r) = Knows(TRUE, 0, FALSE, FALSE)
  <2>1. Server("mail", r) = [srv EXCEPT !.mail = TRUE]
    BY <1>2 DEF Server
  <2> QED BY <1>2, <2>1 DEF Knows
<1>3. ASSUME r.status = Good("rcpt"), srv = Knows(TRUE, n, FALSE, FALSE)
      PROVE  Server("rcpt", r) = Knows(TRUE, n + 1, FALSE, FALSE)
  <2>1. srv.mail
    BY <1>3 DEF Knows
  <2>2. Server("rcpt", r) = [srv EXCEPT !.rcpts = @ + 1]
    BY <1>3, <2>1 DEF Server
  <2> QED BY <1>3, <2>2 DEF Knows
<1>4. ASSUME r.status = Good("data"), srv = Knows(TRUE, n, FALSE, FALSE), n > 0
      PROVE  Server("data", r) = Knows(TRUE, n, TRUE, FALSE)
  <2>1. Server("data", r) = [srv EXCEPT !.data = srv.rcpts > 0]
    BY <1>4 DEF Server
  <2>2. (srv.rcpts > 0) = TRUE
    BY <1>4 DEF Knows
  <2>3. Server("data", r) = [srv EXCEPT !.data = TRUE]
    BY <2>1, <2>2
  <2> QED BY <1>4, <2>3 DEF Knows
<1>5. ASSUME r.status = Good("dot"), srv = Knows(TRUE, n, TRUE, FALSE)
      PROVE  Server("dot", r) = Knows(TRUE, n, TRUE, TRUE)
  <2>1. Server("dot", r) = [srv EXCEPT !.accepted = srv.data]
    BY <1>5 DEF Server
  <2>2. srv.data = TRUE
    BY <1>5 DEF Knows
  <2> QED BY <1>5, <2>1, <2>2 DEF Knows
<1> QED BY <1>1, <1>2, <1>3, <1>4, <1>5

\* A command is written, and the server does what it answers.
LEMMA MailSends ==
    ASSUME WireInv, ServerInv, OutcomeInv, SmtpSend
    PROVE  WireInv' /\ ServerInv' /\ OutcomeInv'
<1>1. PICK r \in Answers(mpc) : wire' = Append(wire, r) /\ srv' = Server(mpc, r)
  BY DEF SmtpSend
<1>2. /\ mpc \in Commands /\ mpc' = mpc /\ waiting = FALSE /\ waiting' = TRUE
      /\ UNCHANGED <<letter, sockets, caps, body, nth, mrc, mailed, refused, failedAt, crashed>>
  BY DEF SmtpSend, WireInv
<1>3. /\ r \in SmtpReply /\ r.status \in {Good(mpc), 502, 554}
      /\ Good(mpc) = (CASE mpc \in {"ehlo", "mail", "rcpt", "dot"} -> 250
                        [] mpc \in {"auth", "user"} -> 334
                        [] mpc = "secret" -> 235
                        [] mpc = "data" -> 354
                        [] mpc = "quit" -> 221)
  BY <1>1, <1>2 DEF Answers, SmtpReply, Commands, Good
<1>4. /\ wire \in Seq(SmtpReply) /\ wire' \in Seq(SmtpReply) /\ Len(wire) \in Nat
      /\ Len(wire') = Len(wire) + 1 /\ DOMAIN wire' = 1..(Len(wire) + 1) /\ DOMAIN wire = 1..Len(wire)
      /\ (\A i \in 1..Len(wire) : wire'[i] = wire[i]) /\ wire'[Len(wire')] = r
  <2>1. wire \in Seq(SmtpReply)
    BY DEF WireInv
  <2> QED BY <1>1, <1>3, <2>1, AppendedSet
<1>5. WireInv'
  <2>1. wire' # <<>>
    BY <1>4, EmptySeq
  <2>2. mpc \in {"ehlo", "rcpt", "data", "dot", "quit"} => Len(wire') = 1
    BY <1>2, <1>4 DEF WireInv
  <2>3. ASSUME mpc \in {"auth", "user", "secret", "mail"}, NEW i \in DOMAIN wire'
        PROVE  wire'[i].status \in Stale \/ (mpc = "mail" /\ i = Len(wire'))
    <3>1. CASE i \in DOMAIN wire
      BY <1>2, <1>4, <2>3, <3>1 DEF WireInv
    <3>2. CASE i = Len(wire')
      BY <1>3, <1>4, <2>3, <3>2 DEF Stale
    <3> QED BY <1>4, <3>1, <3>2
  <2> QED BY <1>2, <1>4, <2>1, <2>2, <2>3 DEF WireInv, Commands
<1>6. Granted' = (r.status = Good(mpc))
  BY <1>2, <1>4 DEF Granted
<1>7. Granted = FALSE
  BY <1>2 DEF Granted
<1>8. ServerInv'
  <2>1. CASE mpc \in {"ehlo", "auth", "user", "secret", "quit"}
    <3>1. srv' = srv
      BY <1>1, <2>1 DEF Server
    <3> QED BY <1>2, <2>1, <3>1 DEF ServerInv, Knows
  <2>2. CASE mpc = "mail"
    <3>1. srv = Knows(FALSE, 0, FALSE, FALSE)
      BY <1>7, <2>2 DEF ServerInv
    <3>2. CASE r.status = Good(mpc)
      <4>1. srv' = Knows(TRUE, 0, FALSE, FALSE)
        BY <1>1, <2>2, <3>1, <3>2, ServerAnswers
      <4>2. Granted' = TRUE
        BY <1>6, <3>2
      <4> QED BY <1>2, <2>2, <4>1, <4>2 DEF ServerInv, Knows
    <3>3. CASE r.status # Good(mpc)
      <4>1. srv' = Knows(FALSE, 0, FALSE, FALSE)
        BY <1>1, <2>2, <3>1, <3>3, ServerAnswers
      <4>2. Granted' = FALSE
        BY <1>6, <3>3
      <4> QED BY <1>2, <2>2, <4>1, <4>2 DEF ServerInv, Knows
    <3> QED BY <3>2, <3>3
  <2>3. CASE mpc = "rcpt"
    <3>1. srv = Knows(TRUE, nth, FALSE, FALSE)
      BY <1>7, <2>3 DEF ServerInv
    <3>2. CASE r.status = Good(mpc)
      <4>1. srv' = Knows(TRUE, nth + 1, FALSE, FALSE)
        BY <1>1, <2>3, <3>1, <3>2, ServerAnswers DEF ServerInv
      <4>2. Granted' = TRUE
        BY <1>6, <3>2
      <4> QED BY <1>2, <2>3, <4>1, <4>2 DEF ServerInv, Knows
    <3>3. CASE r.status # Good(mpc)
      <4>1. srv' = Knows(TRUE, nth, FALSE, FALSE)
        BY <1>1, <2>3, <3>1, <3>3, ServerAnswers
      <4>2. Granted' = FALSE
        BY <1>6, <3>3
      <4> QED BY <1>2, <2>3, <4>1, <4>2 DEF ServerInv, Knows
    <3> QED BY <3>2, <3>3
  <2>4. CASE mpc = "data"
    <3>0. letter.rcpts \in Nat /\ letter.rcpts > 0
      BY MailAssumption DEF ServerInv, Letters
    <3>1. srv = Knows(TRUE, letter.rcpts, FALSE, FALSE)
      BY <1>7, <2>4 DEF ServerInv
    <3>2. CASE r.status = Good(mpc)
      <4>1. srv' = Knows(TRUE, letter.rcpts, TRUE, FALSE)
        BY <1>1, <2>4, <3>0, <3>1, <3>2, ServerAnswers
      <4>2. Granted' = TRUE
        BY <1>6, <3>2
      <4> QED BY <1>2, <2>4, <4>1, <4>2 DEF ServerInv, Knows
    <3>3. CASE r.status # Good(mpc)
      <4>1. srv' = Knows(TRUE, letter.rcpts, FALSE, FALSE)
        BY <1>1, <2>4, <3>1, <3>3, ServerAnswers
      <4>2. Granted' = FALSE
        BY <1>6, <3>3
      <4> QED BY <1>2, <2>4, <4>1, <4>2 DEF ServerInv, Knows
    <3> QED BY <3>2, <3>3
  <2>5. CASE mpc = "dot"
    <3>0. letter.rcpts \in Nat
      BY MailAssumption DEF ServerInv, Letters
    <3>1. srv = Knows(TRUE, letter.rcpts, TRUE, FALSE)
      BY <1>7, <2>5 DEF ServerInv
    <3>2. CASE r.status = Good(mpc)
      <4>1. srv' = Knows(TRUE, letter.rcpts, TRUE, TRUE)
        BY <1>1, <2>5, <3>0, <3>1, <3>2, ServerAnswers
      <4>2. Granted' = TRUE
        BY <1>6, <3>2
      <4> QED BY <1>2, <2>5, <4>1, <4>2 DEF ServerInv, Knows
    <3>3. CASE r.status # Good(mpc)
      <4>1. srv' = Knows(TRUE, letter.rcpts, TRUE, FALSE)
        BY <1>1, <2>5, <3>1, <3>3, ServerAnswers
      <4>2. Granted' = FALSE
        BY <1>6, <3>3
      <4> QED BY <1>2, <2>5, <4>1, <4>2 DEF ServerInv, Knows
    <3> QED BY <3>2, <3>3
  <2> QED BY <1>2, <2>1, <2>2, <2>3, <2>4, <2>5 DEF Commands
<1>9. OutcomeInv'
  BY <1>2 DEF OutcomeInv, MailIsHonest, Commands
<1> QED BY <1>5, <1>8, <1>9

\* A new mail begins with an empty wire and a server that knows nothing.
LEMMA MailBegins ==
    ASSUME WireInv, ServerInv, OutcomeInv, NEW l \in Letters, NoSmtp \/ _smtp_connect(l)
    PROVE  WireInv' /\ ServerInv' /\ OutcomeInv'
<1>1. mpc = "idle" /\ ~crashed /\ wire = <<>> /\ ~waiting /\ crashed' = crashed /\ sockets = refused
  <2>1. mpc = "idle" /\ ~crashed /\ crashed' = crashed
    BY DEF NoSmtp, _smtp_connect
  <2>2. ~waiting /\ wire = <<>>
    BY <2>1 DEF WireInv, Commands
  <2>3. sockets = refused + 0 /\ sockets \in Int /\ refused \in Int
    BY <2>1 DEF OutcomeInv, MailIsHonest
  <2> QED BY <2>1, <2>2, <2>3
<1>2. CASE NoSmtp
  <2>1. NoLetter \in Letters
    BY MailAssumption DEF NoLetter, Letters, Callers
  <2>2. /\ letter' = NoLetter /\ failedAt' = "local"
        /\ UNCHANGED <<mpc, waiting, wire, sockets, caps, body, nth, refused, crashed>>
    BY <1>2 DEF NoSmtp
  <2>3. WireInv'
    BY <2>2 DEF WireInv
  <2>4. ServerInv'
    BY <1>1, <2>1, <2>2 DEF ServerInv
  <2>5. OutcomeInv'
    BY <1>1, <2>2 DEF OutcomeInv, MailIsHonest
  <2> QED BY <2>3, <2>4, <2>5
<1>3. CASE _smtp_connect(l)
  <2>1. letter' = l /\ srv' = NewServer /\ nth' = 0
    BY <1>3 DEF _smtp_connect
  <2>2. ASSUME StopMail(-1, "greet"), \/ UNCHANGED <<sockets, refused>>
                                      \/ sockets' = sockets + 1 /\ refused' = refused + 1
        PROVE  WireInv' /\ ServerInv' /\ OutcomeInv'
    <3>1. WireInv' /\ ServerInv'
      BY <2>1, <2>2, MailStops
    <3>2. mrc' = -1 /\ failedAt' = "greet" /\ mpc' = "idle"
      BY <2>2 DEF StopMail
    <3>3. sockets' \in Int /\ refused' \in Int /\ sockets' = refused' + 0
      BY <1>1, <2>2 DEF OutcomeInv
    <3>4. OutcomeInv'
      BY <1>1, <2>1, <3>2, <3>3 DEF OutcomeInv, MailIsHonest, NewServer
    <3> QED BY <3>1, <3>4
  <2>3. ASSUME mpc' = "ehlo", sockets' = sockets + 1, UNCHANGED <<waiting, wire, refused>>
        PROVE  WireInv' /\ ServerInv' /\ OutcomeInv'
    <3>1. WireInv'
      BY <1>1, <2>3 DEF WireInv, Commands
    <3>2. ServerInv'
      BY <1>1, <2>1, <2>3 DEF ServerInv
    <3>3. sockets' \in Int /\ refused' \in Int /\ sockets' = refused' + 1
      BY <1>1, <2>3 DEF OutcomeInv
    <3>4. OutcomeInv'
      BY <1>1, <2>3, <3>3 DEF OutcomeInv, MailIsHonest
    <3> QED BY <3>1, <3>2, <3>4
  <2> QED BY <1>3, <2>2, <2>3 DEF _smtp_connect
<1> QED BY <1>2, <1>3

\* Steps of the dialogue that go on to c before MAIL FROM is granted.
LEMMA MailGoesOn ==
    ASSUME WireInv, ServerInv, OutcomeInv, ~crashed, NEW c, MGoto(c), mpc # "idle",
           c \in {"auth", "user", "secret", "compose", "build", "mail"}, nth = 0, srv = NewServer,
           wire' \in Seq(SmtpReply), \A i \in DOMAIN wire' : wire'[i].status \in Stale,
           UNCHANGED <<letter, nth, srv, refused, crashed>>
    PROVE  WireInv' /\ ServerInv' /\ OutcomeInv'
<1>1. mpc' = c /\ waiting' = FALSE /\ UNCHANGED <<mrc, failedAt, sockets>>
  BY DEF MGoto
<1>2. WireInv'
  BY <1>1 DEF WireInv, Commands
<1>3. Granted' = FALSE
  BY <1>1 DEF Granted
<1>4. ServerInv'
  BY <1>1, <1>3 DEF ServerInv, NewServer, Knows
<1>5. OutcomeInv'
  BY <1>1 DEF OutcomeInv, MailIsHonest
<1> QED BY <1>2, <1>4, <1>5

\* A mail that ends at a command keeps the invariant.
LEMMA MailGivesUp ==
    ASSUME WireInv, ServerInv, OutcomeInv, ~crashed, UNCHANGED <<letter, srv, body>>, nth' \in Nat,
           mpc # "idle", NEW c, c # "local",
           srv.accepted => c \in {"dot", "quit"},
           \/ EndMail(-1, c) /\ UNCHANGED refused
           \/ LeaveOpen(-1, c) /\ refused' = refused + 1,
           crashed' \in BOOLEAN, crashed' => c \in {"mail", "rcpt", "data", "dot", "quit"}
    PROVE  WireInv' /\ ServerInv' /\ OutcomeInv'
<1>1. StopMail(-1, c) /\ letter' \in Letters
  BY DEF EndMail, LeaveOpen, ServerInv
<1>2. WireInv' /\ ServerInv'
  BY <1>1, MailStops
<1>3. OutcomeInv'
  BY MailBooks
<1> QED BY <1>2, <1>3

\* Until MAIL FROM the server knows nothing of the mail.
LEMMA BeforeMail ==
    ASSUME WireInv, ServerInv, OutcomeInv,
           mpc \in {"ehlo", "auth", "user", "secret", "compose", "build"}
    PROVE  /\ nth = 0 /\ srv = NewServer /\ ~srv.accepted
           /\ mpc # "ehlo" => wire \in Seq(SmtpReply) /\ \A i \in DOMAIN wire : wire[i].status \in Stale
           /\ mpc # "build" => ~crashed
BY DEF WireInv, ServerInv, OutcomeInv, NewServer

\* EHLO and authentication.
LEMMA MailSetup ==
    ASSUME WireInv, ServerInv, OutcomeInv, EhloAnswer \/ AuthAnswer \/ SecretAnswer
    PROVE  WireInv' /\ ServerInv' /\ OutcomeInv'
<1>1. /\ mpc \in {"ehlo", "auth", "user", "secret"} /\ waiting /\ UNCHANGED <<letter, body, nth, srv, crashed>>
  BY DEF EhloAnswer, AuthAnswer, SecretAnswer, Recv
<1>2. /\ nth = 0 /\ nth \in Nat /\ srv = NewServer /\ ~srv.accepted /\ ~crashed
      /\ mpc # "ehlo" => wire \in Seq(SmtpReply) /\ \A i \in DOMAIN wire : wire[i].status \in Stale
  BY <1>1, BeforeMail
<1>3. ASSUME NEW r, Recv(r), mpc # "ehlo"
      PROVE  wire' \in Seq(SmtpReply) /\ \A i \in DOMAIN wire' : wire'[i].status \in Stale
  <2>1. 0 \in Stale
    BY DEF Stale
  <2> QED BY <1>2, <1>3, <2>1, ReceivedLeaves
<1>4. CASE EhloAnswer
  <2>1. mpc = "ehlo" /\ wire # <<>>
    BY <1>4 DEF EhloAnswer
  <2>2. ASSUME \/ EndMail(-1, "ehlo") /\ UNCHANGED refused
               \/ LeaveOpen(-1, "ehlo") /\ refused' = refused + 1
        PROVE  WireInv' /\ ServerInv' /\ OutcomeInv'
    BY <1>1, <1>2, <2>1, <2>2, MailGivesUp DEF OutcomeInv
  <2>3. ASSUME HasAnswer(Head(wire), 63), Recv(Head(wire)), NEW c \in {"auth", "compose"}, MGoto(c), UNCHANGED refused
        PROVE  WireInv' /\ ServerInv' /\ OutcomeInv'
    <3>1. Head(wire).form # "part" /\ Len(wire) = 1
      BY <1>1, <2>1, <2>3 DEF HasAnswer, _smtp_split_reply, WireInv
    <3>2. wire' = <<>>
      BY <2>3, <3>1, ReceivedLeaves
    <3>3. wire' \in Seq(SmtpReply) /\ DOMAIN wire' = {}
      BY <3>2, EmptySeq
    <3> QED BY <1>1, <1>2, <2>1, <2>3, <3>3, MailGoesOn
  <2>4. \/ EndMail(-1, "ehlo") /\ UNCHANGED refused
        \/ LeaveOpen(-1, "ehlo") /\ refused' = refused + 1
        \/ HasAnswer(Head(wire), 63) /\ Recv(Head(wire)) /\ MGoto("auth") /\ UNCHANGED refused
        \/ HasAnswer(Head(wire), 63) /\ Recv(Head(wire)) /\ MGoto("compose") /\ UNCHANGED refused
    BY <1>4 DEF EhloAnswer
  <2>5. CASE HasAnswer(Head(wire), 63) /\ Recv(Head(wire)) /\ MGoto("auth") /\ UNCHANGED refused
    BY <2>3, <2>5
  <2>6. CASE HasAnswer(Head(wire), 63) /\ Recv(Head(wire)) /\ MGoto("compose") /\ UNCHANGED refused
    BY <2>3, <2>6
  <2>7. CASE EndMail(-1, "ehlo") /\ UNCHANGED refused
    BY <2>2, <2>7
  <2>8. CASE LeaveOpen(-1, "ehlo") /\ refused' = refused + 1
    BY <2>2, <2>8
  <2> QED BY <2>4, <2>5, <2>6, <2>7, <2>8
<1>5. CASE AuthAnswer
  <2> DEFINE Next3(r) == IF ~(HasAnswer(r, 1) /\ r.status = 334) THEN "compose"
                         ELSE IF mpc = "auth" /\ caps = "login" THEN "user" ELSE "secret"
  <2>0. PICK r : Recv(r) /\ MGoto(Next3(r))
    BY <1>5 DEF AuthAnswer
  <2>1. Next3(r) \in {"compose", "user", "secret"}
    OBVIOUS
  <2> HIDE DEF Next3
  <2>2. mpc # "ehlo" /\ mpc # "idle" /\ UNCHANGED refused
    BY <1>5 DEF AuthAnswer
  <2>3. wire' \in Seq(SmtpReply) /\ \A i \in DOMAIN wire' : wire'[i].status \in Stale
    BY <1>3, <2>0, <2>2
  <2> QED BY <1>1, <1>2, <2>0, <2>1, <2>2, <2>3, MailGoesOn
<1>6. CASE SecretAnswer
  <2>1. mpc = "secret"
    BY <1>6 DEF SecretAnswer
  <2>2. CASE LeaveOpen(-1, "secret") /\ refused' = refused + 1
    BY <1>1, <1>2, <2>1, <2>2, MailGivesUp DEF OutcomeInv
  <2>3. ASSUME NEW r, Recv(r), MGoto("compose"), UNCHANGED refused
        PROVE  WireInv' /\ ServerInv' /\ OutcomeInv'
    BY <1>1, <1>2, <1>3, <2>1, <2>3, MailGoesOn
  <2> QED BY <1>6, <2>2, <2>3 DEF SecretAnswer
<1> QED BY <1>4, <1>5, <1>6

\* An answer does not come, and composing.
LEMMA MailComposes ==
    ASSUME WireInv, ServerInv, OutcomeInv, Timeout \/ Compose \/ BuildBody
    PROVE  WireInv' /\ ServerInv' /\ OutcomeInv'
<1>1. ~crashed /\ UNCHANGED <<letter, nth, srv, refused>> /\ nth \in Nat
  BY DEF Timeout, Compose, BuildBody, ServerInv
<1>2. ASSUME mpc \in {"auth", "user", "secret", "compose", "build"}, NEW c \in {"compose", "build", "mail"}, MGoto(c),
             UNCHANGED <<wire, crashed>>
      PROVE  WireInv' /\ ServerInv' /\ OutcomeInv'
  <2>1. /\ nth = 0 /\ srv = NewServer /\ wire \in Seq(SmtpReply) /\ mpc # "idle"
        /\ \A i \in DOMAIN wire : wire[i].status \in Stale
    BY <1>2, BeforeMail
  <2> QED BY <1>1, <1>2, <2>1, MailGoesOn
<1>3. CASE Timeout
  <2>1. UNCHANGED body
    BY <1>3 DEF Timeout
  <2>2. CASE mpc \in {"auth", "user", "secret"} /\ MGoto("compose") /\ UNCHANGED <<wire, crashed>>
    BY <1>2, <2>2
  <2>3. CASE mpc = "ehlo" /\ EndMail(-1, "ehlo") /\ UNCHANGED crashed
    <3>1. ~srv.accepted
      BY <2>3, BeforeMail
    <3> QED BY <1>1, <2>1, <2>3, <3>1, MailGivesUp DEF OutcomeInv
  <2>4. CASE mpc \in {"mail", "rcpt", "data", "dot", "quit"} /\ EndMail(-1, mpc) /\ crashed' \in BOOLEAN
    <3>1. srv.accepted => mpc \in {"dot", "quit"}
      BY <2>4 DEF ServerInv, Knows
    <3> QED BY <1>1, <2>1, <2>4, <3>1, MailGivesUp DEF OutcomeInv
  <2> QED BY <1>3, <2>2, <2>3, <2>4 DEF Timeout
<1>4. CASE Compose
  <2>1. mpc = "compose" /\ UNCHANGED crashed
    BY <1>4 DEF Compose
  <2>2. CASE MGoto("build") /\ UNCHANGED wire
    BY <1>2, <2>1, <2>2
  <2>3. CASE EndMail(-1, "compose") /\ UNCHANGED body
    <3>1. ~srv.accepted
      BY <2>1, BeforeMail
    <3> QED BY <1>1, <2>1, <2>3, <3>1, MailGivesUp DEF OutcomeInv
  <2> QED BY <1>4, <2>2, <2>3 DEF Compose
<1>5. CASE BuildBody
  <2>1. mpc = "build" /\ UNCHANGED body
    BY <1>5 DEF BuildBody
  <2>2. CASE MGoto("mail") /\ UNCHANGED <<wire, crashed>>
    BY <1>2, <2>1, <2>2
  <2>3. CASE CrashingBody(body) /\ crashed' = TRUE /\ UNCHANGED <<mpc, waiting, wire, sockets, mrc, failedAt>>
    <3>1. WireInv'
      BY <2>3 DEF WireInv
    <3>2. ServerInv'
      BY <1>1, <2>1, <2>3 DEF ServerInv
    <3>3. CrashingBody(body)'
      BY <2>1, <2>3 DEF CrashingBody
    <3>4. OutcomeInv'
      BY <1>1, <2>1, <2>3, <3>3 DEF OutcomeInv, MailIsHonest
    <3> QED BY <3>1, <3>2, <3>4
  <2>4. CASE EndMail(-1, "build") /\ UNCHANGED crashed
    <3>1. ~srv.accepted
      BY <2>1, BeforeMail
    <3> QED BY <1>1, <2>1, <2>4, <3>1, MailGivesUp DEF OutcomeInv
  <2> QED BY <1>5, <2>2, <2>3, <2>4 DEF BuildBody
<1> QED BY <1>3, <1>4, <1>5

\* The dialogue of smtp_sendmail.
LEMMA MailDialogue ==
    ASSUME WireInv, ServerInv, OutcomeInv, MailAnswer \/ _senddata
    PROVE  WireInv' /\ ServerInv' /\ OutcomeInv'
<1>1. /\ mpc \in {"mail", "rcpt", "data", "text", "dot", "quit"} /\ ~crashed /\ nth' \in Nat
      /\ UNCHANGED <<letter, srv, body, refused, crashed>> /\ letter.rcpts \in Nat /\ nth \in Nat
  BY MailAssumption DEF MailAnswer, _senddata, ServerInv, Letters
<1>2. srv.accepted => mpc \in {"dot", "quit"}
  BY <1>1 DEF ServerInv, Knows
<1>3. ASSUME EndMail(-1, mpc) PROVE WireInv' /\ ServerInv' /\ OutcomeInv'
  BY <1>1, <1>2, <1>3, MailGivesUp DEF OutcomeInv
<1>4. ASSUME NEW c \in {"rcpt", "data", "text", "dot", "quit"}, MGoto(c), wire' = <<>>
      PROVE  WireInv' /\ OutcomeInv' /\ (Granted' = FALSE) /\ mpc' = c
  <2>1. /\ mpc' = c /\ waiting' = FALSE /\ UNCHANGED <<mrc, failedAt, sockets>> /\ DOMAIN wire' = {}
        /\ wire' \in Seq(SmtpReply)
    BY <1>4, EmptySeq DEF MGoto
  <2>2. WireInv'
    BY <1>4, <2>1 DEF WireInv, Commands
  <2>3. OutcomeInv'
    BY <1>1, <1>4, <2>1 DEF OutcomeInv, MailIsHonest
  <2> QED BY <2>1, <2>2, <2>3 DEF Granted
<1>5. CASE _senddata
  <2>1. mpc = "text" /\ UNCHANGED nth /\ wire = <<>>
    BY <1>5 DEF _senddata, WireInv, Commands
  <2>2. CASE MGoto("dot") /\ UNCHANGED wire
    <3>1. WireInv' /\ OutcomeInv' /\ (Granted' = FALSE) /\ mpc' = "dot"
      BY <1>4, <2>1, <2>2
    <3>2. srv = Knows(TRUE, letter.rcpts, TRUE, FALSE)
      BY <2>1 DEF ServerInv
    <3>3. ServerInv'
      BY <1>1, <2>1, <3>1, <3>2 DEF ServerInv, Knows
    <3> QED BY <3>1, <3>3
  <2>3. CASE EndMail(-1, "text")
    BY <1>3, <2>1, <2>3
  <2> QED BY <1>5, <2>2, <2>3 DEF _senddata
<1>6. CASE MailAnswer
  <2> DEFINE r == Head(wire)
  <2>1. /\ mpc \in {"mail", "rcpt", "data", "dot", "quit"} /\ waiting
        /\ nth' = (IF mpc = "rcpt" THEN nth + 1 ELSE nth)
    BY <1>6 DEF MailAnswer
  <2>2. CASE ~SendChk(mpc, r) /\ EndMail(-1, mpc)
    BY <1>3, <2>2
  <2>3. CASE SendChk(mpc, r) /\ mpc = "quit" /\ EndMail(0, mpc)
    <3>1. srv.accepted /\ srv.rcpts = letter.rcpts
      BY <2>3 DEF ServerInv, Knows
    <3>2. WireInv' /\ ServerInv'
      BY <1>1, <2>3, MailStops DEF EndMail, ServerInv
    <3>3. OutcomeInv'
      BY <1>1, <2>3, <3>1, MailBooks DEF OutcomeInv
    <3> QED BY <3>2, <3>3
  <2>4. CASE SendChk(mpc, r) /\ mpc # "quit" /\ Recv(r) /\ MGoto(NextCommand)
    <3>1. Granted /\ Len(wire) = 1 /\ r.form # "part"
      BY <2>1, <2>4, ExpectedIsOwn
    <3>2. wire' = <<>>
      BY <2>4, <3>1, ReceivedLeaves
    <3>3. CASE mpc = "mail"
      <4>1. NextCommand = "rcpt" /\ nth' = 0 /\ srv = Knows(TRUE, 0, FALSE, FALSE) /\ 0 < letter.rcpts
        BY MailAssumption, <2>1, <3>1, <3>3 DEF NextCommand, ServerInv, Letters, Knows
      <4>2. WireInv' /\ OutcomeInv' /\ (Granted' = FALSE) /\ mpc' = "rcpt"
        BY <1>4, <2>4, <3>2, <4>1
      <4>3. ServerInv'
        BY <1>1, <4>1, <4>2 DEF ServerInv, Knows
      <4> QED BY <4>2, <4>3
    <3>4. CASE mpc = "rcpt"
      <4>1. nth < letter.rcpts /\ srv = Knows(TRUE, nth + 1, FALSE, FALSE) /\ nth' = nth + 1
        BY <2>1, <3>1, <3>4 DEF ServerInv, Knows
      <4>2. NextCommand = (IF nth + 1 < letter.rcpts THEN "rcpt" ELSE "data")
        BY <3>4 DEF NextCommand
      <4>3. CASE nth + 1 < letter.rcpts
        <5>1. WireInv' /\ OutcomeInv' /\ (Granted' = FALSE) /\ mpc' = "rcpt"
          BY <1>4, <2>4, <3>2, <4>2, <4>3
        <5>2. ServerInv'
          BY <1>1, <4>1, <4>3, <5>1 DEF ServerInv, Knows
        <5> QED BY <5>1, <5>2
      <4>4. CASE ~(nth + 1 < letter.rcpts)
        <5>1. WireInv' /\ OutcomeInv' /\ (Granted' = FALSE) /\ mpc' = "data"
          BY <1>4, <2>4, <3>2, <4>2, <4>4
        <5>2. nth + 1 = letter.rcpts
          BY <1>1, <4>1, <4>4
        <5>3. ServerInv'
          BY <1>1, <4>1, <5>1, <5>2 DEF ServerInv, Knows
        <5> QED BY <5>1, <5>3
      <4> QED BY <4>3, <4>4
    <3>5. CASE mpc = "data"
      <4>1. NextCommand = "text" /\ nth' = nth /\ srv = Knows(TRUE, letter.rcpts, TRUE, FALSE)
        BY <2>1, <3>1, <3>5 DEF NextCommand, ServerInv, Knows
      <4>2. WireInv' /\ OutcomeInv' /\ (Granted' = FALSE) /\ mpc' = "text"
        BY <1>4, <2>4, <3>2, <4>1
      <4>3. ServerInv'
        BY <1>1, <4>1, <4>2 DEF ServerInv, Knows
      <4> QED BY <4>2, <4>3
    <3>6. CASE mpc = "dot"
      <4>1. NextCommand = "quit" /\ nth' = nth /\ srv = Knows(TRUE, letter.rcpts, TRUE, TRUE)
        BY <2>1, <3>1, <3>6 DEF NextCommand, ServerInv, Knows
      <4>2. WireInv' /\ OutcomeInv' /\ (Granted' = FALSE) /\ mpc' = "quit"
        BY <1>4, <2>4, <3>2, <4>1
      <4>3. ServerInv'
        BY <1>1, <4>1, <4>2 DEF ServerInv, Knows
      <4> QED BY <4>2, <4>3
    <3> QED BY <2>1, <2>4, <3>3, <3>4, <3>5, <3>6
  <2> QED BY <1>6, <2>2, <2>3, <2>4 DEF MailAnswer
<1> QED BY <1>5, <1>6

\* Every step keeps client and server in agreement.
LEMMA MailKept ==
    ASSUME WireInv, ServerInv, OutcomeInv, [MailNext]_mailVars
    PROVE  WireInv' /\ ServerInv' /\ OutcomeInv'
<1>1. CASE UNCHANGED mailVars
  <2>1. UNCHANGED <<letter, mpc, waiting, wire, sockets, body, nth, srv, mrc, mailed, refused, failedAt, crashed>>
    BY <1>1 DEF mailVars
  <2>2. WireInv'
    BY <2>1 DEF WireInv
  <2>3. ServerInv'
    BY <2>1 DEF ServerInv, Granted
  <2>4. OutcomeInv'
    BY <2>1 DEF OutcomeInv, MailIsHonest, CrashingBody
  <2> QED BY <2>2, <2>3, <2>4
<1>2. CASE NoSmtp
  <2>1. letter \in Letters
    BY DEF ServerInv
  <2> QED BY <1>2, <2>1, MailBegins
<1>3. ASSUME NEW l \in Letters, _smtp_connect(l) PROVE WireInv' /\ ServerInv' /\ OutcomeInv'
  BY <1>3, MailBegins
<1>4. CASE SmtpSend
  BY <1>4, MailSends
<1>5. CASE EhloAnswer \/ AuthAnswer \/ SecretAnswer
  BY <1>5, MailSetup
<1>6. CASE Timeout \/ Compose \/ BuildBody
  BY <1>6, MailComposes
<1>7. CASE MailAnswer \/ _senddata
  BY <1>7, MailDialogue
<1> QED BY <1>1, <1>2, <1>3, <1>4, <1>5, <1>6, <1>7 DEF MailNext

\* No mail has been sent.
LEMMA MailInitial ==
    ASSUME MailInit
    PROVE  WireInv /\ ServerInv /\ OutcomeInv
<1>1. NoLetter \in Letters
  BY MailAssumption DEF NoLetter, Letters, Callers
<1>2. WireInv
  <2>1. wire \in Seq(SmtpReply)
    BY EmptySeq DEF MailInit
  <2> QED BY <2>1 DEF MailInit, WireInv
<1>3. ServerInv
  BY <1>1 DEF MailInit, ServerInv
<1>4. OutcomeInv
  <2>1. ~(mailed > 0) /\ sockets = refused + 0 /\ crashed = FALSE /\ mpc = "idle" /\ sockets = 0 /\ refused = 0
    BY DEF MailInit
  <2>2. MailIsHonest
    BY <2>1 DEF MailIsHonest
  <2>3. sockets \in Int /\ refused \in Int
    BY <2>1
  <2>4. crashed \in BOOLEAN /\ ~crashed
    BY <2>1
  <2> QED BY <2>2, <2>3, <2>4 DEF OutcomeInv
<1> QED BY <1>2, <1>3, <1>4

\* A mail that smtp_sendmail reports as sent was accepted with all its recipients, one that is
\* reported as failed was accepted only if the answer to "." or QUIT went wrong, and sockets are
\* left open by exactly the refused mails, for any number of mails and recipients and however
\* answers are late, cut or run together.
THEOREM MailsAreHonest == MailSpec => []MailIsHonest
<1> DEFINE Inv == WireInv /\ ServerInv /\ OutcomeInv
<1>1. MailInit => Inv
  BY MailInitial
<1>2. Inv /\ [MailNext]_mailVars => Inv'
  BY MailKept
<1>3. Inv => MailIsHonest
  BY DEF OutcomeInv
<1> QED BY <1>1, <1>2, <1>3, PTL DEF MailSpec

\* What the types of the mail's variables need besides: a letter that was composed has no more
\* recipients than fit (smtp_add_rcpt).
MailBounds ==
    /\ caps \in {"none", "plain", "login"}
    /\ body \in [html : BOOLEAN, plain : BOOLEAN, files : 0..1]
    /\ nth \in 0..MaxRcpt /\ mailed \in 0..MaxMails /\ mrc \in {0, -1, -99}
    /\ mpc \in {"build", "mail", "rcpt"} => letter.rcpts <= MaxRcpt

\* Every step keeps these.
LEMMA MailBoundsKept ==
    ASSUME WireInv, ServerInv, MailBounds, [MailNext]_mailVars
    PROVE  MailBounds'
<1> USE MailAssumption
<1>0. letter \in Letters
  BY DEF ServerInv
<1>1. CASE UNCHANGED mailVars
  BY <1>1 DEF mailVars, MailBounds
<1>2. CASE NoSmtp
  <2>1. mrc' \in {0, -1, -99} /\ mailed' = mailed + 1 /\ mailed < MaxMails /\ mpc' = "idle" /\ UNCHANGED <<caps, body, nth>>
    BY <1>2 DEF NoSmtp, send_mail
  <2> QED BY <2>1 DEF MailBounds
<1>3. ASSUME NEW l \in Letters, _smtp_connect(l) PROVE MailBounds'
  <2>1. /\ mailed' = mailed + 1 /\ mailed < MaxMails /\ body' = NoBody /\ nth' = 0 /\ UNCHANGED caps
        /\ mpc' \in {"idle", "ehlo"} /\ mrc' \in {mrc, -1}
    BY <1>3 DEF _smtp_connect, StopMail
  <2> QED BY <2>1 DEF MailBounds, NoBody
<1>4. CASE SmtpSend
  BY <1>4 DEF SmtpSend, MailBounds
<1>5. CASE EhloAnswer
  <2>1. /\ caps' \in {caps, "none", "plain", "login"} /\ mrc' \in {mrc, -1} /\ mpc' \in {"idle", "auth", "compose"}
        /\ UNCHANGED <<body, nth, mailed, letter>>
    BY <1>5 DEF EhloAnswer, EndMail, LeaveOpen, StopMail, MGoto
  <2> QED BY <2>1 DEF MailBounds
<1>6. CASE AuthAnswer \/ SecretAnswer \/ Timeout
  <2>1. /\ mpc' \in {"idle", "user", "secret", "compose"} /\ mrc' \in {mrc, -1}
        /\ UNCHANGED <<caps, body, nth, mailed, letter>>
    BY <1>6 DEF AuthAnswer, SecretAnswer, Timeout, EndMail, LeaveOpen, StopMail, MGoto
  <2> QED BY <2>1 DEF MailBounds
<1>7. CASE Compose
  <2>1. CASE Composed
    <3>1. /\ mpc' \in {"build", "idle"} /\ mrc' \in {mrc, -1} /\ UNCHANGED <<caps, nth, mailed, letter>>
          /\ body' = body \/ body' = [html |-> HtmlAdded, plain |-> HtmlAdded /\ letter.plain,
                files |-> IF FileAdded /\ letter.caller # "sendmail_helper" THEN 1 ELSE 0]
      BY <1>7 DEF Compose, EndMail, StopMail, MGoto
    <3>2. letter.html \in BOOLEAN /\ letter.plain \in BOOLEAN
      BY <1>0 DEF Letters
    <3>3. body' \in [html : BOOLEAN, plain : BOOLEAN, files : 0..1]
      BY <3>1, <3>2 DEF MailBounds, HtmlAdded
    <3>4. letter.rcpts <= MaxRcpt
      BY <2>1 DEF Composed, send_mail_template, sendmail_helper, sendmail_binattach_helper, RcptsAdded
    <3> QED BY <3>1, <3>3, <3>4 DEF MailBounds
  <2>2. CASE ~Composed
    <3>1. mpc' = "idle" /\ mrc' = -1 /\ UNCHANGED <<caps, body, nth, mailed, letter>>
      BY <1>7, <2>2 DEF Compose, EndMail, StopMail
    <3> QED BY <3>1 DEF MailBounds
  <2> QED BY <2>1, <2>2
<1>8. CASE BuildBody
  <2>1. /\ mpc = "build" /\ mpc' \in {"mail", "build", "idle"} /\ mrc' \in {mrc, -1}
        /\ UNCHANGED <<caps, body, nth, mailed, letter>>
    BY <1>8 DEF BuildBody, EndMail, StopMail, MGoto
  <2> QED BY <2>1 DEF MailBounds
<1>9. CASE MailAnswer
  <2>1. /\ mpc' \in {"idle", NextCommand} /\ mrc' \in {mrc, 0, -1} /\ UNCHANGED <<caps, body, mailed, letter>>
        /\ nth' = IF mpc = "rcpt" THEN nth + 1 ELSE nth
    BY <1>9 DEF MailAnswer, EndMail, StopMail, MGoto
  <2>2. mpc' \in {"build", "mail", "rcpt"} => mpc \in {"mail", "rcpt"}
    BY <2>1 DEF NextCommand
  <2>3. nth' \in 0..MaxRcpt
    <3>1. letter.rcpts \in Nat
      BY <1>0 DEF Letters
    <3>2. nth \in 0..MaxRcpt /\ (mpc = "rcpt" => nth < letter.rcpts /\ letter.rcpts <= MaxRcpt)
      BY DEF MailBounds, ServerInv
    <3>3. CASE mpc = "rcpt"
      BY ONLY <2>1, <3>1, <3>2, <3>3, MailAssumption
    <3>4. CASE mpc # "rcpt"
      BY <2>1, <3>2, <3>4
    <3> QED BY <3>3, <3>4
  <2> QED BY <2>1, <2>2, <2>3 DEF MailBounds
<1>10. CASE _senddata
  <2>1. mpc' \in {"dot", "idle"} /\ mrc' \in {mrc, -1} /\ UNCHANGED <<caps, body, nth, mailed, letter>>
    BY <1>10 DEF _senddata, EndMail, StopMail, MGoto
  <2> QED BY <2>1 DEF MailBounds
<1> QED BY <1>1, <1>2, <1>3, <1>4, <1>5, <1>6, <1>7, <1>8, <1>9, <1>10 DEF MailNext

\* Every variable of a mail keeps its type; in particular no more recipients are told to the
\* server than a letter has room for (smtp_add_rcpt, smtp_sendmail).
THEOREM MailTypes == MailSpec => []MailTypeOK
<1> DEFINE MailInv == WireInv /\ ServerInv /\ OutcomeInv /\ MailBounds
<1>1. MailInit => MailInv
  <2> SUFFICES ASSUME MailInit PROVE MailBounds
    BY MailInitial
  <2> QED BY MailAssumption DEF MailInit, MailBounds, NoBody
<1>2. MailInv /\ [MailNext]_mailVars => MailInv'
  BY MailKept, MailBoundsKept
<1>3. MailInv => MailTypeOK
  <2> SUFFICES ASSUME WireInv, ServerInv, OutcomeInv, MailBounds PROVE MailTypeOK
    OBVIOUS
  <2>1. mpc \in {"idle", "ehlo", "auth", "user", "secret", "compose", "build", "mail", "rcpt", "data",
                 "text", "dot", "quit"}
    BY DEF WireInv, Commands
  <2> QED BY <2>1 DEF WireInv, ServerInv, OutcomeInv, MailBounds, MailTypeOK
<1> QED BY <1>1, <1>2, <1>3, PTL DEF MailSpec

-----------------------------------------------------------------------------
(* The log: the file is whole, whatever cancellation does                  *)

LogMessages == [n : Nat, priority : Priorities]
LogLines == [thread : LogThreads, n : Nat]

\* The variables that the argument needs have their types.
LogTypes ==
    /\ LogTypeOK
    /\ msg \in [LogThreads -> LogMessages]
    /\ log \in Seq(LogLines) /\ logged \in Seq(LogLines) /\ returned \subseteq LogLines

Inside == {"open", "write", "unlock"}

\* The mutex belongs to the thread that is inside, and nobody is cancelled on the way out.
Holding ==
    /\ \A t \in LogThreads : lpc[t] \in Inside <=> logger_mutex = t
    /\ \A t \in gone : lpc[t] \in {"idle", "open", "write"}

\* The file lacks the line of a thread that has not written yet, and nothing else.
InOrder ==
    /\ \A t \in LogThreads : lpc[t] \in {"open", "write"} => logged = Append(log, Line(t))
    /\ (\A t \in LogThreads : lpc[t] \notin {"open", "write"}) => logged = log

\* A call that is about to return, or has returned, is in the file.
LinesKept ==
    /\ returned \subseteq ToSet(log)
    /\ \A t \in LogThreads : lpc[t] = "unlock" /\ Loud(msg[t].priority) => Line(t) \in ToSet(log)

\* The inductive invariant: the order of the file is the order of the mutex only because the
\* holder is the one thread that can write.
LogInv == LogTypes /\ Holding /\ InOrder /\ LinesKept

\* What is in a file stays in it when a line is added, and the line is in it.
LEMMA AppendKeeps ==
    ASSUME NEW s \in Seq(LogLines), NEW x \in LogLines
    PROVE  ToSet(s) \subseteq ToSet(Append(s, x)) /\ x \in ToSet(Append(s, x))
<1>1. Len(Append(s, x)) = Len(s) + 1 /\ Append(s, x)[Len(s) + 1] = x /\ Len(s) \in Nat
  OBVIOUS
<1>2. \A i \in 1..Len(s) : Append(s, x)[i] = s[i]
  OBVIOUS
<1>3. DOMAIN s = 1..Len(s) /\ DOMAIN Append(s, x) = 1..(Len(s) + 1)
  BY <1>1
<1> QED BY <1>1, <1>2, <1>3 DEF ToSet

\* Without its last line a file is the file before.
LEMMA FrontOfAppend ==
    ASSUME NEW s \in Seq(LogLines), NEW x \in LogLines
    PROVE  SubSeq(Append(s, x), 1, Len(Append(s, x)) - 1) = s
OBVIOUS

\* A line has its type.
LEMMA LineType == ASSUME LogTypes, NEW t \in LogThreads PROVE Line(t) \in LogLines
BY DEF LogTypes, Line, LogLines, LogMessages

\* The invariant holds at the start.
LEMMA LogInitial == LogInit => LogInv
<1> SUFFICES ASSUME LogInit PROVE LogInv
  OBVIOUS
<1>1. writable \in BOOLEAN /\ exited \in BOOLEAN
  BY Zenon DEF LogInit
<1>2. msg \in [LogThreads -> LogMessages]
  BY DEF LogInit, LogMessages, Priorities
<1>3. LogTypes
  BY <1>1, <1>2 DEF LogInit, LogTypes, LogTypeOK
<1>4. Holding
  BY LogAssumption DEF LogInit, Holding, Inside
<1>5. InOrder /\ LinesKept
  BY DEF LogInit, InOrder, LinesKept
<1> QED BY <1>3, <1>4, <1>5 DEF LogInv

\* Every step keeps the types.
LEMMA LogTypesKept == LogInv /\ [LogNext]_logVars => LogTypes'
<1> SUFFICES ASSUME LogInv, [LogNext]_logVars PROVE LogTypes'
  OBVIOUS
<1>0. LogTypes
  BY DEF LogInv
<1> USE <1>0 DEF LogTypes, LogTypeOK, LogGoto
<1>1. ASSUME NEW t \in LogThreads, NEW p \in Priorities, logmsg(t, p) PROVE LogTypes'
  <2>1. msg' \in [LogThreads -> LogMessages]
    BY <1>1 DEF logmsg, LogMessages
  <2> QED BY <1>1, <2>1 DEF logmsg
<1>2. ASSUME NEW t \in LogThreads, Lock(t) PROVE LogTypes'
  <2>1. logged' \in Seq(LogLines)
    BY <1>2, LineType DEF Lock
  <2>2. lpc' \in [LogThreads -> {"idle", "lock", "open", "write", "unlock"}]
    BY <1>2 DEF Lock
  <2> QED BY <1>2, <2>1, <2>2 DEF Lock
<1>3. ASSUME NEW t \in LogThreads, OpenLog(t) PROVE LogTypes'
  <2>1. exited' \in BOOLEAN
    BY <1>3, Zenon DEF OpenLog
  <2>2. lpc' \in [LogThreads -> {"idle", "lock", "open", "write", "unlock"}]
    BY <1>3 DEF OpenLog
  <2> QED BY <1>3, <2>1, <2>2 DEF OpenLog
<1>4. ASSUME NEW t \in LogThreads, WriteLog(t) PROVE LogTypes'
  BY <1>4, LineType DEF WriteLog
<1>5. ASSUME NEW t \in LogThreads, Unlock(t) PROVE LogTypes'
  <2>1. returned' \subseteq LogLines
    BY <1>5, LineType DEF Unlock
  <2> QED BY <1>5, <2>1 DEF Unlock
<1>6. ASSUME NEW t \in LogThreads, Cancel(t) PROVE LogTypes'
  BY <1>6 DEF Cancel
<1>7. CASE LoseLogFile
  <2>1. writable' \in BOOLEAN
    BY <1>7, Zenon DEF LoseLogFile
  <2> QED BY <1>7, <2>1 DEF LoseLogFile
<1>8. CASE UNCHANGED logVars
  BY <1>8 DEF logVars
<1> QED BY <1>1, <1>2, <1>3, <1>4, <1>5, <1>6, <1>7, <1>8 DEF LogNext

\* A step outside of the mutex and of the file keeps everything that is said of them.
LEMMA LogQuiet ==
    ASSUME LogInv, NEW t \in LogThreads, lpc[t] \in {"idle", "lock"},
           \E l \in {"idle", "lock"} : lpc' = [lpc EXCEPT ![t] = l],
           \A u \in LogThreads \ {t} : msg'[u] = msg[u],
           UNCHANGED <<logger_mutex, log, logged, returned, gone>>, t \notin gone
    PROVE  Holding' /\ InOrder' /\ LinesKept'
<1> USE DEF LogInv, LogTypes, LogTypeOK
<1>1. /\ lpc'[t] \in {"idle", "lock"}
      /\ \A u \in LogThreads \ {t} : lpc'[u] = lpc[u] /\ Line(u)' = Line(u)
  BY DEF Line
<1>2. Holding'
  BY <1>1 DEF Holding, Inside
<1>3. InOrder'
  BY <1>1 DEF InOrder
<1>4. LinesKept'
  BY <1>1 DEF LinesKept, Loud
<1> QED BY <1>2, <1>3, <1>4

\* Every step keeps the rest of the invariant.
LEMMA LogInvKept == LogInv /\ [LogNext]_logVars => (Holding' /\ InOrder' /\ LinesKept')
<1> SUFFICES ASSUME LogInv, [LogNext]_logVars PROVE Holding' /\ InOrder' /\ LinesKept'
  OBVIOUS
<1>0. LogTypes /\ Holding /\ InOrder /\ LinesKept
  BY DEF LogInv
<1> USE LogAssumption
<1>1. ASSUME NEW t \in LogThreads, NEW p \in Priorities, logmsg(t, p) PROVE Holding' /\ InOrder' /\ LinesKept'
  BY <1>1, <1>0, LogQuiet DEF logmsg, LogGoto, LogTypes, LogTypeOK
<1>2. ASSUME NEW t \in LogThreads, Lock(t) PROVE Holding' /\ InOrder' /\ LinesKept'
  <2>1. \A u \in LogThreads : lpc[u] \notin Inside /\ Line(u)' = Line(u)
    BY <1>2, <1>0 DEF Lock, Holding, Line
  <2>2. /\ \A u \in LogThreads \ {t} : lpc'[u] = lpc[u]
        /\ lpc'[t] = IF Loud(msg[t].priority) THEN "open" ELSE "unlock"
    BY <1>2, <1>0 DEF Lock, LogGoto, LogTypes, LogTypeOK
  <2>3. Holding'
    BY <1>2, <1>0, <2>1, <2>2 DEF Lock, Holding, Inside, LogTypes, LogTypeOK
  <2>4. logged = log
    BY <2>1, <1>0 DEF InOrder, Inside
  <2>5. InOrder'
    BY <1>2, <2>1, <2>2, <2>4 DEF Lock, InOrder, Inside
  <2>6. LinesKept'
    BY <1>2, <1>0, <2>1, <2>2 DEF Lock, LinesKept, Loud, Inside
  <2> QED BY <2>3, <2>5, <2>6
<1>3. ASSUME NEW t \in LogThreads, OpenLog(t) PROVE Holding' /\ InOrder' /\ LinesKept'
  <2>1. /\ lpc'[t] \in {"open", "write"}
        /\ \A u \in LogThreads \ {t} : lpc'[u] = lpc[u]
        /\ \A u \in LogThreads : Line(u)' = Line(u)
    BY <1>3, <1>0 DEF OpenLog, LogGoto, LogTypes, LogTypeOK, Line
  <2>2. Holding'
    BY <1>3, <1>0, <2>1 DEF OpenLog, Holding, Inside, LogTypes, LogTypeOK
  <2>3. InOrder'
    BY <1>3, <1>0, <2>1 DEF OpenLog, InOrder
  <2>4. LinesKept'
    BY <1>3, <1>0, <2>1 DEF OpenLog, LinesKept, Loud
  <2> QED BY <2>2, <2>3, <2>4
<1>4. ASSUME NEW t \in LogThreads, WriteLog(t) PROVE Holding' /\ InOrder' /\ LinesKept'
  <2>1. /\ lpc'[t] = "unlock"
        /\ \A u \in LogThreads \ {t} : lpc'[u] = lpc[u]
        /\ \A u \in LogThreads : Line(u)' = Line(u)
    BY <1>4, <1>0 DEF WriteLog, LogGoto, LogTypes, LogTypeOK, Line
  <2>2. \A u \in LogThreads \ {t} : lpc[u] \notin Inside
    BY <1>4, <1>0 DEF WriteLog, Holding, Inside
  <2>3. Holding'
    BY <1>4, <1>0, <2>1 DEF WriteLog, Holding, Inside, LogTypes, LogTypeOK
  <2>4. log' = Append(log, Line(t)) /\ logged' = logged /\ logged = Append(log, Line(t))
    BY <1>4, <1>0 DEF WriteLog, InOrder
  <2>5. InOrder'
    BY <2>1, <2>2, <2>4 DEF InOrder, Inside
  <2>6. ToSet(log) \subseteq ToSet(log') /\ Line(t) \in ToSet(log')
    BY <1>0, <2>4, LineType, AppendKeeps DEF LogTypes
  <2>7. LinesKept'
    BY <1>4, <1>0, <2>1, <2>2, <2>6 DEF WriteLog, LinesKept, Loud, Inside
  <2> QED BY <2>3, <2>5, <2>7
<1>5. ASSUME NEW t \in LogThreads, Unlock(t) PROVE Holding' /\ InOrder' /\ LinesKept'
  <2>1. /\ lpc'[t] = "idle"
        /\ \A u \in LogThreads \ {t} : lpc'[u] = lpc[u]
        /\ \A u \in LogThreads : Line(u)' = Line(u)
    BY <1>5, <1>0 DEF Unlock, LogGoto, LogTypes, LogTypeOK, Line
  <2>2. \A u \in LogThreads \ {t} : lpc[u] \notin Inside
    BY <1>5, <1>0 DEF Unlock, Holding, Inside
  <2>3. Holding'
    BY <1>5, <1>0, <2>1, <2>2 DEF Unlock, Holding, Inside, LogTypes, LogTypeOK
  <2>4. InOrder'
    BY <1>5, <1>0, <2>1, <2>2 DEF Unlock, InOrder, Inside
  <2>5. LinesKept'
    BY <1>5, <1>0, <2>1, <2>2 DEF Unlock, LinesKept, Loud, Inside
  <2> QED BY <2>3, <2>4, <2>5
<1>6. ASSUME NEW t \in LogThreads, Cancel(t) PROVE Holding' /\ InOrder' /\ LinesKept'
  BY <1>6, <1>0 DEF Cancel, Holding, InOrder, LinesKept, Loud, Line, Inside
<1>7. CASE LoseLogFile
  BY <1>7, <1>0 DEF LoseLogFile, Holding, InOrder, LinesKept, Loud, Line, Inside
<1>8. CASE UNCHANGED logVars
  BY <1>8, <1>0 DEF logVars, Holding, InOrder, LinesKept, Loud, Line, Inside
<1> QED BY <1>1, <1>2, <1>3, <1>4, <1>5, <1>6, <1>7, <1>8 DEF LogNext

\* What the invariant says of the file, in the words of the property.
LEMMA LogInvWhole == LogInv => LogIsWhole
<1> SUFFICES ASSUME LogInv PROVE LogIsWhole
  OBVIOUS
<1> USE LogAssumption DEF LogInv
<1>1. CASE \A t \in LogThreads : lpc[t] \notin {"open", "write"}
  <2>1. logged = log
    BY <1>1 DEF InOrder
  <2>2. logger_mutex \notin gone
    BY <1>1 DEF Holding, LogTypes, LogTypeOK, Inside
  <2> QED BY <2>1, <2>2 DEF LogIsWhole, LinesKept, LogTypes
<1>2. ASSUME NEW t \in LogThreads, lpc[t] \in {"open", "write"} PROVE LogIsWhole
  <2>1. logged = Append(log, Line(t)) /\ logger_mutex = t
    BY <1>2 DEF InOrder, Holding, Inside
  <2>2. log = SubSeq(logged, 1, Len(logged) - 1)
    BY <2>1, LineType, FrontOfAppend DEF LogTypes
  <2> QED BY <1>2, <2>1, <2>2 DEF LogIsWhole, LinesKept
<1> QED BY <1>1, <1>2

\* Every variable of the logger keeps its type (logger.c).
THEOREM LogTypeCorrect == LogSpec => []LogTypeOK
<1>1. LogInv /\ [LogNext]_logVars => LogInv'
  BY LogTypesKept, LogInvKept DEF LogInv
<1>2. LogInv => LogTypeOK
  BY DEF LogInv, LogTypes
<1> QED BY LogInitial, <1>1, <1>2, PTL DEF LogSpec

\* The log file has every message whose call returned, in the order of the mutex, and a mutex
\* that is never released belongs to a thread cancelled in the middle of logmsg.
THEOREM LogWhole == LogSpec => []LogIsWhole
<1>1. LogInv /\ [LogNext]_logVars => LogInv'
  BY LogTypesKept, LogInvKept DEF LogInv
<1> QED BY LogInitial, <1>1, LogInvWhole, PTL DEF LogSpec

-----------------------------------------------------------------------------
(* The report of a device                                                  *)

\* A model of a device: which fields are there, what is known of its events, and whose report the
\* values come from.
RepModels == [flds : SUBSET RepFields, events : [RepEvents -> {"none", "set", "empty"}], who : SUBSET RepThreads]

\* The same as an array,
RepArrayRecords ==
    [live : BOOLEAN, flds : SUBSET RepFields, events : [RepEvents -> {"none", "set", "empty"}],
     who : SUBSET RepThreads]

\* as a document,
RepDocs == [live : BOOLEAN, flds : SUBSET RepCells, events : SUBSET RepEvents, who : SUBSET RepThreads,
            start : SUBSET RepThreads]

\* and what a thread does.
RepStates == [pc : {"idle", "init", "query", "events", "layout", "save"}, pos : Nat, file : BOOLEAN,
              gfevt : BOOLEAN, met : BOOLEAN]

\* Reports that have their array.
RepPast == {t \in RepThreads : rep[t].pc \notin {"idle", "init"}}

\* The types of the variables.
RepTypes ==
    /\ rep \in [RepThreads -> RepStates]
    /\ repArrays \in Seq(RepArrayRecords)
    /\ device_info \in 0..Len(repArrays)
    /\ _g7report_env \in SUBSET RepThreads
    /\ pdf_doc \in RepDocs
    /\ repStart \in SUBSET RepThreads
    /\ repSaved \in SUBSET RepModels
    /\ repGot \in [RepThreads -> RepModels]
    /\ repOut \in [RepThreads -> [rc : {"none", "failed", "written"}, pdf : RepDocs, json : RepModels]]
    /\ repCount \in Nat /\ repOdd \in Nat /\ repErrors \in Nat
    /\ repMeeting \in BOOLEAN /\ repWild \in BOOLEAN

\* Where a report is determines its next command or event, and who may have the environment.
RepPlaces ==
    /\ \A t \in RepThreads :
          /\ rep[t].pc = "query" => rep[t].pos \in DOMAIN dev_report_cmd_list
          /\ rep[t].pc = "events" => rep[t].pos \in RepEvents
          /\ rep[t].pc # "idle" => repOut[t].rc = "none"
          /\ rep[t].pc = "init" => repGot[t] = NoModel
          /\ t \in RepPast => device_info # 0
    /\ _g7report_env = {} \/ \E t \in RepThreads : _g7report_env = {t}

\* No more arrays and errors than reports.
RepBounds ==
    /\ repCount <= MaxReports /\ repOdd <= MaxOdd
    /\ IsFiniteSet(Reporting)
    /\ repErrors + Cardinality(Reporting) <= repCount
    /\ Len(repArrays) + Cardinality({t \in RepThreads : rep[t].pc = "init"}) <= repCount

\* What the globals hold is what report t was told.
RepMine(t) ==
    /\ repArrays[device_info] = AsArray(repGot[t])
    /\ _g7report_env = {t}
    /\ rep[t].pc = "save" =>
          /\ pdf_doc.live
          /\ pdf_doc.flds = repGot[t].flds \cap RepCells
          /\ pdf_doc.events = (IF rep[t].gfevt THEN EventTables(repGot[t]) ELSE {})
          /\ pdf_doc.who = repGot[t].who
          /\ "logged_dates" \in repGot[t].flds => pdf_doc.start = repGot[t].who

\* A report that no other one met is alone, and the globals are its own.
RepAlone ==
    \A t \in Reporting : ~rep[t].met => Reporting = {t} /\ (rep[t].pc # "init" => RepMine(t))

\* A report that was written and met no other one shows what it was told.
RepOwnOf(t) ==
    repOut[t].rc = "written" /\ ~rep[t].met =>
        /\ repOut[t].pdf.flds = repGot[t].flds \ NeverShown
        /\ repOut[t].pdf.events = (IF rep[t].gfevt THEN EventTables(repGot[t]) ELSE {})
        /\ repOut[t].pdf.who = repGot[t].who
        /\ "logged_dates" \in repGot[t].flds => repOut[t].pdf.start = repGot[t].who
        /\ repOut[t].json \in {repGot[t], NoModel}

\* All of them.
RepOwn == \A t \in RepThreads : RepOwnOf(t)

\* Arrays in memory.
RepLiveArrays == {i \in DOMAIN repArrays : repArrays[i].live}

\* As long as no two reports meet, every array is in use or was left by an error.
RepUnmet ==
    /\ \A t \in Reporting : rep[t].met => repMeeting
    /\ ~repMeeting =>
          /\ ~repWild
          /\ Cardinality(RepLiveArrays) = repErrors + Cardinality(RepPast)

\* The inductive invariant of the reports: the globals belong to the one report that is alone.
RepInv == RepTypes /\ RepPlaces /\ RepBounds /\ RepAlone /\ RepOwn /\ RepUnmet

\* The table of commands is a sequence, and what its entries name are fields of a report.
LEMMA RepTable ==
    /\ DOMAIN dev_report_cmd_list = 1..21 /\ Len(dev_report_cmd_list) = 21
    /\ \A i \in 1..21 : dev_report_cmd_list[i].fld_names \subseteq RepFields
<1>1. DOMAIN dev_report_cmd_list = 1..21 /\ Len(dev_report_cmd_list) = 21
  BY DEF dev_report_cmd_list
<1>2. ASSUME NEW i \in 1..21
      PROVE  dev_report_cmd_list[i].fld_names \subseteq RepFields
  BY <1>1 DEF RepFields
<1> QED BY <1>1, <1>2

\* What was never shown is in no cell, and every other field is in one.
LEMMA RepShown == RepFields \cap RepCells = RepFields \ NeverShown
<1>1. RepCells \cap NeverShown = {}
  BY DEF RepCells, NeverShown, _tbl_device, _tbl_VIP, _tbl_GSM, _tbl_GPRS, _tbl_POWER, _tbl_llog, _tbl_ltrack, _tbl_LOGGED, _tbl_gfence,
     cb_DEVICE, cb_VIP_no, cb_SIM, cb_POWER, cb_POWER_TIMER, cb_BATTERY, cb_GSM, cb_GPRS, cb_LLOG, cb_LTRACK, cb_GFENCE, cb_LOGGED
<1>2. /\ {"device_id", "device_pwd", "sw_ver", "tz_sign", "tz_h", "tz_m", "led", "mswitch_action", "mswitch_vip",
          "gsens", "test_result", "lowbatt_report", "lowbatt_vip", "test_batt"} \subseteq UNION _tbl_device
      /\ {"vip1", "vip2", "vip3", "vip5"} \subseteq UNION _tbl_VIP
  <2>1. /\ cb_VIP_no(0) = {"vip1"} /\ cb_VIP_no(1) = {"vip2"} /\ cb_VIP_no(3) = {"vip3"} /\ cb_VIP_no(4) = {"vip5"}
    BY DEF cb_VIP_no
  <2>2. cb_VIP_no(0) \in _tbl_VIP /\ cb_VIP_no(1) \in _tbl_VIP /\ cb_VIP_no(3) \in _tbl_VIP /\ cb_VIP_no(4) \in _tbl_VIP
    BY DEF _tbl_VIP
  <2>3. {"vip1", "vip2", "vip3", "vip5"} \subseteq UNION _tbl_VIP
    BY <2>1, <2>2
  <2> QED BY <2>3 DEF _tbl_device, cb_DEVICE, cb_BATTERY
<1>3. /\ {"comm_select", "sms_mode", "sms_base", "csd_base", "vloc_stat", "vloc_vip", "imei", "sim_id", "sim_pin"}
            \subseteq UNION _tbl_GSM
      /\ {"gprs_apn", "server_ip", "server_port", "gprs_user", "gprs_pwd", "gprs_dns", "gprs_keep_alive"}
            \subseteq UNION _tbl_GPRS
  BY DEF _tbl_GSM, _tbl_GPRS, cb_GSM, cb_GPRS, cb_SIM
<1>4. {"ps_mode", "ps_interval", "sleep_action", "ps_wakup_action", "ps_vip", "ps_timer2", "ps_timer3"}
         \subseteq UNION _tbl_POWER
  <2>1. cb_POWER_TIMER(1) = {"ps_timer2"} /\ cb_POWER_TIMER(2) = {"ps_timer3"}
    BY DEF cb_POWER_TIMER
  <2>2. cb_POWER_TIMER(1) \in _tbl_POWER /\ cb_POWER_TIMER(2) \in _tbl_POWER
    BY DEF _tbl_POWER
  <2>3. {cb_POWER.MODE, cb_POWER.WAKEUP, cb_POWER.INTERVAL, cb_POWER.SLEEP} \subseteq _tbl_POWER
    BY DEF _tbl_POWER
  <2>4. /\ cb_POWER.MODE = {"ps_mode"} /\ cb_POWER.INTERVAL = {"ps_interval"} /\ cb_POWER.SLEEP = {"sleep_action"}
        /\ cb_POWER.WAKEUP = {"ps_wakup_action", "ps_vip"}
    BY DEF cb_POWER
  <2> QED BY <2>1, <2>2, <2>3, <2>4
<1>5. /\ {"rec_mode", "rec_timer", "rec_dist", "rec_number", "rec_heading", "rec_gps_fix"} \subseteq UNION _tbl_llog
      /\ {"track_mode", "track_commselect", "track_time", "track_dist", "track_num", "track_heading", "track_gps_fix"}
            \subseteq UNION _tbl_ltrack
      /\ {"logged_num", "logged_dates"} \subseteq UNION _tbl_LOGGED
      /\ {"gfen_status", "gfen_radius", "gfen_zone", "gfen_action", "gfen_vip"} \subseteq UNION _tbl_gfence
  BY DEF _tbl_llog, _tbl_ltrack, _tbl_LOGGED, _tbl_gfence, cb_LLOG, cb_LTRACK, cb_LOGGED, cb_GFENCE
<1>6. /\ UNION _tbl_device \subseteq RepCells /\ UNION _tbl_VIP \subseteq RepCells /\ UNION _tbl_GSM \subseteq RepCells
      /\ UNION _tbl_GPRS \subseteq RepCells /\ UNION _tbl_POWER \subseteq RepCells
      /\ UNION _tbl_llog \subseteq RepCells /\ UNION _tbl_ltrack \subseteq RepCells
      /\ UNION _tbl_LOGGED \subseteq RepCells /\ UNION _tbl_gfence \subseteq RepCells
  BY DEF RepCells
<1>7. ASSUME NEW i \in 1..21
      PROVE  dev_report_cmd_list[i].fld_names \ NeverShown \subseteq RepCells
  <2>1. CASE i \in 1..7
    BY <2>1, <1>2, <1>3, <1>4, <1>5, <1>6 DEF dev_report_cmd_list, RepCmd, NeverShown
  <2>2. CASE i \in 8..14
    BY <2>2, <1>2, <1>3, <1>4, <1>5, <1>6 DEF dev_report_cmd_list, RepCmd, NeverShown
  <2>3. CASE i \in 15..21
    BY <2>3, <1>2, <1>3, <1>4, <1>5, <1>6 DEF dev_report_cmd_list, RepCmd, NeverShown
  <2> QED BY <2>1, <2>2, <2>3
<1>8. RepFields \ NeverShown \subseteq RepCells
  BY <1>7, RepTable DEF RepFields
<1> QED BY <1>1, <1>8

\* Two sets that differ in one element at most.
LEMMA CardMoves ==
    ASSUME NEW S, NEW T, NEW x, IsFiniteSet(S), T \ {x} = S \ {x}
    PROVE  /\ IsFiniteSet(T)
           /\ Cardinality(S) \in Nat /\ Cardinality(T) \in Nat
           /\ Cardinality(T) + (IF x \in S THEN 1 ELSE 0) = Cardinality(S) + (IF x \in T THEN 1 ELSE 0)
<1>1. CASE (x \in S) = (x \in T)
  <2>1. S = T
    BY <1>1
  <2> QED BY <2>1, FS_CardinalityType
<1>2. CASE x \in S /\ x \notin T
  <2>1. T = S \ {x}
    BY <1>2
  <2>2. IsFiniteSet(S \ {x}) /\ Cardinality(S \ {x}) = Cardinality(S) - 1
    BY <1>2, FS_RemoveElement
  <2>3. Cardinality(S) \in Nat /\ Cardinality(T) \in Nat
    BY <2>1, <2>2, FS_CardinalityType
  <2> QED BY <1>2, <2>1, <2>2, <2>3
<1>3. CASE x \notin S /\ x \in T
  <2>1. T = S \cup {x}
    BY <1>3
  <2> QED BY <1>3, <2>1, FS_AddElement, FS_CardinalityType
<1> QED BY <1>1, <1>2, <1>3

\* Reports that have not got their array.
RepIniting == {t \in RepThreads : rep[t].pc = "init"}

\* How the sets of reports change when one report moves.
LEMMA RepCounts ==
    ASSUME IsFiniteSet(Reporting), rep \in [RepThreads -> RepStates], rep' \in [RepThreads -> RepStates],
           NEW t \in RepThreads, \A u \in RepThreads \ {t} : rep'[u].pc = rep[u].pc
    PROVE  /\ Reporting' \ {t} = Reporting \ {t}
           /\ IsFiniteSet(Reporting')
           /\ Cardinality(Reporting) \in Nat /\ Cardinality(Reporting') \in Nat
           /\ Cardinality(RepIniting) \in Nat /\ Cardinality(RepIniting') \in Nat
           /\ Cardinality(RepPast) \in Nat /\ Cardinality(RepPast') \in Nat
           /\ Cardinality(Reporting') + (IF rep[t].pc # "idle" THEN 1 ELSE 0)
                = Cardinality(Reporting) + (IF rep'[t].pc # "idle" THEN 1 ELSE 0)
           /\ Cardinality(RepIniting') + (IF rep[t].pc = "init" THEN 1 ELSE 0)
                = Cardinality(RepIniting) + (IF rep'[t].pc = "init" THEN 1 ELSE 0)
           /\ Cardinality(RepPast') + (IF rep[t].pc \notin {"idle", "init"} THEN 1 ELSE 0)
                = Cardinality(RepPast) + (IF rep'[t].pc \notin {"idle", "init"} THEN 1 ELSE 0)
<1>1. Reporting' \ {t} = Reporting \ {t} /\ (t \in Reporting <=> rep[t].pc # "idle")
      /\ (t \in Reporting' <=> rep'[t].pc # "idle")
  BY DEF Reporting
<1>2. RepIniting' \ {t} = RepIniting \ {t} /\ (t \in RepIniting <=> rep[t].pc = "init")
      /\ (t \in RepIniting' <=> rep'[t].pc = "init")
  BY DEF RepIniting
<1>3. RepPast' \ {t} = RepPast \ {t} /\ (t \in RepPast <=> rep[t].pc \notin {"idle", "init"})
      /\ (t \in RepPast' <=> rep'[t].pc \notin {"idle", "init"})
  BY DEF RepPast
<1>4. IsFiniteSet(RepIniting) /\ IsFiniteSet(RepPast)
  <2>1. RepIniting \subseteq Reporting /\ RepPast \subseteq Reporting
    BY DEF RepIniting, RepPast, Reporting
  <2> QED BY <2>1, FS_Subset
<1>5. /\ IsFiniteSet(Reporting')
      /\ Cardinality(Reporting) \in Nat /\ Cardinality(Reporting') \in Nat
      /\ Cardinality(Reporting') + (IF t \in Reporting THEN 1 ELSE 0)
                = Cardinality(Reporting) + (IF t \in Reporting' THEN 1 ELSE 0)
  BY <1>1, CardMoves
<1>6. /\ Cardinality(RepIniting) \in Nat /\ Cardinality(RepIniting') \in Nat
      /\ Cardinality(RepIniting') + (IF t \in RepIniting THEN 1 ELSE 0)
                = Cardinality(RepIniting) + (IF t \in RepIniting' THEN 1 ELSE 0)
  BY <1>2, <1>4, CardMoves
<1>7. /\ Cardinality(RepPast) \in Nat /\ Cardinality(RepPast') \in Nat
      /\ Cardinality(RepPast') + (IF t \in RepPast THEN 1 ELSE 0)
                = Cardinality(RepPast) + (IF t \in RepPast' THEN 1 ELSE 0)
  BY <1>3, <1>4, CardMoves
<1> QED BY <1>1, <1>2, <1>3, <1>5, <1>6, <1>7

\* An array and what was told grow alike.
LEMMA PutAlike ==
    ASSUME NEW m \in RepModels, NEW names \in SUBSET RepFields, NEW t \in RepThreads
    PROVE  /\ assoc_put(m, names, t) \in RepModels
           /\ assoc_put(AsArray(m), names, t) = AsArray(assoc_put(m, names, t))
<1>1. AsArray(m).flds = m.flds
  BY DEF AsArray
<1>2. CASE names \subseteq m.flds
  BY <1>1, <1>2 DEF assoc_put
<1>3. CASE ~(names \subseteq m.flds)
  <2>1. /\ assoc_put(m, names, t) = [m EXCEPT !.flds = m.flds \cup names, !.who = m.who \cup {t}]
        /\ assoc_put(AsArray(m), names, t)
             = [AsArray(m) EXCEPT !.flds = m.flds \cup names, !.who = m.who \cup {t}]
    BY <1>1, <1>3 DEF assoc_put, AsArray
  <2>2. m.flds \cup names \in SUBSET RepFields /\ m.who \cup {t} \in SUBSET RepThreads
    BY DEF RepModels
  <2>3. assoc_put(m, names, t) = [flds |-> m.flds \cup names, events |-> m.events, who |-> m.who \cup {t}]
    BY <2>1 DEF RepModels
  <2>4. assoc_put(AsArray(m), names, t)
          = [live |-> TRUE, flds |-> m.flds \cup names, events |-> m.events, who |-> m.who \cup {t}]
    BY <2>1 DEF AsArray
  <2>5. assoc_put(m, names, t) \in RepModels
    BY <2>2, <2>3 DEF RepModels
  <2> QED BY <2>3, <2>4, <2>5 DEF AsArray
<1> QED BY <1>2, <1>3

\* What is put into the array is put into the model.
LEMMA EventAlike ==
    ASSUME NEW m \in RepModels, NEW e \in RepEvents, NEW lat \in {"set", "empty"}, NEW t \in RepThreads
    PROVE  /\ PutEvent(m, e, lat, t) \in RepModels
           /\ PutEvent(AsArray(m), e, lat, t) = AsArray(PutEvent(m, e, lat, t))
BY DEF PutEvent, AsArray, RepModels

\* Putting values into an array keeps it an array in use.
LEMMA PutArray ==
    ASSUME NEW a \in RepArrayRecords, NEW names \in SUBSET RepFields, NEW t \in RepThreads
    PROVE  assoc_put(a, names, t) \in RepArrayRecords /\ assoc_put(a, names, t).live = a.live
<1>1. CASE names \subseteq a.flds
  BY <1>1 DEF assoc_put
<1>2. CASE ~(names \subseteq a.flds)
  <2>1. assoc_put(a, names, t) = [a EXCEPT !.flds = a.flds \cup names, !.who = a.who \cup {t}]
    BY <1>2 DEF assoc_put
  <2>2. a.flds \cup names \in SUBSET RepFields /\ a.who \cup {t} \in SUBSET RepThreads
    BY DEF RepArrayRecords
  <2> QED BY <2>1, <2>2 DEF RepArrayRecords
<1> QED BY <1>1, <1>2

\* And so does an event.
LEMMA EventArray ==
    ASSUME NEW a \in RepArrayRecords, NEW e \in RepEvents, NEW lat \in {"set", "empty"}, NEW t \in RepThreads
    PROVE  PutEvent(a, e, lat, t) \in RepArrayRecords /\ PutEvent(a, e, lat, t).live = a.live
BY DEF PutEvent, RepArrayRecords

\* The constants of the module have their types.
LEMMA RepConsts ==
    /\ NoModel \in RepModels /\ NoDoc \in RepDocs /\ NotAsked \in RepStates
    /\ AsArray(NoModel) \in RepArrayRecords /\ Destroyed \in RepArrayRecords
    /\ AsArray(NoModel).live = TRUE /\ Destroyed.live = FALSE
    /\ \A m \in RepModels : AsArray(m) \in RepArrayRecords /\ AsArray(m).live = TRUE /\ Model(AsArray(m)) = m
    /\ \A a \in RepArrayRecords : Model(a) \in RepModels
    /\ \A rc \in {"none", "failed", "written"} :
          Ended(rc) \in [rc : {"none", "failed", "written"}, pdf : RepDocs, json : RepModels] /\ Ended(rc).rc = rc
<1>1. NoModel \in RepModels /\ NoDoc \in RepDocs /\ NotAsked \in RepStates
  BY DEF NoModel, RepModels, NoDoc, RepDocs, NotAsked, RepStates
<1>2. \A m \in RepModels : AsArray(m) \in RepArrayRecords /\ AsArray(m).live = TRUE /\ Model(AsArray(m)) = m
  BY DEF AsArray, RepArrayRecords, RepModels, Model
<1>3. Destroyed \in RepArrayRecords /\ Destroyed.live = FALSE
  BY <1>1 DEF Destroyed, RepArrayRecords, AsArray, RepModels
<1>4. \A a \in RepArrayRecords : Model(a) \in RepModels
  BY DEF Model, RepArrayRecords, RepModels
<1> QED BY <1>1, <1>2, <1>3, <1>4 DEF Ended

-----------------------------------------------------------------------------
(* The invariant.                                                          *)

\* The invariant holds before the first report.
LEMMA RepInitInv == RepInit => RepInv
<1> SUFFICES ASSUME RepInit PROVE RepInv
  OBVIOUS
<1> USE ReportAssumption
<1>1. Reporting = {} /\ RepPast = {} /\ RepIniting = {}
  BY DEF RepInit, Reporting, RepPast, RepIniting, NotAsked
<1>2. RepTypes
  <2>1. rep \in [RepThreads -> RepStates] /\ repGot \in [RepThreads -> RepModels] /\ pdf_doc \in RepDocs
    BY RepConsts DEF RepInit
  <2>2. repOut \in [RepThreads -> [rc : {"none", "failed", "written"}, pdf : RepDocs, json : RepModels]]
    BY RepConsts DEF RepInit
  <2>3. repArrays \in Seq(RepArrayRecords) /\ device_info \in 0..Len(repArrays)
    BY DEF RepInit
  <2> QED BY <2>1, <2>2, <2>3 DEF RepInit, RepTypes
<1>3. RepPlaces
  BY DEF RepInit, RepPlaces, NotAsked, Ended, RepPast
<1>4. RepBounds
  <2>1. IsFiniteSet(Reporting) /\ Cardinality(Reporting) = 0 /\ Cardinality(RepIniting) = 0
    BY <1>1, FS_EmptySet
  <2>2. Len(repArrays) = 0
    BY DEF RepInit
  <2> QED BY <2>1, <2>2 DEF RepInit, RepBounds, RepIniting
<1>5. RepAlone
  BY <1>1 DEF RepAlone
<1>6. RepOwn
  BY DEF RepInit, RepOwn, RepOwnOf, Ended
<1>7. RepUnmet
  <2>1. RepLiveArrays = {}
    BY DEF RepInit, RepLiveArrays
  <2>2. Cardinality(RepLiveArrays) = 0 /\ Cardinality(RepPast) = 0
    BY <1>1, <2>1, FS_EmptySet
  <2> QED BY <1>1, <2>2 DEF RepInit, RepUnmet
<1> QED BY <1>2, <1>3, <1>4, <1>5, <1>6, <1>7 DEF RepInv

\* A step that changes nothing.
LEMMA RepFrame == ASSUME RepInv, UNCHANGED repVars PROVE RepInv'
BY DEF RepInv, RepTypes, RepPlaces, RepBounds, RepAlone, RepMine, RepOwn, RepUnmet, RepOwnOf, RepLiveArrays, Reporting, RepPast, RepIniting, repVars

\* After freed memory was used, when reports have met.
LEMMA RepWildStep ==
    ASSUME RepInv, repMeeting, GoWild, repStart' \in SUBSET RepThreads, repSaved' \in SUBSET RepModels
    PROVE  RepInv'
BY DEF GoWild, RepInv, RepTypes, RepPlaces, RepBounds, RepAlone, RepMine, RepOwn, RepUnmet, RepOwnOf, RepLiveArrays, Reporting, RepPast, RepIniting

\* What RepAlone says of the array: as long as reports did not meet it is live, and the jump buffer is one's own.
LEMMA RepLive ==
    ASSUME RepInv, NEW t \in RepPast, ~repMeeting
    PROVE  /\ ~rep[t].met /\ Reporting = {t} /\ RepPast = {t}
           /\ ArrayLive /\ repArrays[device_info] = AsArray(repGot[t]) /\ _g7report_env = {t}
           /\ rep[t].pc = "save" => pdf_doc.live
<1>1. t \in RepThreads /\ rep[t].pc \notin {"idle", "init"} /\ t \in Reporting
  BY DEF RepPast, Reporting
<1>2. ~rep[t].met
  BY <1>1 DEF RepInv, RepUnmet
<1>3. Reporting = {t} /\ repArrays[device_info] = AsArray(repGot[t]) /\ _g7report_env = {t}
      /\ (rep[t].pc = "save" => pdf_doc.live)
  BY <1>1, <1>2 DEF RepInv, RepAlone, RepMine
<1>4. ArrayLive
  BY <1>1, <1>3, RepConsts DEF ArrayLive, RepInv, RepTypes
<1>5. RepPast = {t}
  BY <1>1, <1>3 DEF RepPast, Reporting
<1> QED BY <1>2, <1>3, <1>4, <1>5

\* A report begins.
LEMMA RepBeginInv ==
    ASSUME RepInv, NEW t \in RepThreads, NEW file \in BOOLEAN, NEW events \in BOOLEAN, RepBegin(t, file, events)
    PROVE  RepInv'
<1>1. CASE UNCHANGED repVars
  BY <1>1, RepFrame
<1>2. CASE ~UNCHANGED repVars
  <2>1. /\ rep[t].pc = "idle"
        /\ repCount < MaxReports
        /\ rep' = [u \in RepThreads |->
                       IF u = t
                       THEN [pc |-> "init", pos |-> 0, file |-> file, gfevt |-> events,
                             met |-> Reporting # {}]
                       ELSE [rep[u] EXCEPT !.met = @ \/ u \in Reporting]]
        /\ repGot' = [repGot EXCEPT ![t] = NoModel]
        /\ repOut' = [repOut EXCEPT ![t] = Ended("none")]
        /\ repCount' = repCount + 1
        /\ repMeeting' = (repMeeting \/ Reporting # {})
        /\ UNCHANGED <<repArrays, device_info, _g7report_env, pdf_doc, repStart, repSaved, repOdd, repErrors,
                         repWild>>
    BY <1>2 DEF RepBegin
  <2>2. RepTypes /\ RepPlaces /\ RepBounds /\ RepAlone /\ RepOwn /\ RepUnmet
    BY DEF RepInv
  <2>3. /\ rep' \in [RepThreads -> RepStates]
        /\ rep'[t].pc = "init" /\ rep'[t].met = (Reporting # {})
        /\ \A u \in RepThreads \ {t} : /\ rep'[u].pc = rep[u].pc /\ rep'[u].pos = rep[u].pos
                                       /\ rep'[u].gfevt = rep[u].gfevt
                                       /\ u \in Reporting => rep'[u].met = TRUE
                                       /\ u \notin Reporting => rep'[u].met = rep[u].met
    <3>1. /\ rep'[t] = [pc |-> "init", pos |-> 0, file |-> file, gfevt |-> events, met |-> Reporting # {}]
          /\ \A u \in RepThreads \ {t} : rep'[u] = [rep[u] EXCEPT !.met = rep[u].met \/ u \in Reporting]
          /\ DOMAIN rep' = RepThreads
      BY <2>1
    <3>2. rep'[t] \in RepStates /\ rep'[t].pc = "init" /\ rep'[t].met = (Reporting # {})
      BY <3>1 DEF RepStates
    <3>3. ASSUME NEW u \in RepThreads \ {t}
          PROVE  /\ rep'[u] \in RepStates
                 /\ rep'[u].pc = rep[u].pc /\ rep'[u].pos = rep[u].pos /\ rep'[u].gfevt = rep[u].gfevt
                 /\ u \in Reporting => rep'[u].met = TRUE
                 /\ u \notin Reporting => rep'[u].met = rep[u].met
      <4>1. rep[u] \in RepStates
        BY <2>2 DEF RepTypes
      <4>2. CASE u \in Reporting
        <5>1. rep'[u] = [rep[u] EXCEPT !.met = TRUE]
          BY <3>1, <4>2
        <5> QED BY <4>1, <4>2, <5>1 DEF RepStates
      <4>3. CASE u \notin Reporting
        <5>1. (rep[u].met \/ u \in Reporting) = rep[u].met
          BY <4>1, <4>3 DEF RepStates
        <5>2. rep'[u] = [rep[u] EXCEPT !.met = rep[u].met]
          BY <3>1, <5>1
        <5>3. rep'[u] = rep[u]
          BY <4>1, <5>2 DEF RepStates
        <5> QED BY <4>1, <4>3, <5>3
      <4> QED BY <4>2, <4>3
    <3>4. rep' \in [RepThreads -> RepStates]
      BY <2>1, <3>2, <3>3
    <3> QED BY <3>2, <3>3, <3>4
  <2>4. /\ Reporting' = Reporting \cup {t} /\ t \notin Reporting /\ RepPast' = RepPast
    BY <2>1, <2>3 DEF Reporting, RepPast
  <2>5. RepTypes'
    <3>1. repGot' \in [RepThreads -> RepModels]
      BY <2>1, <2>2, RepConsts DEF RepTypes
    <3>2. repOut' \in [RepThreads -> [rc : {"none", "failed", "written"}, pdf : RepDocs, json : RepModels]]
      BY <2>1, <2>2, RepConsts DEF RepTypes
    <3>3. repMeeting' \in BOOLEAN
      BY <2>1
    <3> QED BY <2>1, <2>2, <2>3, <3>1, <3>2, <3>3 DEF RepTypes
  <2>6. RepPlaces'
    <3>1. repOut'[t].rc = "none" /\ \A u \in RepThreads \ {t} : repOut'[u] = repOut[u]
      BY <2>1, <2>2, RepConsts DEF RepTypes
    <3>2. t \notin RepPast'
      BY <2>3 DEF RepPast
    <3>3. repGot'[t] = NoModel /\ \A u \in RepThreads \ {t} : repGot'[u] = repGot[u]
      BY <2>1, <2>2 DEF RepTypes
    <3> QED BY <2>1, <2>2, <2>3, <2>4, <3>1, <3>2, <3>3 DEF RepPlaces
  <2>7. RepBounds'
    <3>1. IsFiniteSet(Reporting')
          /\ Cardinality(Reporting') = Cardinality(Reporting) + 1
          /\ Cardinality(RepIniting') = Cardinality(RepIniting) + 1
          /\ Cardinality(Reporting) \in Nat /\ Cardinality(RepIniting) \in Nat
      <4>1. \A u \in RepThreads \ {t} : rep'[u].pc = rep[u].pc
        BY <2>3
      <4>2. IsFiniteSet(Reporting) /\ rep \in [RepThreads -> RepStates] /\ rep' \in [RepThreads -> RepStates]
        BY <2>2, <2>3 DEF RepBounds, RepTypes
      <4> QED BY <2>1, <2>3, <4>1, <4>2, RepCounts
    <3> QED BY <2>1, <2>2, <3>1, ReportAssumption, SMTT(30) DEF RepBounds, RepTypes, RepIniting
  <2>8. RepAlone'
    <3> SUFFICES ASSUME NEW u \in Reporting', ~rep'[u].met PROVE u = t /\ Reporting' = {t}
      BY <2>3, <2>4 DEF RepAlone
    <3>1. u = t
      BY <2>3, <2>4 DEF Reporting
    <3>2. Reporting = {}
      BY <2>3, <3>1
    <3> QED BY <2>4, <3>1, <3>2
  <2>9. RepOwn'
    <3> SUFFICES ASSUME NEW u \in RepThreads, repOut'[u].rc = "written", ~rep'[u].met
                 PROVE  /\ repOut'[u] = repOut[u] /\ repGot'[u] = repGot[u] /\ rep'[u].gfevt = rep[u].gfevt
                        /\ ~rep[u].met
      BY <2>2 DEF RepOwn, RepOwnOf
    <3>1. u # t
      BY <2>1, <2>2, RepConsts DEF RepTypes
    <3>2. u \notin Reporting
      BY <2>1, <2>2, <3>1 DEF RepPlaces, RepTypes, Reporting
    <3> QED BY <2>1, <2>2, <2>3, <3>1, <3>2 DEF RepTypes
  <2>10. RepUnmet'
    <3>1. \A u \in Reporting' : rep'[u].met => repMeeting'
      BY <2>1, <2>3, <2>4 DEF Reporting
    <3>2. ~repMeeting' => ~repMeeting
      BY <2>1
    <3> QED BY <2>1, <2>2, <2>4, <3>1, <3>2 DEF RepUnmet, RepLiveArrays
  <2> QED BY <2>5, <2>6, <2>7, <2>8, <2>9, <2>10 DEF RepInv
<1> QED BY <1>1, <1>2

\* A step of one report says nothing of the others: they keep what they have, and those
\* that run beside it have been met.
LEMMA RepOne ==
    ASSUME RepInv, NEW t \in Reporting, rep' \in [RepThreads -> RepStates],
           \A u \in RepThreads \ {t} : rep'[u] = rep[u] /\ repGot'[u] = repGot[u] /\ repOut'[u] = repOut[u]
    PROVE  /\ \A u \in Reporting' : ~rep'[u].met => u = t
           /\ \A u \in RepThreads \ {t} : RepOwnOf(u)'
           /\ Reporting' \ {t} = Reporting \ {t}
           /\ RepPast' \ {t} = RepPast \ {t}
<1>1. \A u \in RepThreads \ {t} : RepOwnOf(u)'
  BY DEF RepInv, RepOwn, RepOwnOf
<1>2. Reporting' \ {t} = Reporting \ {t} /\ RepPast' \ {t} = RepPast \ {t}
  BY DEF Reporting, RepPast
<1>3. \A u \in Reporting' : ~rep'[u].met => u = t
  BY <1>2 DEF RepInv, RepAlone, Reporting
<1> QED BY <1>1, <1>2, <1>3

\* How the number of arrays in memory changes with one array.
LEMMA RepLiveCount ==
    ASSUME repArrays \in Seq(RepArrayRecords), repArrays' \in Seq(RepArrayRecords), NEW d,
           \A i \in DOMAIN repArrays \ {d} : i \in DOMAIN repArrays' /\ repArrays'[i] = repArrays[i],
           \A i \in DOMAIN repArrays' \ {d} : i \in DOMAIN repArrays
    PROVE  /\ Cardinality(RepLiveArrays) \in Nat /\ Cardinality(RepLiveArrays') \in Nat
           /\ Cardinality(RepLiveArrays') + (IF d \in RepLiveArrays THEN 1 ELSE 0)
                = Cardinality(RepLiveArrays) + (IF d \in RepLiveArrays' THEN 1 ELSE 0)
<1>1. RepLiveArrays' \ {d} = RepLiveArrays \ {d}
  BY DEF RepLiveArrays
<1>2. IsFiniteSet(RepLiveArrays)
  <2>1. IsFiniteSet(1..Len(repArrays)) /\ DOMAIN repArrays = 1..Len(repArrays)
    BY FS_Interval
  <2>2. RepLiveArrays \subseteq 1..Len(repArrays)
    BY <2>1 DEF RepLiveArrays
  <2> QED BY <2>1, <2>2, FS_Subset
<1> QED BY <1>1, <1>2, CardMoves

\* What a session is told when its report ends.
LEMMA RepReturned ==
    ASSUME RepTypes, NEW t \in RepThreads,
           NEW out \in [rc : {"none", "failed", "written"}, pdf : RepDocs, json : RepModels], RepReturn(t, out)
    PROVE  /\ rep' \in [RepThreads -> RepStates]
           /\ rep'[t].pc = "idle" /\ rep'[t].met = rep[t].met /\ rep'[t].gfevt = rep[t].gfevt
           /\ \A u \in RepThreads \ {t} : rep'[u] = rep[u] /\ repGot'[u] = repGot[u] /\ repOut'[u] = repOut[u]
           /\ repOut'[t] = out
           /\ repGot'[t] = (IF out.rc = "written" THEN repGot[t] ELSE NoModel)
           /\ repGot' \in [RepThreads -> RepModels]
           /\ repOut' \in [RepThreads -> [rc : {"none", "failed", "written"}, pdf : RepDocs, json : RepModels]]
<1>1. rep' \in [RepThreads -> RepStates]
      /\ rep'[t].pc = "idle" /\ rep'[t].met = rep[t].met /\ rep'[t].gfevt = rep[t].gfevt
      /\ \A u \in RepThreads \ {t} : rep'[u] = rep[u]
  <2>1. PICK s : s = [rep[t] EXCEPT !.pc = "idle"]
    OBVIOUS
  <2>2. rep \in [RepThreads -> RepStates] /\ rep' = [rep EXCEPT ![t] = s]
    BY <2>1 DEF RepReturn, RepTypes
  <2>3. s \in RepStates /\ s.pc = "idle" /\ s.met = rep[t].met /\ s.gfevt = rep[t].gfevt
    BY <2>1, <2>2 DEF RepStates
  <2> QED BY ONLY <2>2, <2>3, t \in RepThreads
<1>2. /\ \A u \in RepThreads \ {t} : repGot'[u] = repGot[u]
      /\ repGot'[t] = (IF out.rc = "written" THEN repGot[t] ELSE NoModel)
      /\ repGot' \in [RepThreads -> RepModels]
  BY RepConsts DEF RepReturn, RepTypes
<1>3. /\ \A u \in RepThreads \ {t} : repOut'[u] = repOut[u]
      /\ repOut'[t] = out
      /\ repOut' \in [RepThreads -> [rc : {"none", "failed", "written"}, pdf : RepDocs, json : RepModels]]
  BY DEF RepReturn, RepTypes
<1> QED BY <1>1, <1>2, <1>3

\* A report ends, in whatever way: the invariant holds if its arrays are accounted for.
LEMMA RepEnds ==
    ASSUME RepInv, NEW t \in Reporting,
           NEW out \in [rc : {"none", "failed", "written"}, pdf : RepDocs, json : RepModels], RepReturn(t, out),
           RepOwnOf(t)',
           repArrays' \in Seq(RepArrayRecords), device_info' \in 0..Len(repArrays'),
           Len(repArrays') <= Len(repArrays) + (IF rep[t].pc = "init" THEN 1 ELSE 0),
           device_info = 0 \/ device_info' # 0,
           _g7report_env' = _g7report_env \/ _g7report_env' = {t},
           pdf_doc' \in RepDocs, repStart' \in SUBSET RepThreads, repSaved' \in SUBSET RepModels,
           repErrors' \in repErrors..(repErrors + 1),
           UNCHANGED <<repCount, repOdd, repMeeting, repWild>>,
           ~repMeeting => Cardinality(RepLiveArrays') = repErrors' + Cardinality(RepPast')
    PROVE  RepInv'
<1>1. RepTypes /\ RepPlaces /\ RepBounds /\ RepAlone /\ RepOwn /\ RepUnmet /\ t \in RepThreads /\ rep[t].pc # "idle"
  BY DEF RepInv, Reporting
<1>2. /\ rep' \in [RepThreads -> RepStates]
      /\ rep'[t].pc = "idle" /\ rep'[t].met = rep[t].met
      /\ \A u \in RepThreads \ {t} : rep'[u] = rep[u] /\ repGot'[u] = repGot[u] /\ repOut'[u] = repOut[u]
      /\ repGot' \in [RepThreads -> RepModels]
      /\ repOut' \in [RepThreads -> [rc : {"none", "failed", "written"}, pdf : RepDocs, json : RepModels]]
  BY <1>1, RepReturned
<1>3. /\ \A u \in Reporting' : ~rep'[u].met => u = t
      /\ \A u \in RepThreads \ {t} : RepOwnOf(u)'
      /\ Reporting' \ {t} = Reporting \ {t} /\ RepPast' \ {t} = RepPast \ {t}
  BY <1>2, RepOne
<1>4. t \notin Reporting' /\ t \notin RepPast'
  BY <1>2 DEF Reporting, RepPast
<1>5. RepTypes'
  <2>1. repErrors' \in Nat /\ repCount' \in Nat /\ repOdd' \in Nat /\ repMeeting' \in BOOLEAN /\ repWild' \in BOOLEAN
    BY <1>1 DEF RepTypes
  <2>2. _g7report_env' \in SUBSET RepThreads
    BY <1>1 DEF RepTypes
  <2> QED BY <1>2, <2>1, <2>2 DEF RepTypes
<1>6. RepPlaces'
  <2>1. _g7report_env' = {} \/ \E u \in RepThreads : _g7report_env' = {u}
    BY <1>1 DEF RepPlaces
  <2>2. ASSUME NEW u \in RepThreads
        PROVE  /\ rep'[u].pc = "query" => rep'[u].pos \in DOMAIN dev_report_cmd_list
               /\ rep'[u].pc = "events" => rep'[u].pos \in RepEvents
               /\ rep'[u].pc # "idle" => repOut'[u].rc = "none"
               /\ rep'[u].pc = "init" => repGot'[u] = NoModel
               /\ u \in RepPast' => device_info' # 0
    <3>1. CASE u = t
      BY <1>2, <1>4, <3>1
    <3>2. CASE u # t
      <4>1. u \in RepPast' => device_info # 0
        BY <1>1, <1>3, <3>2 DEF RepPlaces
      <4> QED BY <1>1, <1>2, <3>2, <4>1 DEF RepPlaces
    <3> QED BY <3>1, <3>2
  <2> QED BY <2>1, <2>2 DEF RepPlaces
<1>7. RepBounds'
  <2>1. \A u \in RepThreads \ {t} : rep'[u].pc = rep[u].pc
    BY <1>2
  <2>2. /\ IsFiniteSet(Reporting')
        /\ Cardinality(Reporting') = Cardinality(Reporting) - 1
        /\ Cardinality(RepIniting') = Cardinality(RepIniting) - (IF rep[t].pc = "init" THEN 1 ELSE 0)
        /\ Cardinality(Reporting) \in Nat /\ Cardinality(RepIniting) \in Nat
    <3>1. IsFiniteSet(Reporting) /\ rep \in [RepThreads -> RepStates]
      BY <1>1 DEF RepBounds, RepTypes
    <3> QED BY <1>1, <1>2, <2>1, <3>1, RepCounts, SMTT(30)
  <2>3. /\ repErrors + Cardinality(Reporting) <= repCount
        /\ Len(repArrays) + Cardinality(RepIniting) <= repCount
        /\ repCount <= MaxReports /\ repOdd <= MaxOdd
    BY <1>1 DEF RepBounds, RepIniting
  <2>4. Len(repArrays) \in Nat /\ Len(repArrays') \in Nat /\ repErrors \in Nat /\ repErrors' \in Nat /\ repCount \in Nat
    BY <1>1 DEF RepTypes
  <2>5. repErrors' + Cardinality(Reporting') <= repCount
    BY <2>2, <2>3, <2>4
  <2>6. Len(repArrays') + Cardinality(RepIniting') <= repCount
    BY <2>2, <2>3, <2>4
  <2> QED BY <2>2, <2>3, <2>5, <2>6 DEF RepBounds, RepIniting
<1>8. RepAlone'
  BY <1>3, <1>4 DEF RepAlone
<1>9. RepOwn'
  BY <1>3 DEF RepOwn
<1>10. RepUnmet'
  <2>1. \A u \in Reporting' : rep'[u].met => repMeeting'
    <3> SUFFICES ASSUME NEW u \in Reporting', rep'[u].met PROVE repMeeting'
      OBVIOUS
    <3>1. u \in Reporting /\ u # t /\ u \in RepThreads
      BY <1>3, <1>4 DEF Reporting
    <3>2. rep[u].met
      BY <1>2, <3>1
    <3> QED BY <1>1, <3>1, <3>2 DEF RepUnmet
  <2> QED BY <1>1, <2>1 DEF RepUnmet
<1> QED BY <1>5, <1>6, <1>7, <1>8, <1>9, <1>10 DEF RepInv

\* A report goes on: the invariant holds if what it has in memory is what it was told.
LEMMA RepGoesOn ==
    ASSUME RepInv, NEW t \in Reporting,
           rep' \in [RepThreads -> RepStates], repGot' \in [RepThreads -> RepModels],
           \A u \in RepThreads \ {t} : rep'[u] = rep[u] /\ repGot'[u] = repGot[u],
           rep'[t].pc \in {"query", "events", "layout", "save"}, rep'[t].met = rep[t].met,
           rep'[t].pc = "query" => rep'[t].pos \in DOMAIN dev_report_cmd_list,
           rep'[t].pc = "events" => rep'[t].pos \in RepEvents,
           repArrays' \in Seq(RepArrayRecords), device_info' \in 1..Len(repArrays'),
           Len(repArrays') <= Len(repArrays) + (IF rep[t].pc = "init" THEN 1 ELSE 0),
           _g7report_env' = _g7report_env \/ _g7report_env' = {t},
           pdf_doc' \in RepDocs, repStart' \in SUBSET RepThreads,
           repOdd' \in 0..MaxOdd,
           UNCHANGED <<repOut, repSaved, repCount, repErrors, repMeeting, repWild>>,
           ~rep[t].met /\ Reporting = {t} => RepMine(t)',
           ~repMeeting => Cardinality(RepLiveArrays') = repErrors' + Cardinality(RepPast')
    PROVE  RepInv'
<1>1. RepTypes /\ RepPlaces /\ RepBounds /\ RepAlone /\ RepOwn /\ RepUnmet /\ t \in RepThreads /\ rep[t].pc # "idle"
  BY DEF RepInv, Reporting
<1>2. /\ \A u \in Reporting' : ~rep'[u].met => u = t
      /\ \A u \in RepThreads \ {t} : RepOwnOf(u)'
      /\ Reporting' \ {t} = Reporting \ {t} /\ RepPast' \ {t} = RepPast \ {t}
  BY RepOne
<1>3. t \in Reporting' /\ Reporting' = Reporting
  BY <1>1, <1>2 DEF Reporting
<1>4. RepTypes'
  <2>1. repErrors' \in Nat /\ repCount' \in Nat /\ repOdd' \in Nat /\ repMeeting' \in BOOLEAN /\ repWild' \in BOOLEAN
    BY <1>1, ReportAssumption DEF RepTypes
  <2>2. _g7report_env' \in SUBSET RepThreads /\ device_info' \in 0..Len(repArrays')
    BY <1>1 DEF RepTypes
  <2> QED BY <1>1, <2>1, <2>2 DEF RepTypes
<1>5. repOut'[t].rc = "none"
  BY <1>1 DEF RepPlaces
<1>6. RepPlaces'
  <2>1. _g7report_env' = {} \/ \E u \in RepThreads : _g7report_env' = {u}
    BY <1>1 DEF RepPlaces
  <2>2. ASSUME NEW u \in RepThreads
        PROVE  /\ rep'[u].pc = "query" => rep'[u].pos \in DOMAIN dev_report_cmd_list
               /\ rep'[u].pc = "events" => rep'[u].pos \in RepEvents
               /\ rep'[u].pc # "idle" => repOut'[u].rc = "none"
               /\ rep'[u].pc = "init" => repGot'[u] = NoModel
               /\ u \in RepPast' => device_info' # 0
    <3>1. CASE u = t
      BY <1>5, <3>1
    <3>2. CASE u # t
      BY <1>1, <3>2 DEF RepPlaces
    <3> QED BY <3>1, <3>2
  <2> QED BY <2>1, <2>2 DEF RepPlaces
<1>7. RepBounds'
  <2>1. \A u \in RepThreads \ {t} : rep'[u].pc = rep[u].pc
    OBVIOUS
  <2>2. /\ Cardinality(RepIniting') = Cardinality(RepIniting) - (IF rep[t].pc = "init" THEN 1 ELSE 0)
        /\ Cardinality(RepIniting) \in Nat
    <3>1. IsFiniteSet(Reporting) /\ rep \in [RepThreads -> RepStates]
      BY <1>1 DEF RepBounds, RepTypes
    <3>2. rep'[t].pc # "init" /\ t \in RepThreads
      BY <1>1
    <3>3. /\ Cardinality(RepIniting) \in Nat /\ Cardinality(RepIniting') \in Nat
          /\ Cardinality(RepIniting') + (IF rep[t].pc = "init" THEN 1 ELSE 0)
               = Cardinality(RepIniting) + (IF rep'[t].pc = "init" THEN 1 ELSE 0)
      BY <2>1, <3>1, <3>2, RepCounts
    <3> QED BY <3>2, <3>3
  <2>3. /\ repErrors + Cardinality(Reporting) <= repCount /\ IsFiniteSet(Reporting)
        /\ Len(repArrays) + Cardinality(RepIniting) <= repCount
        /\ repCount <= MaxReports
    BY <1>1 DEF RepBounds, RepIniting
  <2>4. Len(repArrays) \in Nat /\ Len(repArrays') \in Nat /\ repCount \in Nat /\ repOdd' <= MaxOdd
    BY <1>1, ReportAssumption DEF RepTypes
  <2>5. Len(repArrays') + Cardinality(RepIniting') <= repCount
    BY <2>2, <2>3, <2>4
  <2> QED BY <1>3, <2>3, <2>4, <2>5 DEF RepBounds, RepIniting
<1>8. RepAlone'
  <2>1. SUFFICES ASSUME ~rep'[t].met PROVE Reporting' = {t} /\ RepMine(t)'
    BY <1>2, <1>3 DEF RepAlone
  <2>2. ~rep[t].met /\ Reporting = {t}
    BY <1>1, <2>1 DEF RepAlone
  <2> QED BY <1>3, <2>1, <2>2
<1>9. RepOwn'
  <2>1. RepOwnOf(t)'
    BY <1>5 DEF RepOwnOf
  <2> QED BY <1>2, <2>1 DEF RepOwn
<1>10. RepUnmet'
  <2>1. \A u \in Reporting' : rep'[u].met => repMeeting'
    <3> SUFFICES ASSUME NEW u \in Reporting', rep'[u].met PROVE repMeeting'
      OBVIOUS
    <3>1. u \in Reporting /\ u \in RepThreads
      BY <1>3 DEF Reporting
    <3>2. rep[u].met
      BY <3>1
    <3> QED BY <1>1, <3>1, <3>2 DEF RepUnmet
  <2> QED BY <1>1, <2>1 DEF RepUnmet
<1> QED BY <1>4, <1>6, <1>7, <1>8, <1>9, <1>10 DEF RepInv

\* What a step keeps of the live arrays when a report in progress changes only its own.
LEMMA RepLiveKept ==
    ASSUME RepInv, NEW t \in RepPast, rep' \in [RepThreads -> RepStates], rep'[t].pc \in {"query", "events", "layout", "save"},
           \A u \in RepThreads \ {t} : rep'[u] = rep[u],
           repArrays' \in Seq(RepArrayRecords), Len(repArrays') = Len(repArrays),
           \A i \in DOMAIN repArrays : repArrays'[i].live = repArrays[i].live,
           UNCHANGED repErrors, ~repMeeting
    PROVE  Cardinality(RepLiveArrays') = repErrors' + Cardinality(RepPast')
<1>1. RepLiveArrays' = RepLiveArrays
  <2>1. DOMAIN repArrays' = DOMAIN repArrays
    BY DEF RepInv, RepTypes
  <2> QED BY <2>1 DEF RepLiveArrays
<1>2. RepPast' = RepPast
  BY DEF RepPast
<1> QED BY <1>1, <1>2 DEF RepInv, RepUnmet

\* The device is asked the first command, or what a file says is read.
LEMMA RepInitModel ==
    ASSUME RepInv, NEW t \in RepThreads, init_model_from_device(t)
    PROVE  RepInv'
<1>1. /\ rep[t].pc = "init"
      /\ _g7report_env' = {t} /\ device_info' = Len(repArrays) + 1
      /\ UNCHANGED <<pdf_doc, repStart, repSaved, repCount, repOdd, repMeeting, repWild>>
  BY DEF init_model_from_device
<1>2. t \in Reporting /\ RepTypes /\ RepPlaces /\ RepUnmet /\ RepBounds
  BY <1>1 DEF Reporting, RepInv
<1>3. ASSUME NEW a \in RepArrayRecords, repArrays' = Append(repArrays, a), a.live = TRUE
      PROVE  /\ repArrays' \in Seq(RepArrayRecords) /\ Len(repArrays') = Len(repArrays) + 1
             /\ device_info' \in 1..Len(repArrays') /\ repArrays'[device_info'] = a
             /\ Cardinality(RepLiveArrays') = Cardinality(RepLiveArrays) + 1
             /\ Cardinality(RepLiveArrays) \in Nat
  <2>1. /\ repArrays' \in Seq(RepArrayRecords) /\ Len(repArrays') = Len(repArrays) + 1 /\ Len(repArrays) \in Nat
        /\ repArrays'[Len(repArrays) + 1] = a /\ repArrays \in Seq(RepArrayRecords)
        /\ DOMAIN repArrays = 1..Len(repArrays) /\ DOMAIN repArrays' = 1..(Len(repArrays) + 1)
        /\ \A i \in DOMAIN repArrays : repArrays'[i] = repArrays[i]
    BY <1>2, <1>3 DEF RepTypes
  <2> DEFINE d == Len(repArrays) + 1
  <2>2. d \in RepLiveArrays' /\ d \notin RepLiveArrays
    BY <1>3, <2>1 DEF RepLiveArrays
  <2>3. \A i \in DOMAIN repArrays \ {d} : i \in DOMAIN repArrays' /\ repArrays'[i] = repArrays[i]
    BY <2>1
  <2>4. \A i \in DOMAIN repArrays' \ {d} : i \in DOMAIN repArrays
    BY <2>1
  <2>5. /\ Cardinality(RepLiveArrays) \in Nat /\ Cardinality(RepLiveArrays') \in Nat
        /\ Cardinality(RepLiveArrays') + (IF d \in RepLiveArrays THEN 1 ELSE 0)
                = Cardinality(RepLiveArrays) + (IF d \in RepLiveArrays' THEN 1 ELSE 0)
    <3> HIDE DEF d
    <3> QED BY <2>1, <2>3, <2>4, RepLiveCount
  <2> QED BY <1>1, <2>1, <2>2, <2>5
<1>4. ASSUME rep' \in [RepThreads -> RepStates], \A u \in RepThreads \ {t} : rep'[u] = rep[u]
      PROVE  /\ rep'[t].pc \in {"query", "layout"} => Cardinality(RepPast') = Cardinality(RepPast) + 1
             /\ rep'[t].pc = "idle" => Cardinality(RepPast') = Cardinality(RepPast)
             /\ Cardinality(RepPast) \in Nat
  <2>1. \A u \in RepThreads \ {t} : rep'[u].pc = rep[u].pc
    BY <1>4
  <2>2. IsFiniteSet(Reporting) /\ rep \in [RepThreads -> RepStates]
    BY <1>2 DEF RepBounds, RepTypes
  <2>3. /\ Cardinality(RepPast) \in Nat /\ Cardinality(RepPast') \in Nat
        /\ Cardinality(RepPast') + (IF rep[t].pc \notin {"idle", "init"} THEN 1 ELSE 0)
                = Cardinality(RepPast) + (IF rep'[t].pc \notin {"idle", "init"} THEN 1 ELSE 0)
    BY <1>4, <2>1, <2>2, RepCounts
  <2> QED BY <1>1, <2>3
<1>5. CASE /\ ~rep[t].file
           /\ repArrays' = Append(repArrays, AsArray(NoModel))
           /\ rep' = [rep EXCEPT ![t].pc = "query", ![t].pos = 1]
           /\ UNCHANGED <<repGot, repOut, repErrors>>
  <2>1. /\ rep' \in [RepThreads -> RepStates] /\ rep'[t].pc = "query" /\ rep'[t].pos = 1 /\ rep'[t].met = rep[t].met
        /\ \A u \in RepThreads \ {t} : rep'[u] = rep[u]
    <3>1. PICK s : s = [rep[t] EXCEPT !.pc = "query", !.pos = 1]
      OBVIOUS
    <3>2. rep \in [RepThreads -> RepStates] /\ rep' = [rep EXCEPT ![t] = s]
      BY <1>2, <1>5, <3>1 DEF RepTypes
    <3>3. s \in RepStates /\ s.pc = "query" /\ s.pos = 1 /\ s.met = rep[t].met
      BY <3>1, <3>2 DEF RepStates
    <3> QED BY ONLY <3>2, <3>3, t \in RepThreads
  <2>2. ~rep[t].met /\ Reporting = {t} => RepMine(t)'
    <3>1. repGot[t] = NoModel
      BY <1>1, <1>2 DEF RepPlaces
    <3> QED BY <1>1, <1>3, <1>5, <2>1, <3>1, RepConsts DEF RepMine
  <2>3. ~repMeeting => Cardinality(RepLiveArrays') = repErrors' + Cardinality(RepPast')
    <3>1. /\ Cardinality(RepLiveArrays') = Cardinality(RepLiveArrays) + 1 /\ Cardinality(RepLiveArrays) \in Nat
      BY <1>3, <1>5, RepConsts
    <3>2. Cardinality(RepPast') = Cardinality(RepPast) + 1 /\ Cardinality(RepPast) \in Nat
      BY <1>4, <2>1
    <3> QED BY <1>2, <1>5, <3>1, <3>2 DEF RepUnmet, RepTypes
  <2>4. rep'[t].pos \in DOMAIN dev_report_cmd_list
    BY <2>1, RepTable
  <2>5. /\ repArrays' \in Seq(RepArrayRecords) /\ device_info' \in 1..Len(repArrays')
        /\ Len(repArrays') = Len(repArrays) + 1
    BY <1>3, <1>5, RepConsts
  <2>6. repOdd' \in 0..MaxOdd /\ pdf_doc' \in RepDocs /\ repStart' \in SUBSET RepThreads
        /\ repGot' \in [RepThreads -> RepModels]
    BY <1>1, <1>2, <1>5, ReportAssumption DEF RepTypes, RepBounds
  <2>7. /\ UNCHANGED <<repOut, repSaved, repCount, repErrors, repMeeting, repWild>>
        /\ \A u \in RepThreads \ {t} : rep'[u] = rep[u] /\ repGot'[u] = repGot[u]
        /\ Len(repArrays') <= Len(repArrays) + (IF rep[t].pc = "init" THEN 1 ELSE 0)
    <3>1. Len(repArrays) \in Nat /\ Len(repArrays') = Len(repArrays) + 1
      BY <1>2, <2>5 DEF RepTypes
    <3> QED BY <1>1, <1>5, <2>1, <3>1
  <2> QED BY <1>1, <1>2, <2>1, <2>2, <2>3, <2>4, <2>5, <2>6, <2>7, RepGoesOn
<1>6. CASE /\ rep[t].file
           /\ \E m \in repSaved :
                 /\ repArrays' = Append(repArrays, AsArray(m))
                 /\ repGot' = [repGot EXCEPT ![t] = m]
           /\ rep' = [rep EXCEPT ![t].pc = "layout"]
           /\ UNCHANGED <<repOut, repErrors>>
  <2>1. /\ rep' \in [RepThreads -> RepStates] /\ rep'[t].pc = "layout" /\ rep'[t].met = rep[t].met
        /\ \A u \in RepThreads \ {t} : rep'[u] = rep[u]
    <3>1. rep' = [rep EXCEPT ![t].pc = "layout"] /\ rep \in [RepThreads -> RepStates]
      BY <1>2, <1>6 DEF RepTypes
    <3> QED BY <3>1 DEF RepStates
  <2>2. PICK m \in repSaved : repArrays' = Append(repArrays, AsArray(m)) /\ repGot' = [repGot EXCEPT ![t] = m]
    BY <1>6
  <2>3. m \in RepModels /\ repGot' \in [RepThreads -> RepModels] /\ repGot'[t] = m
        /\ \A u \in RepThreads \ {t} : repGot'[u] = repGot[u]
    BY <1>2, <2>2 DEF RepTypes
  <2>4. AsArray(m) \in RepArrayRecords /\ AsArray(m).live = TRUE
    BY <2>3, RepConsts
  <2>5. /\ repArrays' \in Seq(RepArrayRecords) /\ device_info' \in 1..Len(repArrays')
        /\ Len(repArrays') = Len(repArrays) + 1 /\ repArrays'[device_info'] = AsArray(m)
        /\ Cardinality(RepLiveArrays') = Cardinality(RepLiveArrays) + 1
        /\ Cardinality(RepLiveArrays) \in Nat
    BY <1>3, <2>2, <2>4
  <2>6. ~rep[t].met /\ Reporting = {t} => RepMine(t)'
    BY <1>1, <2>1, <2>3, <2>5 DEF RepMine
  <2>7. ~repMeeting => Cardinality(RepLiveArrays') = repErrors' + Cardinality(RepPast')
    BY <1>2, <1>4, <1>6, <2>1, <2>5 DEF RepUnmet, RepTypes
  <2>8. repOdd' \in 0..MaxOdd /\ pdf_doc' \in RepDocs /\ repStart' \in SUBSET RepThreads
    BY <1>1, <1>2, ReportAssumption DEF RepTypes, RepBounds
  <2> QED BY <1>1, <1>2, <1>6, <2>1, <2>3, <2>5, <2>6, <2>7, <2>8, RepGoesOn
<1>7. CASE /\ rep[t].file
           /\ repArrays' = Append(repArrays, AsArray(NoModel))
           /\ RepReturn(t, Ended("failed"))
           /\ repErrors' = repErrors + 1
  <2>1. Ended("failed") \in [rc : {"none", "failed", "written"}, pdf : RepDocs, json : RepModels]
        /\ Ended("failed").rc = "failed"
    BY RepConsts
  <2>2. /\ rep' \in [RepThreads -> RepStates] /\ rep'[t].pc = "idle"
        /\ \A u \in RepThreads \ {t} : rep'[u] = rep[u]
        /\ repOut'[t] = Ended("failed")
    BY <1>2, <1>7, <2>1, RepReturned
  <2>3. RepOwnOf(t)'
    BY <2>1, <2>2 DEF RepOwnOf
  <2>4. /\ repArrays' \in Seq(RepArrayRecords) /\ device_info' \in 1..Len(repArrays')
        /\ Len(repArrays') = Len(repArrays) + 1
        /\ Cardinality(RepLiveArrays') = Cardinality(RepLiveArrays) + 1
        /\ Cardinality(RepLiveArrays) \in Nat
    BY <1>3, <1>7, RepConsts
  <2>5. ~repMeeting => Cardinality(RepLiveArrays') = repErrors' + Cardinality(RepPast')
    BY <1>2, <1>4, <1>7, <2>2, <2>4 DEF RepUnmet, RepTypes
  <2>6. repErrors' \in repErrors..(repErrors + 1) /\ pdf_doc' \in RepDocs /\ repStart' \in SUBSET RepThreads
        /\ repSaved' \in SUBSET RepModels
    BY <1>1, <1>2, <1>7 DEF RepTypes
  <2>7. device_info' \in 0..Len(repArrays') /\ device_info' # 0
        /\ Len(repArrays') <= Len(repArrays) + (IF rep[t].pc = "init" THEN 1 ELSE 0)
    BY <1>1, <1>2, <2>4 DEF RepTypes
  <2> QED BY <1>1, <1>2, <1>7, <2>1, <2>3, <2>4, <2>5, <2>6, <2>7, RepEnds
<1> QED BY <1>5, <1>6, <1>7 DEF init_model_from_device

\* Where a report is after a reply.
LEMMA RepAnswered ==
    ASSUME RepInv, NEW t \in RepThreads,
           (rep[t].pc = "query" /\ QueryAnswered(t)) \/ (rep[t].pc = "events" /\ EventAnswered(t))
    PROVE  /\ t \in Reporting /\ t \in RepPast
           /\ rep' \in [RepThreads -> RepStates] /\ rep'[t].pc \in {"query", "events", "layout"}
           /\ rep'[t].met = rep[t].met
           /\ \A u \in RepThreads \ {t} : rep'[u] = rep[u]
           /\ rep'[t].pc = "query" => rep'[t].pos \in DOMAIN dev_report_cmd_list
           /\ rep'[t].pc = "events" => rep'[t].pos \in RepEvents
<1>1. rep \in [RepThreads -> RepStates] /\ DOMAIN dev_report_cmd_list = 1..21 /\ Len(dev_report_cmd_list) = 21
  BY RepTable DEF RepInv, RepTypes
<1>2. MaxEvent \in 50..99 /\ RepEvents = 50..MaxEvent
  BY ReportAssumption DEF RepEvents
<1>3. CASE rep[t].pc = "query" /\ QueryAnswered(t)
  <2>1. rep[t].pos \in 1..21
    BY <1>1, <1>3 DEF RepInv, RepPlaces
  <2>2. CASE rep' = [rep EXCEPT ![t].pos = @ + 1] /\ rep[t].pos < 21
    BY <1>1, <1>3, <2>1, <2>2 DEF RepStates, Reporting, RepPast
  <2>3. CASE rep' = [rep EXCEPT ![t].pc = "events", ![t].pos = 50]
    <3>1. 50 \in RepEvents
      BY ONLY <1>2
    <3>2. rep' \in [RepThreads -> RepStates] /\ rep'[t].pc = "events" /\ rep'[t].pos = 50 /\ rep'[t].met = rep[t].met
          /\ \A u \in RepThreads \ {t} : rep'[u] = rep[u]
      <4>1. rep \in [RepThreads -> RepStates]
        BY <1>1
      <4>2. rep' = [rep EXCEPT ![t] = [rep[t] EXCEPT !.pc = "events", !.pos = 50]]
        BY <2>3
      <4>3. [rep[t] EXCEPT !.pc = "events", !.pos = 50] \in RepStates
        BY <4>1 DEF RepStates
      <4> QED BY <4>1, <4>2, <4>3 DEF RepStates
    <3> QED BY <1>3, <3>1, <3>2 DEF Reporting, RepPast
  <2>4. CASE rep' = [rep EXCEPT ![t].pc = "layout"]
    BY <1>1, <1>3, <2>4 DEF RepStates, Reporting, RepPast
  <2> QED BY <1>1, <1>3, <2>2, <2>3, <2>4 DEF QueryAnswered
<1>4. CASE rep[t].pc = "events" /\ EventAnswered(t)
  <2>1. rep[t].pos \in 50..MaxEvent
    BY <1>2, <1>4 DEF RepInv, RepPlaces
  <2>2. CASE rep' = [rep EXCEPT ![t].pos = @ + 1] /\ rep[t].pos < MaxEvent
    <3>1. rep[t].pos + 1 \in RepEvents /\ rep[t].pos + 1 \in Nat
      <4>1. rep[t].pos < MaxEvent
        BY <2>2
      <4>2. MaxEvent \in Nat
        BY <1>2
      <4> QED BY <1>2, <2>1, <4>1, <4>2
    <3>2. rep' = [rep EXCEPT ![t].pos = rep[t].pos + 1]
      BY <2>2
    <3> QED BY <1>1, <1>4, <3>1, <3>2 DEF RepStates, Reporting, RepPast
  <2>3. CASE rep' = [rep EXCEPT ![t].pc = "layout"]
    BY <1>1, <1>4, <2>3 DEF RepStates, Reporting, RepPast
  <2> QED BY <1>4, <2>2, <2>3 DEF EventAnswered
<1> QED BY <1>3, <1>4

\* What is in the array of the device after a reply.
LEMMA RepTold ==
    ASSUME RepInv, NEW t \in RepPast, NEW a \in RepArrayRecords, NEW g \in RepModels,
           rep' \in [RepThreads -> RepStates], rep'[t].pc \in {"query", "events", "layout"}, rep'[t].met = rep[t].met,
           \A u \in RepThreads \ {t} : rep'[u] = rep[u],
           rep'[t].pc = "query" => rep'[t].pos \in DOMAIN dev_report_cmd_list,
           rep'[t].pc = "events" => rep'[t].pos \in RepEvents,
           a.live = repArrays[device_info].live,
           repArrays[device_info] = AsArray(repGot[t]) => a = AsArray(g),
           repArrays' = [repArrays EXCEPT ![device_info] = a],
           repGot' = [repGot EXCEPT ![t] = g],
           repOdd' \in 0..MaxOdd,
           UNCHANGED <<device_info, _g7report_env, pdf_doc, repStart, repOut, repSaved, repCount, repErrors, repMeeting, repWild>>
    PROVE  RepInv'
<1>1. RepTypes /\ RepPlaces /\ RepAlone /\ t \in Reporting /\ t \in RepThreads /\ rep[t].pc \notin {"idle", "init"}
  BY DEF RepInv, Reporting, RepPast
<1>2. device_info \in 1..Len(repArrays) /\ Len(repArrays) \in Nat /\ DOMAIN repArrays = 1..Len(repArrays)
  BY <1>1 DEF RepTypes, RepPlaces
<1>3. /\ repArrays' \in Seq(RepArrayRecords) /\ Len(repArrays') = Len(repArrays) /\ repArrays'[device_info] = a
      /\ \A i \in DOMAIN repArrays : repArrays'[i].live = repArrays[i].live
  BY <1>1, <1>2 DEF RepTypes
<1>4. /\ repGot' \in [RepThreads -> RepModels] /\ repGot'[t] = g
      /\ \A u \in RepThreads \ {t} : repGot'[u] = repGot[u]
  BY <1>1 DEF RepTypes
<1>5. ~rep[t].met /\ Reporting = {t} => RepMine(t)'
  <2>1. rep'[t].pc # "save"
    OBVIOUS
  <2> SUFFICES ASSUME ~rep[t].met PROVE RepMine(t)'
    OBVIOUS
  <2>2. RepMine(t)
    BY <1>1 DEF RepAlone
  <2> QED BY <1>3, <1>4, <2>1, <2>2 DEF RepMine
<1>6. ~repMeeting => Cardinality(RepLiveArrays') = repErrors' + Cardinality(RepPast')
  BY <1>3, RepLiveKept
<1>7. pdf_doc' \in RepDocs /\ repStart' \in SUBSET RepThreads /\ device_info' \in 1..Len(repArrays')
      /\ Len(repArrays') <= Len(repArrays) + (IF rep[t].pc = "init" THEN 1 ELSE 0)
  BY <1>1, <1>2, <1>3 DEF RepTypes
<1> QED BY <1>1, <1>3, <1>4, <1>5, <1>6, <1>7, RepGoesOn

\* Only reports that met touch freed memory.
LEMMA RepWildMet ==
    ASSUME RepInv, NEW t \in RepPast, GoWild, repStart' \in SUBSET RepThreads, repSaved' \in SUBSET RepModels,
           ~ArrayLive \/ (rep[t].pc = "save" /\ ~pdf_doc.live) \/ _g7report_env # {t}
    PROVE  RepInv'
<1>1. repMeeting
  BY RepLive
<1> QED BY <1>1, RepWildStep

\* A report ends with a failure, its array freed or not.
LEMMA RepFails ==
    ASSUME RepInv, NEW t \in RepPast, RepReturn(t, Ended("failed")),
           \/ UNCHANGED repArrays /\ repErrors' = repErrors + 1
           \/ ArrayLive /\ repArrays' = [repArrays EXCEPT ![device_info] = Destroyed] /\ UNCHANGED repErrors,
           pdf_doc' \in RepDocs, repStart' \in SUBSET RepThreads, repSaved' \in SUBSET RepModels,
           UNCHANGED <<device_info, _g7report_env, repCount, repOdd, repMeeting, repWild>>
    PROVE  RepInv'
<1>1. RepTypes /\ RepPlaces /\ RepBounds /\ RepUnmet /\ t \in Reporting /\ t \in RepThreads /\ rep[t].pc \notin {"idle", "init"}
  BY DEF RepInv, Reporting, RepPast
<1>2. device_info \in 1..Len(repArrays) /\ Len(repArrays) \in Nat /\ DOMAIN repArrays = 1..Len(repArrays)
      /\ repErrors \in Nat
  BY <1>1 DEF RepTypes, RepPlaces
<1>3. Ended("failed") \in [rc : {"none", "failed", "written"}, pdf : RepDocs, json : RepModels]
      /\ Ended("failed").rc = "failed"
  BY RepConsts
<1>4. /\ rep' \in [RepThreads -> RepStates] /\ rep'[t].pc = "idle"
      /\ \A u \in RepThreads \ {t} : rep'[u] = rep[u]
      /\ repOut'[t] = Ended("failed")
  BY <1>1, <1>3, RepReturned
<1>5. RepOwnOf(t)'
  BY <1>3, <1>4 DEF RepOwnOf
<1>6. repArrays' \in Seq(RepArrayRecords) /\ Len(repArrays') = Len(repArrays)
  <2>1. repArrays \in Seq(RepArrayRecords) /\ Destroyed \in RepArrayRecords
    BY <1>1, RepConsts DEF RepTypes
  <2> QED BY <1>2, <2>1
<1>7. Cardinality(RepPast') = Cardinality(RepPast) - 1 /\ Cardinality(RepPast) \in Nat
  <2>1. \A u \in RepThreads \ {t} : rep'[u].pc = rep[u].pc
    BY <1>4
  <2>2. IsFiniteSet(Reporting) /\ rep \in [RepThreads -> RepStates]
    BY <1>1 DEF RepBounds, RepTypes
  <2>3. /\ Cardinality(RepPast) \in Nat /\ Cardinality(RepPast') \in Nat
        /\ Cardinality(RepPast') + (IF rep[t].pc \notin {"idle", "init"} THEN 1 ELSE 0)
                = Cardinality(RepPast) + (IF rep'[t].pc \notin {"idle", "init"} THEN 1 ELSE 0)
    BY <1>1, <1>4, <2>1, <2>2, RepCounts
  <2> QED BY <1>1, <1>4, <2>3
<1>8. ~repMeeting => Cardinality(RepLiveArrays') = repErrors' + Cardinality(RepPast')
  <2> SUFFICES ASSUME ~repMeeting PROVE Cardinality(RepLiveArrays') = repErrors' + Cardinality(RepPast')
    OBVIOUS
  <2>1. Cardinality(RepLiveArrays) = repErrors + Cardinality(RepPast)
    BY <1>1 DEF RepUnmet
  <2>2. CASE UNCHANGED repArrays /\ repErrors' = repErrors + 1
    <3>1. RepLiveArrays' = RepLiveArrays
      BY <2>2 DEF RepLiveArrays
    <3> QED BY <1>2, <1>7, <2>1, <2>2, <3>1
  <2>3. CASE ArrayLive /\ repArrays' = [repArrays EXCEPT ![device_info] = Destroyed] /\ UNCHANGED repErrors
    <3>1. device_info \in RepLiveArrays /\ device_info \notin RepLiveArrays'
      BY <1>1, <1>2, <2>3, RepConsts DEF RepLiveArrays, ArrayLive, RepTypes
    <3>2. /\ \A i \in DOMAIN repArrays \ {device_info} : i \in DOMAIN repArrays' /\ repArrays'[i] = repArrays[i]
          /\ \A i \in DOMAIN repArrays' \ {device_info} : i \in DOMAIN repArrays
      BY <1>1, <1>2, <2>3 DEF RepTypes
    <3>3. /\ Cardinality(RepLiveArrays) \in Nat /\ Cardinality(RepLiveArrays') \in Nat
          /\ Cardinality(RepLiveArrays') + (IF device_info \in RepLiveArrays THEN 1 ELSE 0)
                = Cardinality(RepLiveArrays) + (IF device_info \in RepLiveArrays' THEN 1 ELSE 0)
      <4>1. repArrays \in Seq(RepArrayRecords)
        BY <1>1 DEF RepTypes
      <4> QED BY <1>6, <3>2, <4>1, RepLiveCount
    <3> QED BY <1>2, <1>7, <2>1, <2>3, <3>1, <3>3
  <2> QED BY <2>2, <2>3
<1>9. repErrors' \in repErrors..(repErrors + 1) /\ device_info' \in 0..Len(repArrays')
      /\ (device_info = 0 \/ device_info' # 0)
      /\ Len(repArrays') <= Len(repArrays) + (IF rep[t].pc = "init" THEN 1 ELSE 0)
  BY <1>1, <1>2, <1>6
<1> QED BY <1>1, <1>3, <1>5, <1>6, <1>8, <1>9, RepEnds

\* A command of the list is answered, or not.
LEMMA RepQuery ==
    ASSUME RepInv, NEW t \in RepThreads, send_command_get_replies(t)
    PROVE  RepInv'
<1> DEFINE names == dev_report_cmd_list[rep[t].pos].fld_names
<1>1. /\ rep[t].pc = "query" /\ t \in RepPast /\ RepTypes /\ RepBounds
      /\ UNCHANGED <<device_info, _g7report_env, pdf_doc, repStart, repSaved, repCount, repErrors, repMeeting>>
  BY DEF send_command_get_replies, RepPast, RepInv
<1>2. names \in SUBSET RepFields
  BY <1>1, RepTable DEF RepInv, RepPlaces
<1>3. device_info \in DOMAIN repArrays /\ repArrays[device_info] \in RepArrayRecords /\ repGot[t] \in RepModels
      /\ repOdd \in 0..MaxOdd
  BY <1>1, ReportAssumption DEF RepInv, RepTypes, RepPlaces, RepBounds
<1> HIDE DEF names
<1>4. CASE /\ ArrayLive
           /\ repArrays' = [repArrays EXCEPT ![device_info] = assoc_put(@, names, t)]
           /\ repGot' = [repGot EXCEPT ![t] = assoc_put(@, names, t)]
           /\ QueryAnswered(t)
           /\ UNCHANGED <<repOut, repOdd, repWild>>
  <2>1. PICK a : a = assoc_put(repArrays[device_info], names, t)
    OBVIOUS
  <2>2. PICK g : g = assoc_put(repGot[t], names, t)
    OBVIOUS
  <2>3. a \in RepArrayRecords /\ a.live = repArrays[device_info].live
    BY <1>2, <1>3, <2>1, PutArray
  <2>4. g \in RepModels /\ (repArrays[device_info] = AsArray(repGot[t]) => a = AsArray(g))
    BY <1>2, <1>3, <2>1, <2>2, PutAlike
  <2>5. repArrays' = [repArrays EXCEPT ![device_info] = a] /\ repGot' = [repGot EXCEPT ![t] = g]
    BY <1>4, <2>1, <2>2
  <2>6. repOdd' \in 0..MaxOdd
        /\ UNCHANGED <<device_info, _g7report_env, pdf_doc, repStart, repOut, repSaved, repCount, repErrors, repMeeting, repWild>>
    BY <1>1, <1>3, <1>4
  <2>7. /\ rep' \in [RepThreads -> RepStates] /\ rep'[t].pc \in {"query", "events", "layout"}
        /\ rep'[t].met = rep[t].met
        /\ \A u \in RepThreads \ {t} : rep'[u] = rep[u]
        /\ rep'[t].pc = "query" => rep'[t].pos \in DOMAIN dev_report_cmd_list
        /\ rep'[t].pc = "events" => rep'[t].pos \in RepEvents
    BY <1>1, <1>4, RepAnswered
  <2> QED BY <1>1, <2>3, <2>4, <2>5, <2>6, <2>7, RepTold
<1>5. CASE /\ repOdd < MaxOdd
           /\ repOdd' = repOdd + 1
           /\ QueryAnswered(t)
           /\ UNCHANGED <<repArrays, repGot, repOut, repWild>>
  <2>1. repArrays' = [repArrays EXCEPT ![device_info] = repArrays[device_info]]
        /\ repGot' = [repGot EXCEPT ![t] = repGot[t]]
    BY <1>1, <1>5 DEF RepTypes
  <2>2. repOdd' \in 0..MaxOdd
        /\ UNCHANGED <<device_info, _g7report_env, pdf_doc, repStart, repOut, repSaved, repCount, repErrors, repMeeting, repWild>>
    BY <1>1, <1>3, <1>5, ReportAssumption
  <2>3. /\ rep' \in [RepThreads -> RepStates] /\ rep'[t].pc \in {"query", "events", "layout"}
        /\ rep'[t].met = rep[t].met
        /\ \A u \in RepThreads \ {t} : rep'[u] = rep[u]
        /\ rep'[t].pc = "query" => rep'[t].pos \in DOMAIN dev_report_cmd_list
        /\ rep'[t].pc = "events" => rep'[t].pos \in RepEvents
    BY <1>1, <1>5, RepAnswered
  <2> QED BY <1>1, <1>3, <2>1, <2>2, <2>3, RepTold
<1>6. CASE /\ ArrayLive
           /\ repArrays' = [repArrays EXCEPT ![device_info] = Destroyed]
           /\ RepReturn(t, Ended("failed"))
           /\ UNCHANGED <<repOdd, repWild>>
  <2>1. pdf_doc' \in RepDocs /\ repStart' \in SUBSET RepThreads /\ repSaved' \in SUBSET RepModels
    BY <1>1 DEF RepTypes
  <2> QED BY <1>1, <1>6, <2>1, RepFails
<1>7. CASE ~ArrayLive /\ GoWild
  <2>1. repStart' \in SUBSET RepThreads /\ repSaved' \in SUBSET RepModels
    BY <1>1 DEF RepTypes
  <2> QED BY <1>1, <1>7, <2>1, RepWildMet
<1> QED BY <1>4, <1>5, <1>6, <1>7 DEF send_command_get_replies, names

\* A geofence event is read, or passed over.
LEMMA RepEvent ==
    ASSUME RepInv, NEW t \in RepThreads, gfevt(t)
    PROVE  RepInv'
<1>1. /\ rep[t].pc = "events" /\ t \in RepPast /\ RepTypes /\ RepBounds
      /\ UNCHANGED <<device_info, _g7report_env, pdf_doc, repStart, repSaved, repCount, repOdd, repErrors, repMeeting>>
  BY DEF gfevt, RepPast, RepInv
<1>2. rep[t].pos \in RepEvents
  BY <1>1 DEF RepInv, RepPlaces
<1>3. device_info \in DOMAIN repArrays /\ repArrays[device_info] \in RepArrayRecords /\ repGot[t] \in RepModels
      /\ repOdd' \in 0..MaxOdd
  BY <1>1, ReportAssumption DEF RepInv, RepTypes, RepPlaces, RepBounds
<1>4. ASSUME NEW lat \in {"set", "empty"},
             repArrays' = [repArrays EXCEPT ![device_info] = PutEvent(@, rep[t].pos, lat, t)],
             repGot' = [repGot EXCEPT ![t] = PutEvent(@, rep[t].pos, lat, t)],
             EventAnswered(t),
             UNCHANGED <<repOut, repWild>>
      PROVE  RepInv'
  <2>1. PICK a : a = PutEvent(repArrays[device_info], rep[t].pos, lat, t)
    OBVIOUS
  <2>2. PICK g : g = PutEvent(repGot[t], rep[t].pos, lat, t)
    OBVIOUS
  <2>3. a \in RepArrayRecords /\ a.live = repArrays[device_info].live
    BY <1>2, <1>3, <2>1, EventArray
  <2>4. g \in RepModels /\ (repArrays[device_info] = AsArray(repGot[t]) => a = AsArray(g))
    BY <1>2, <1>3, <2>1, <2>2, EventAlike
  <2>5. repArrays' = [repArrays EXCEPT ![device_info] = a] /\ repGot' = [repGot EXCEPT ![t] = g]
    BY <1>4, <2>1, <2>2
  <2>6. UNCHANGED <<device_info, _g7report_env, pdf_doc, repStart, repOut, repSaved, repCount, repErrors, repMeeting, repWild>>
    BY <1>1, <1>4
  <2>7. /\ rep' \in [RepThreads -> RepStates] /\ rep'[t].pc \in {"query", "events", "layout"}
        /\ rep'[t].met = rep[t].met
        /\ \A u \in RepThreads \ {t} : rep'[u] = rep[u]
        /\ rep'[t].pc = "query" => rep'[t].pos \in DOMAIN dev_report_cmd_list
        /\ rep'[t].pc = "events" => rep'[t].pos \in RepEvents
    BY <1>1, <1>4, RepAnswered
  <2> QED BY <1>1, <1>3, <2>3, <2>4, <2>5, <2>6, <2>7, RepTold
<1>5. CASE EventAnswered(t) /\ UNCHANGED <<repArrays, repGot, repOut, repWild>>
  <2>1. repArrays' = [repArrays EXCEPT ![device_info] = repArrays[device_info]]
        /\ repGot' = [repGot EXCEPT ![t] = repGot[t]]
    BY <1>1, <1>5 DEF RepTypes
  <2>2. UNCHANGED <<device_info, _g7report_env, pdf_doc, repStart, repOut, repSaved, repCount, repErrors, repMeeting, repWild>>
    BY <1>1, <1>5
  <2>3. /\ rep' \in [RepThreads -> RepStates] /\ rep'[t].pc \in {"query", "events", "layout"}
        /\ rep'[t].met = rep[t].met
        /\ \A u \in RepThreads \ {t} : rep'[u] = rep[u]
        /\ rep'[t].pc = "query" => rep'[t].pos \in DOMAIN dev_report_cmd_list
        /\ rep'[t].pc = "events" => rep'[t].pos \in RepEvents
    BY <1>1, <1>5, RepAnswered
  <2> QED BY <1>1, <1>3, <2>1, <2>2, <2>3, RepTold
<1>6. CASE ~ArrayLive /\ GoWild
  <2>1. repStart' \in SUBSET RepThreads /\ repSaved' \in SUBSET RepModels
    BY <1>1 DEF RepTypes
  <2> QED BY <1>1, <1>6, <2>1, RepWildMet
<1> QED BY <1>4, <1>5, <1>6 DEF gfevt

\* Whose dates a cell shows.
LEMMA RepStartType ==
    ASSUME RepTypes, device_info \in DOMAIN repArrays
    PROVE  cb_LOGGED_dates_start \in SUBSET RepThreads
<1>1. repArrays[device_info] \in RepArrayRecords /\ repStart \in SUBSET RepThreads
  BY DEF RepTypes
<1>2. repArrays[device_info].who \in SUBSET RepThreads
  BY <1>1 DEF RepArrayRecords
<1> QED BY <1>1, <1>2 DEF cb_LOGGED_dates_start

\* The document is made.
LEMMA RepLayout ==
    ASSUME RepInv, NEW t \in RepThreads, layout_g7ctrl_report(t)
    PROVE  RepInv'
<1> DEFINE doc == [live |-> TRUE, flds |-> repArrays[device_info].flds \cap RepCells,
                   events |-> IF rep[t].gfevt THEN EventTables(repArrays[device_info]) ELSE {},
                   who |-> repArrays[device_info].who, start |-> cb_LOGGED_dates_start]
<1>1. /\ rep[t].pc = "layout" /\ t \in RepPast /\ t \in Reporting /\ RepTypes /\ RepBounds
      /\ UNCHANGED <<repArrays, device_info, _g7report_env, repSaved, repCount, repOdd, repMeeting>>
  BY DEF layout_g7ctrl_report, RepPast, Reporting, RepInv
<1>2. device_info \in DOMAIN repArrays /\ device_info \in 1..Len(repArrays) /\ repArrays[device_info] \in RepArrayRecords
      /\ repOdd' \in 0..MaxOdd
  BY <1>1, ReportAssumption DEF RepInv, RepTypes, RepPlaces, RepBounds
<1>3. cb_LOGGED_dates_start \in SUBSET RepThreads
  BY <1>1, <1>2, RepStartType
<1>4. CASE /\ ArrayLive
           /\ pdf_doc' = doc
           /\ repStart' = cb_LOGGED_dates_start
           /\ rep' = [rep EXCEPT ![t].pc = "save"]
           /\ UNCHANGED <<repGot, repOut, repErrors, repWild>>
  <2>1. /\ rep' \in [RepThreads -> RepStates] /\ rep'[t].pc = "save" /\ rep'[t].met = rep[t].met
        /\ rep'[t].gfevt = rep[t].gfevt
        /\ \A u \in RepThreads \ {t} : rep'[u] = rep[u]
    <3>1. PICK s : s = [rep[t] EXCEPT !.pc = "save"]
      OBVIOUS
    <3>2. rep \in [RepThreads -> RepStates] /\ rep' = [rep EXCEPT ![t] = s]
      BY <1>1, <1>4, <3>1 DEF RepTypes
    <3>3. s \in RepStates /\ s.pc = "save" /\ s.met = rep[t].met /\ s.gfevt = rep[t].gfevt
      BY <3>1, <3>2 DEF RepStates
    <3> QED BY ONLY <3>2, <3>3, t \in RepThreads
  <2>2. doc \in RepDocs
    <3>1. EventTables(repArrays[device_info]) \in SUBSET RepEvents
      BY DEF EventTables
    <3> QED BY <1>2, <1>3, <3>1 DEF RepDocs, RepArrayRecords
  <2>3. ~rep[t].met /\ Reporting = {t} => RepMine(t)'
    <3> SUFFICES ASSUME ~rep[t].met PROVE RepMine(t)'
      OBVIOUS
    <3>1. repArrays[device_info] = AsArray(repGot[t]) /\ _g7report_env = {t}
      BY <1>1 DEF RepInv, RepAlone, RepMine
    <3>2. /\ repArrays[device_info].flds = repGot[t].flds /\ repArrays[device_info].who = repGot[t].who
          /\ repArrays[device_info].events = repGot[t].events
      BY <3>1 DEF AsArray
    <3>3. EventTables(repArrays[device_info]) = EventTables(repGot[t])
      BY <3>2 DEF EventTables
    <3>4. "logged_dates" \in repGot[t].flds => cb_LOGGED_dates_start = repGot[t].who
      BY <3>2 DEF cb_LOGGED_dates_start
    <3>5. /\ pdf_doc'.live /\ pdf_doc'.flds = repGot[t].flds \cap RepCells
          /\ pdf_doc'.events = (IF rep[t].gfevt THEN EventTables(repGot[t]) ELSE {})
          /\ pdf_doc'.who = repGot[t].who
          /\ "logged_dates" \in repGot[t].flds => pdf_doc'.start = repGot[t].who
      BY <1>4, <3>2, <3>3, <3>4
    <3>6. repGot' = repGot /\ repArrays' = repArrays /\ device_info' = device_info /\ _g7report_env' = _g7report_env
      BY <1>1, <1>4
    <3> QED BY <2>1, <3>1, <3>5, <3>6 DEF RepMine
  <2>4. ~repMeeting => Cardinality(RepLiveArrays') = repErrors' + Cardinality(RepPast')
    <3>1. /\ repArrays' \in Seq(RepArrayRecords) /\ Len(repArrays') = Len(repArrays) /\ UNCHANGED repErrors
          /\ \A i \in DOMAIN repArrays : repArrays'[i].live = repArrays[i].live
      BY <1>1, <1>4 DEF RepTypes
    <3> QED BY <1>1, <2>1, <3>1, RepLiveKept
  <2>5. /\ repGot' \in [RepThreads -> RepModels] /\ \A u \in RepThreads \ {t} : rep'[u] = rep[u] /\ repGot'[u] = repGot[u]
        /\ repArrays' \in Seq(RepArrayRecords) /\ device_info' \in 1..Len(repArrays')
        /\ Len(repArrays') <= Len(repArrays) + (IF rep[t].pc = "init" THEN 1 ELSE 0)
        /\ UNCHANGED <<repOut, repSaved, repCount, repErrors, repMeeting, repWild>>
    BY <1>1, <1>2, <1>4, <2>1 DEF RepTypes
  <2>6. pdf_doc' \in RepDocs /\ repStart' \in SUBSET RepThreads
    BY <1>3, <1>4, <2>2
  <2> QED BY <1>1, <1>2, <2>1, <2>3, <2>4, <2>5, <2>6, RepGoesOn
<1>5. CASE /\ ArrayLive
           /\ \E d \in {repStart, cb_LOGGED_dates_start} : repStart' = d
           /\ error_handler(t)
  <2>1. repStart' \in SUBSET RepThreads /\ NoDoc \in RepDocs /\ repSaved' \in SUBSET RepModels
    BY <1>1, <1>3, <1>5, RepConsts DEF RepTypes
  <2>2. CASE _g7report_env # {t} /\ GoWild
    BY <1>1, <2>1, <2>2, RepWildMet
  <2>3. CASE /\ pdf_doc' = NoDoc /\ RepReturn(t, Ended("failed"))
             /\ repErrors' = repErrors + 1 /\ UNCHANGED repWild
    BY <1>1, <2>1, <2>3, RepFails
  <2> QED BY <1>5, <2>2, <2>3 DEF error_handler
<1>6. CASE ~ArrayLive /\ GoWild /\ UNCHANGED repStart
  <2>1. repStart' \in SUBSET RepThreads /\ repSaved' \in SUBSET RepModels
    BY <1>1, <1>6 DEF RepTypes
  <2> QED BY <1>1, <1>6, <2>1, RepWildMet
<1> QED BY <1>4, <1>5, <1>6 DEF layout_g7ctrl_report

\* The model and the document are saved.
LEMMA RepExport ==
    ASSUME RepInv, NEW t \in RepThreads, export_g7ctrl_report(t)
    PROVE  RepInv'
<1> DEFINE m == Model(repArrays[device_info])
<1>1. /\ rep[t].pc = "save" /\ t \in RepPast /\ t \in Reporting /\ RepTypes /\ RepBounds /\ RepUnmet
      /\ UNCHANGED <<device_info, _g7report_env, repStart, repCount, repOdd, repMeeting>>
  BY DEF export_g7ctrl_report, RepPast, Reporting, RepInv
<1>2. device_info \in DOMAIN repArrays /\ device_info \in 1..Len(repArrays) /\ repArrays[device_info] \in RepArrayRecords
      /\ repArrays \in Seq(RepArrayRecords) /\ Len(repArrays) \in Nat /\ repErrors \in Nat
  BY <1>1 DEF RepInv, RepTypes, RepPlaces
<1>3. \A json \in {m, NoModel} : json \in RepModels /\ (repSaved \cup ({json} \ {NoModel})) \in SUBSET RepModels
  BY <1>1, <1>2, RepConsts DEF RepTypes
<1>4. CASE ~(ArrayLive /\ pdf_doc.live) /\ GoWild /\ UNCHANGED repSaved
  <2>1. repStart' \in SUBSET RepThreads /\ repSaved' \in SUBSET RepModels
    BY <1>1, <1>4 DEF RepTypes
  <2> QED BY <1>1, <1>4, <2>1, RepWildMet
<1>5. CASE /\ ArrayLive /\ pdf_doc.live
           /\ \E json \in {m, NoModel} : repSaved' = repSaved \cup ({json} \ {NoModel})
           /\ error_handler(t)
           /\ UNCHANGED repArrays
  <2>1. repStart' \in SUBSET RepThreads /\ NoDoc \in RepDocs /\ repSaved' \in SUBSET RepModels
    BY <1>1, <1>3, <1>5, RepConsts DEF RepTypes
  <2>2. CASE _g7report_env # {t} /\ GoWild
    BY <1>1, <2>1, <2>2, RepWildMet
  <2>3. CASE /\ pdf_doc' = NoDoc /\ RepReturn(t, Ended("failed"))
             /\ repErrors' = repErrors + 1 /\ UNCHANGED repWild
    BY <1>1, <1>5, <2>1, <2>3, RepFails
  <2> QED BY <1>5, <2>2, <2>3 DEF error_handler
<1>6. ASSUME ArrayLive, NEW json \in {m, NoModel}, repSaved' = repSaved \cup ({json} \ {NoModel}),
             RepReturn(t, [rc |-> "written", pdf |-> pdf_doc, json |-> json]),
             pdf_doc' = NoDoc, repArrays' = [repArrays EXCEPT ![device_info] = Destroyed],
             UNCHANGED <<repErrors, repWild>>
      PROVE  RepInv'
  <2>1. PICK out : out = [rc |-> "written", pdf |-> pdf_doc, json |-> json]
    OBVIOUS
  <2>2. /\ out \in [rc : {"none", "failed", "written"}, pdf : RepDocs, json : RepModels]
        /\ out.rc = "written" /\ out.pdf = pdf_doc /\ out.json = json
    <3>1. pdf_doc \in RepDocs /\ json \in RepModels
      BY <1>1, <1>3 DEF RepTypes
    <3> QED BY <2>1, <3>1
  <2>3. RepReturn(t, out)
    BY <1>6, <2>1
  <2>4. /\ rep' \in [RepThreads -> RepStates] /\ rep'[t].pc = "idle" /\ rep'[t].met = rep[t].met
        /\ rep'[t].gfevt = rep[t].gfevt
        /\ \A u \in RepThreads \ {t} : rep'[u] = rep[u]
        /\ repOut'[t] = out /\ repGot'[t] = repGot[t]
    BY <1>1, <2>2, <2>3, RepReturned
  <2>5. RepOwnOf(t)'
    <3> SUFFICES ASSUME ~rep[t].met
                 PROVE  /\ pdf_doc.flds = repGot[t].flds \ NeverShown
                        /\ pdf_doc.events = (IF rep[t].gfevt THEN EventTables(repGot[t]) ELSE {})
                        /\ pdf_doc.who = repGot[t].who
                        /\ "logged_dates" \in repGot[t].flds => pdf_doc.start = repGot[t].who
                        /\ json \in {repGot[t], NoModel}
      BY <2>2, <2>4 DEF RepOwnOf
    <3>1. RepMine(t)
      BY <1>1 DEF RepInv, RepAlone
    <3>2. repGot[t] \in RepModels
      BY <1>1 DEF RepTypes
    <3>3. repGot[t].flds \cap RepCells = repGot[t].flds \ NeverShown
      <4>1. repGot[t].flds \subseteq RepFields
        BY <3>2 DEF RepModels
      <4> QED BY <4>1, RepShown
    <3>4. m = repGot[t]
      BY <3>1, <3>2, RepConsts DEF RepMine
    <3> QED BY <1>1, <1>6, <3>1, <3>3, <3>4 DEF RepMine
  <2>6. repArrays' \in Seq(RepArrayRecords) /\ Len(repArrays') = Len(repArrays)
    <3>1. Destroyed \in RepArrayRecords
      BY RepConsts
    <3> QED BY <1>2, <1>6, <3>1
  <2>7. ~repMeeting => Cardinality(RepLiveArrays') = repErrors' + Cardinality(RepPast')
    <3>1. device_info \in RepLiveArrays /\ device_info \notin RepLiveArrays'
      BY <1>2, <1>6, RepConsts DEF RepLiveArrays, ArrayLive
    <3>2. /\ \A i \in DOMAIN repArrays \ {device_info} : i \in DOMAIN repArrays' /\ repArrays'[i] = repArrays[i]
          /\ \A i \in DOMAIN repArrays' \ {device_info} : i \in DOMAIN repArrays
      BY <1>2, <1>6
    <3>3. /\ Cardinality(RepLiveArrays) \in Nat /\ Cardinality(RepLiveArrays') \in Nat
          /\ Cardinality(RepLiveArrays') + (IF device_info \in RepLiveArrays THEN 1 ELSE 0)
                = Cardinality(RepLiveArrays) + (IF device_info \in RepLiveArrays' THEN 1 ELSE 0)
      BY <1>2, <2>6, <3>2, RepLiveCount
    <3>4. \A u \in RepThreads \ {t} : rep'[u].pc = rep[u].pc
      BY <2>4
    <3>5. IsFiniteSet(Reporting) /\ rep \in [RepThreads -> RepStates]
      BY <1>1 DEF RepBounds, RepTypes
    <3>6. /\ Cardinality(RepPast) \in Nat /\ Cardinality(RepPast') \in Nat
          /\ Cardinality(RepPast') + (IF rep[t].pc \notin {"idle", "init"} THEN 1 ELSE 0)
                = Cardinality(RepPast) + (IF rep'[t].pc \notin {"idle", "init"} THEN 1 ELSE 0)
      BY <2>4, <3>4, <3>5, RepCounts
    <3>7. Cardinality(RepPast') = Cardinality(RepPast) - 1
      BY <1>1, <2>4, <3>6
    <3>8. Cardinality(RepLiveArrays') = Cardinality(RepLiveArrays) - 1
      BY <3>1, <3>3
    <3>9. repErrors' = repErrors
      BY <1>6
    <3> QED BY <1>1, <1>2, <3>3, <3>6, <3>7, <3>8, <3>9 DEF RepUnmet
  <2>8. /\ pdf_doc' \in RepDocs /\ repStart' \in SUBSET RepThreads /\ repSaved' \in SUBSET RepModels
        /\ repErrors' \in repErrors..(repErrors + 1) /\ device_info' \in 0..Len(repArrays')
        /\ (device_info = 0 \/ device_info' # 0)
        /\ Len(repArrays') <= Len(repArrays) + (IF rep[t].pc = "init" THEN 1 ELSE 0)
    BY <1>1, <1>2, <1>3, <1>6, <2>6, RepConsts DEF RepTypes
  <2>9. UNCHANGED <<repCount, repOdd, repMeeting, repWild>>
    BY <1>1, <1>6
  <2> QED BY <1>1, <2>2, <2>3, <2>5, <2>6, <2>7, <2>8, <2>9, RepEnds
<1> QED BY <1>4, <1>5, <1>6 DEF export_g7ctrl_report

\* Every step.
LEMMA RepStep == RepInv /\ [RepNext]_repVars => RepInv'
<1> SUFFICES ASSUME RepInv, [RepNext]_repVars PROVE RepInv'
  OBVIOUS
<1>1. CASE UNCHANGED repVars
  BY <1>1, RepFrame
<1>2. CASE RepNext
  BY <1>2, RepBeginInv, RepInitModel, RepQuery, RepEvent, RepLayout, RepExport DEF RepNext
<1> QED BY <1>1, <1>2

\* The invariant holds in every state.
LEMMA RepInvariant == RepSpec => []RepInv
BY RepInitInv, RepStep, PTL DEF RepSpec

\* A report that no other one met shows and exports what its own device or file told, but for the
\* four fields that no cell reads, whatever the reports before it left behind; and as long as no two
\* reports met nothing freed is used, and the arrays in memory are those of the running reports and
\* of the ones that an error ended: for any number of threads, reports and errors
\* (g7pdf_report_model.c, g7pdf_report_view.c).
THEOREM ReportsAreOwn == RepSpec => []ReportIsOwn
<1>1. RepInv => ReportIsOwn
  BY DEF RepInv, RepOwn, RepOwnOf, RepUnmet, RepLiveArrays, RepPast, ReportIsOwn
<1> QED BY <1>1, RepInvariant, PTL

\* Every variable of the reports keeps its type.
THEOREM ReportTypes == RepSpec => []RepTypeOK
<1>1. RepInv => RepTypeOK
  <2> SUFFICES ASSUME RepInv PROVE RepTypeOK
    OBVIOUS
  <2>1. RepTypes /\ RepPlaces /\ RepBounds
    BY DEF RepInv
  <2>2. Cardinality(_g7report_env) <= 1
    <3>1. CASE _g7report_env = {}
      BY <3>1, FS_EmptySet
    <3>2. ASSUME NEW t \in RepThreads, _g7report_env = {t} PROVE Cardinality(_g7report_env) <= 1
      <4>1. Cardinality({t}) = 1
        BY FS_Singleton
      <4> QED BY <3>2, <4>1
    <3> QED BY <2>1, <3>1, <3>2 DEF RepPlaces
  <2>3. repErrors \in 0..MaxReports /\ Len(repArrays) <= MaxReports /\ repCount \in 0..MaxReports /\ repOdd \in 0..MaxOdd
    <3>1. Cardinality(Reporting) \in Nat /\ Cardinality(RepIniting) \in Nat
      <4>1. RepIniting \subseteq Reporting
        BY DEF RepIniting, Reporting
      <4> QED BY <2>1, <4>1, FS_Subset, FS_CardinalityType DEF RepBounds
    <3> QED BY <2>1, <3>1, ReportAssumption DEF RepBounds, RepTypes, RepIniting
  <2>4. \A t \in RepThreads :
          /\ rep[t].pc \in {"idle", "init", "query", "events", "layout", "save"}
          /\ rep[t].pc = "query" => rep[t].pos \in DOMAIN dev_report_cmd_list
          /\ rep[t].pc = "events" => rep[t].pos \in RepEvents
          /\ repGot[t].flds \subseteq RepFields
          /\ repOut[t].rc \in {"none", "failed", "written"}
    BY <2>1 DEF RepTypes, RepPlaces, RepStates, RepModels
  <2>5. \A i \in DOMAIN repArrays : repArrays[i].flds \subseteq RepFields
    <3>1. \A i \in DOMAIN repArrays : repArrays[i] \in RepArrayRecords
      BY <2>1 DEF RepTypes
    <3> QED BY <3>1 DEF RepArrayRecords
  <2>6. {repMeeting, repWild} \subseteq BOOLEAN /\ pdf_doc.flds \subseteq RepCells
    BY <2>1 DEF RepTypes, RepDocs
  <2> QED BY <2>1, <2>2, <2>3, <2>4, <2>5, <2>6 DEF RepTypes, RepTypeOK
<1> QED BY <1>1, RepInvariant, PTL

-----------------------------------------------------------------------------
(* A session and the shell                                                 *)

\* The words of the lines that the user or a preset can give.
ShVerbs == {"", "get", "get2", "gfevt", "do", "set", "on", "off", "srv", "help", "db", "preset", "native", "reply",
            "password", "exit", "unknown"}

\* Their arguments: names of commands, answers to questions, passwords.
ShNames == {"", "typo", "inrange", "outside", "empty", "dot", "digits", "choice", "other", "long", "right", "wrong"}
           \cup get_cmd_list \cup set_cmd_list \cup do_cmd_list \cup onoff_cmds \cup cmd_list

\* A line to the daemon.
ShLines == [n : Nat, verb : ShVerbs, name : ShNames]

\* An item of an answer.
ShItems == [n : Nat, what : {"text", "hello", "password", "failed", "ask", ""}, end : BOOLEAN]

\* The types of the variables.
ShTypes ==
    /\ spc \in {"pwd", "idle", "arg", "device", "closed", "crashed"}
    /\ tries \in 0..3 /\ (spc = "pwd" => tries # 0)
    /\ line \in ShLines /\ rejected \in ShLines
    /\ args \in [n : Nat, fit : {TRUE}]
    /\ isdigit \in BOOLEAN
    /\ to \in Seq(ShLines) /\ from \in Seq(ShItems) /\ heard \in Seq(ShItems)
    /\ lines \in 0..MaxLines /\ late \in 0..(MaxLate + 1)
    /\ shpc \in {"init", "password", "prompt", "read", "quit"} /\ prompt \in {"command", "arg"}

\* The daemon waits for the next argument of a command that has one.
ShAsks == spc = "arg" => line.name \in Setters /\ args.n < Len(cmdargs(line.name))

\* What is written to the device.
ShWrites ==
    spc = "device" /\ sent.mode = "w" =>
        /\ "w" \in Entry(sent.name).modes /\ sent.args.fit = TRUE
        /\ sent.name \in Setters => sent.args.n \in {1, Len(cmdargs(sent.name))}

\* What is rejected although it is offered: phone, and the setting of a switch.
ShRejects ==
    [verb |-> rejected.verb, name |-> rejected.name] \in Offered =>
        rejected.name = "phone" \/ (rejected.verb = "set" /\ rejected.name \in {"roam", "led", "sleep"})

\* The answer to the last line as far as it is read or can be read.
ShAnswer == heard \o from

\* A part of it: it neither ends nor asks.
ShBegun(r, n) == \A i \in 1..Len(r) : r[i].n = n /\ r[i].end = FALSE /\ r[i].what # "ask"

\* All of it, and whether it asks for an argument.
ShWhole(r, n, asks) ==
    /\ r # <<>> /\ Last(r).end = TRUE
    /\ \A i \in 1..(Len(r) - 1) : r[i].end = FALSE
    /\ \A i \in 1..Len(r) : r[i].n = n
    /\ asks <=> Len(r) > 1 /\ r[Len(r) - 1].what = "ask"

\* Nothing is on its way: the user is asked.
ShAtRest ==
    /\ shpc \in {"prompt", "password"}
    /\ spc \in {"pwd", "idle", "arg"} /\ to = <<>> /\ from = <<>>
    /\ shown = {lines} /\ (spc = "arg" <=> prompt = "arg")

\* A line, or its answer, is on its way.
ShWaiting ==
    /\ shpc \in {"init", "read"}
    /\ \/ /\ spc \in {"pwd", "idle", "arg"} /\ from = <<>> /\ heard = <<>>
          /\ Len(to) = 1 /\ to[1].n = lines
       \/ /\ spc = "device" /\ to = <<>> /\ line.n = lines /\ ShBegun(ShAnswer, lines)
       \/ /\ spc \in {"pwd", "idle", "arg"} /\ to = <<>> /\ from # <<>> /\ ShWhole(ShAnswer, lines, spc = "arg")

\* As long as nobody gave up waiting, the shell asks the user, or waits for one answer.
ShStep == late = 0 /\ shpc # "quit" /\ spc \notin {"closed", "crashed"} => ShAtRest \/ ShWaiting

\* The inductive invariant of the session.
ShInv == ShTypes /\ ShAsks /\ ShWrites /\ ShRejects /\ ShStep

-----------------------------------------------------------------------------
(* The tables.                                                             *)

\* The names, the device commands and the types of the entries.
LEMMA ShRows ==
    /\ DOMAIN g7command_list = 1..30
    /\ g7command_list[1].srvcmd = "roam" /\ g7command_list[1].cmdstr = "ROAMING" /\ g7command_list[1].type = "GETSET_BINARY"
    /\ g7command_list[2].srvcmd = "phone" /\ g7command_list[2].cmdstr = "VLOCATION" /\ g7command_list[2].type = "GETSET"
    /\ g7command_list[3].srvcmd = "led" /\ g7command_list[3].cmdstr = "ELED" /\ g7command_list[3].type = "GETSET_BINARY"
    /\ g7command_list[4].srvcmd = "gfen" /\ g7command_list[4].cmdstr = "GFEN" /\ g7command_list[4].type = "GETSET"
    /\ g7command_list[5].srvcmd = "sleep" /\ g7command_list[5].cmdstr = "SLEEP" /\ g7command_list[5].type = "GETSET_BINARY"
    /\ g7command_list[6].srvcmd = "loc" /\ g7command_list[6].cmdstr = "GETLOCATION" /\ g7command_list[6].type = "GET"
    /\ g7command_list[7].srvcmd = "locg" /\ g7command_list[7].cmdstr = "GETLOCATION" /\ g7command_list[7].type = "GET"
    /\ g7command_list[8].srvcmd = "imei" /\ g7command_list[8].cmdstr = "IMEI" /\ g7command_list[8].type = "GET"
    /\ g7command_list[9].srvcmd = "sim" /\ g7command_list[9].cmdstr = "SIMID" /\ g7command_list[9].type = "GET"
    /\ g7command_list[10].srvcmd = "ver" /\ g7command_list[10].cmdstr = "VER" /\ g7command_list[10].type = "GET"
    /\ g7command_list[11].srvcmd = "nrec" /\ g7command_list[11].cmdstr = "DLREC" /\ g7command_list[11].type = "GET"
    /\ g7command_list[12].srvcmd = "batt" /\ g7command_list[12].cmdstr = "XXXX" /\ g7command_list[12].type = "GET"
    /\ g7command_list[13].srvcmd = "track" /\ g7command_list[13].cmdstr = "TRACK" /\ g7command_list[13].type = "GETSET"
    /\ g7command_list[14].srvcmd = "mswitch" /\ g7command_list[14].cmdstr = "SETRA" /\ g7command_list[14].type = "GETSET"
    /\ g7command_list[15].srvcmd = "tz" /\ g7command_list[15].cmdstr = "SETTZ" /\ g7command_list[15].type = "GETSET"
    /\ g7command_list[16].srvcmd = "sms" /\ g7command_list[16].cmdstr = "SMSM" /\ g7command_list[16].type = "GETSET"
    /\ g7command_list[17].srvcmd = "comm" /\ g7command_list[17].cmdstr = "COMMTYPE" /\ g7command_list[17].type = "GETSET"
    /\ g7command_list[18].srvcmd = "vip" /\ g7command_list[18].cmdstr = "SETVIP" /\ g7command_list[18].type = "GETSET"
    /\ g7command_list[19].srvcmd = "ps" /\ g7command_list[19].cmdstr = "PSMT" /\ g7command_list[19].type = "GETSET"
    /\ g7command_list[20].srvcmd = "config" /\ g7command_list[20].cmdstr = "UNCFG" /\ g7command_list[20].type = "GETSET"
    /\ g7command_list[21].srvcmd = "gfevt" /\ g7command_list[21].cmdstr = "SETEVT" /\ g7command_list[21].type = "GETSET"
    /\ g7command_list[22].srvcmd = "rec" /\ g7command_list[22].cmdstr = "REC" /\ g7command_list[22].type = "GETSET"
    /\ g7command_list[23].srvcmd = "lowbatt" /\ g7command_list[23].cmdstr = "LOWBATT" /\ g7command_list[23].type = "GETSET"
    /\ g7command_list[24].srvcmd = "sens" /\ g7command_list[24].cmdstr = "GSS" /\ g7command_list[24].type = "GETSET"
    /\ g7command_list[25].srvcmd = "clrec" /\ g7command_list[25].cmdstr = "CLREC" /\ g7command_list[25].type = "DO"
    /\ g7command_list[26].srvcmd = "dlrec" /\ g7command_list[26].cmdstr = "DLREC" /\ g7command_list[26].type = "DO"
    /\ g7command_list[27].srvcmd = "reboot" /\ g7command_list[27].cmdstr = "REBOOT" /\ g7command_list[27].type = "DO"
    /\ g7command_list[28].srvcmd = "reset" /\ g7command_list[28].cmdstr = "RESET" /\ g7command_list[28].type = "DO"
    /\ g7command_list[29].srvcmd = "test" /\ g7command_list[29].cmdstr = "TEST" /\ g7command_list[29].type = "DO"
    /\ g7command_list[30].srvcmd = "address" /\ g7command_list[30].cmdstr = "GETADDRESS" /\ g7command_list[30].type = "GET"
<1>1. DOMAIN g7command_list = 1..30
  BY DEF g7command_list
<1>2. /\ g7command_list[1].srvcmd = "roam" /\ g7command_list[1].cmdstr = "ROAMING" /\ g7command_list[1].type = "GETSET_BINARY"
      /\ g7command_list[2].srvcmd = "phone" /\ g7command_list[2].cmdstr = "VLOCATION" /\ g7command_list[2].type = "GETSET"
      /\ g7command_list[3].srvcmd = "led" /\ g7command_list[3].cmdstr = "ELED" /\ g7command_list[3].type = "GETSET_BINARY"
      /\ g7command_list[4].srvcmd = "gfen" /\ g7command_list[4].cmdstr = "GFEN" /\ g7command_list[4].type = "GETSET"
      /\ g7command_list[5].srvcmd = "sleep" /\ g7command_list[5].cmdstr = "SLEEP" /\ g7command_list[5].type = "GETSET_BINARY"
  BY DEF g7command_list, Cmd
<1>3. /\ g7command_list[6].srvcmd = "loc" /\ g7command_list[6].cmdstr = "GETLOCATION" /\ g7command_list[6].type = "GET"
      /\ g7command_list[7].srvcmd = "locg" /\ g7command_list[7].cmdstr = "GETLOCATION" /\ g7command_list[7].type = "GET"
      /\ g7command_list[8].srvcmd = "imei" /\ g7command_list[8].cmdstr = "IMEI" /\ g7command_list[8].type = "GET"
      /\ g7command_list[9].srvcmd = "sim" /\ g7command_list[9].cmdstr = "SIMID" /\ g7command_list[9].type = "GET"
      /\ g7command_list[10].srvcmd = "ver" /\ g7command_list[10].cmdstr = "VER" /\ g7command_list[10].type = "GET"
  BY DEF g7command_list, Cmd
<1>4. /\ g7command_list[11].srvcmd = "nrec" /\ g7command_list[11].cmdstr = "DLREC" /\ g7command_list[11].type = "GET"
      /\ g7command_list[12].srvcmd = "batt" /\ g7command_list[12].cmdstr = "XXXX" /\ g7command_list[12].type = "GET"
      /\ g7command_list[13].srvcmd = "track" /\ g7command_list[13].cmdstr = "TRACK" /\ g7command_list[13].type = "GETSET"
      /\ g7command_list[14].srvcmd = "mswitch" /\ g7command_list[14].cmdstr = "SETRA" /\ g7command_list[14].type = "GETSET"
      /\ g7command_list[15].srvcmd = "tz" /\ g7command_list[15].cmdstr = "SETTZ" /\ g7command_list[15].type = "GETSET"
  BY DEF g7command_list, Cmd
<1>5. /\ g7command_list[16].srvcmd = "sms" /\ g7command_list[16].cmdstr = "SMSM" /\ g7command_list[16].type = "GETSET"
      /\ g7command_list[17].srvcmd = "comm" /\ g7command_list[17].cmdstr = "COMMTYPE" /\ g7command_list[17].type = "GETSET"
      /\ g7command_list[18].srvcmd = "vip" /\ g7command_list[18].cmdstr = "SETVIP" /\ g7command_list[18].type = "GETSET"
      /\ g7command_list[19].srvcmd = "ps" /\ g7command_list[19].cmdstr = "PSMT" /\ g7command_list[19].type = "GETSET"
      /\ g7command_list[20].srvcmd = "config" /\ g7command_list[20].cmdstr = "UNCFG" /\ g7command_list[20].type = "GETSET"
  BY DEF g7command_list, Cmd
<1>6. /\ g7command_list[21].srvcmd = "gfevt" /\ g7command_list[21].cmdstr = "SETEVT" /\ g7command_list[21].type = "GETSET"
      /\ g7command_list[22].srvcmd = "rec" /\ g7command_list[22].cmdstr = "REC" /\ g7command_list[22].type = "GETSET"
      /\ g7command_list[23].srvcmd = "lowbatt" /\ g7command_list[23].cmdstr = "LOWBATT" /\ g7command_list[23].type = "GETSET"
      /\ g7command_list[24].srvcmd = "sens" /\ g7command_list[24].cmdstr = "GSS" /\ g7command_list[24].type = "GETSET"
      /\ g7command_list[25].srvcmd = "clrec" /\ g7command_list[25].cmdstr = "CLREC" /\ g7command_list[25].type = "DO"
  BY DEF g7command_list, Cmd
<1>7. /\ g7command_list[26].srvcmd = "dlrec" /\ g7command_list[26].cmdstr = "DLREC" /\ g7command_list[26].type = "DO"
      /\ g7command_list[27].srvcmd = "reboot" /\ g7command_list[27].cmdstr = "REBOOT" /\ g7command_list[27].type = "DO"
      /\ g7command_list[28].srvcmd = "reset" /\ g7command_list[28].cmdstr = "RESET" /\ g7command_list[28].type = "DO"
      /\ g7command_list[29].srvcmd = "test" /\ g7command_list[29].cmdstr = "TEST" /\ g7command_list[29].type = "DO"
      /\ g7command_list[30].srvcmd = "address" /\ g7command_list[30].cmdstr = "GETADDRESS" /\ g7command_list[30].type = "GET"
  BY DEF g7command_list, Cmd
<1> QED BY <1>1, <1>2, <1>3, <1>4, <1>5, <1>6, <1>7

\* The commands that ask for arguments.
LEMMA ShSetters ==
    Setters = {"sleep", "roam", "phone", "led", "mswitch", "lowbatt", "sms", "sens", "tz", "gfen", "track",
               "comm", "ps", "config", "vip", "gfevt", "rec"}
  BY DEF Setters, cmdargs_list_1, cmdargs_list_2, cmdargs_list_3

\* What an entry with a type can be called.
LEMMA ShKinds ==
    ASSUME NEW i \in DOMAIN g7command_list
    PROVE  /\ g7command_list[i].type = "GETSET_BINARY" => g7command_list[i].srvcmd \in {"roam", "led", "sleep"}
           /\ g7command_list[i].type \in {"SET", "GETSET"} => g7command_list[i].srvcmd \in Setters
           /\ g7command_list[i].type = "DO" => g7command_list[i].srvcmd \notin Setters
<1>1. i \in 1..10 \/ i \in 11..20 \/ i \in 21..30
  BY ShRows
<1>2. CASE i \in 1..10
  BY <1>2, ShRows, ShSetters
<1>3. CASE i \in 11..20
  BY <1>3, ShRows, ShSetters
<1>4. CASE i \in 21..30
  BY <1>4, ShRows, ShSetters
<1> QED BY <1>1, <1>2, <1>3, <1>4

\* The device command of a command with arguments leads back to it.
LEMMA ShUnique ==
    ASSUME NEW n \in 1..5 \cup 13..24, NEW i \in 1..30,
           g7command_list[i].srvcmd = g7command_list[n].srvcmd \/ g7command_list[i].cmdstr = g7command_list[n].cmdstr
    PROVE  i = n
<1>1. CASE n \in 1..5
  BY <1>1, ShRows
<1>2. CASE n \in 13..16
  BY <1>2, ShRows
<1>3. CASE n \in 17..20
  BY <1>3, ShRows
<1>4. CASE n \in 21..24
  BY <1>4, ShRows
<1> QED BY <1>1, <1>2, <1>3, <1>4

\* The name of a command is found again from the command of the device.
LEMMA ShRoundTrip ==
    ASSUME NEW name \in Setters
    PROVE  get_srvcmd_from_devcmd(get_devcmd_from_srvcmd(name)) = name
<1>1. PICK n \in 1..5 \cup 13..24 : g7command_list[n].srvcmd = name
  <2>1. name \in {"roam", "phone", "led", "gfen", "sleep", "track", "mswitch", "tz", "sms", "comm", "vip", "ps", "config",
                  "gfevt", "rec", "lowbatt", "sens"}
    BY ShSetters
  <2> QED BY <2>1, ShRows
<1>2. DOMAIN g7command_list = 1..30 /\ n \in 1..30
  BY ShRows
<1>3. \A i \in 1..30 : g7command_list[i].srvcmd = name => i = n
  BY <1>1, ShUnique
<1>4. \A i \in 1..30 : g7command_list[i].cmdstr = g7command_list[n].cmdstr => i = n
  BY ShUnique
<1>5. Entry(name) = g7command_list[n]
  BY <1>1, <1>2, <1>3 DEF Entry
<1> DEFINE First(i) == /\ g7command_list[i].cmdstr = g7command_list[n].cmdstr
                       /\ \A k \in 1..(i - 1) : g7command_list[k].cmdstr # g7command_list[n].cmdstr
<1>6. First(n)
  <2> SUFFICES ASSUME NEW k \in 1..(n - 1) PROVE g7command_list[k].cmdstr # g7command_list[n].cmdstr
    OBVIOUS
  <2>1. k \in 1..30 /\ k # n
    BY <1>2
  <2> QED BY <1>4, <2>1
<1>7. \A i \in DOMAIN g7command_list : First(i) => i = n
  BY <1>2, <1>4
<1>8. get_srvcmd_from_devcmd(get_devcmd_from_srvcmd(name)) = g7command_list[CHOOSE i \in DOMAIN g7command_list : First(i)].srvcmd
  BY <1>5 DEF get_srvcmd_from_devcmd, get_devcmd_from_srvcmd
<1>9. (CHOOSE i \in DOMAIN g7command_list : First(i)) = n
  <2> HIDE DEF First
  <2> QED BY <1>2, <1>6, <1>7
<1> QED BY <1>1, <1>8, <1>9

\* What completion offers after "get", "set", "do", "on" and "off" is found in the table, but for
\* "phone" after "on" and "off" and the three binary commands after "set".
LEMMA ShOffers ==
    /\ \A name \in get_cmd_list : Found(name, {"GET", "GETSET_BINARY", "GETSET"}) # {}
    /\ \A name \in set_cmd_list : name \notin {"roam", "led", "sleep"} => Found(name, {"SET", "GETSET"}) # {}
    /\ \A name \in do_cmd_list : Found(name, {"DO"}) # {}
    /\ \A name \in onoff_cmds : name # "phone" => Found(name, {"GETSET_BINARY"}) # {}
<1>0. ASSUME NEW i \in 1..30, NEW types, g7command_list[i].type \in types
      PROVE  Found(g7command_list[i].srvcmd, types) # {}
  BY <1>0, ShRows DEF Found
<1>1. ASSUME NEW name \in get_cmd_list PROVE Found(name, {"GET", "GETSET_BINARY", "GETSET"}) # {}
  <2>1. \E i \in 1..30 : g7command_list[i].srvcmd = name /\ g7command_list[i].type \in {"GET", "GETSET_BINARY", "GETSET"}
    BY ShRows DEF get_cmd_list
  <2> QED BY <1>0, <2>1
<1>2. ASSUME NEW name \in set_cmd_list, name \notin {"roam", "led", "sleep"} PROVE Found(name, {"SET", "GETSET"}) # {}
  <2>1. \E i \in 1..30 : g7command_list[i].srvcmd = name /\ g7command_list[i].type \in {"SET", "GETSET"}
    BY <1>2, ShRows DEF set_cmd_list
  <2> QED BY <1>0, <2>1
<1>3. ASSUME NEW name \in do_cmd_list PROVE Found(name, {"DO"}) # {}
  <2>1. \E i \in 1..30 : g7command_list[i].srvcmd = name /\ g7command_list[i].type \in {"DO"}
    BY ShRows DEF do_cmd_list
  <2> QED BY <1>0, <2>1
<1>4. ASSUME NEW name \in onoff_cmds, name # "phone" PROVE Found(name, {"GETSET_BINARY"}) # {}
  <2>1. \E i \in 1..30 : g7command_list[i].srvcmd = name /\ g7command_list[i].type \in {"GETSET_BINARY"}
    BY <1>4, ShRows DEF onoff_cmds
  <2> QED BY <1>0, <2>1
<1> QED BY <1>1, <1>2, <1>3, <1>4

\* An argument list is a sequence.
LEMMA ShArgLists ==
    ASSUME NEW name \in Setters
    PROVE  cmdargs(name) \in Seq([type : {"SELECT", "INT", "STRING"}, nsel : Nat, listed : Nat])
<1> DEFINE Rec == [type : {"SELECT", "INT", "STRING"}, nsel : Nat, listed : Nat]
<1>1. /\ Sel(2) \in Rec /\ Sel(3) \in Rec /\ Sel(4) \in Rec /\ Sel(5) \in Rec /\ Sel(10) \in Rec /\ Num \in Rec /\ Txt \in Rec
      /\ [type |-> "SELECT", nsel |-> 2, listed |-> 3] \in Rec
  BY DEF Sel, Num, Txt
<1> HIDE DEF Rec
<1>2. CASE name \in {"sleep", "roam", "phone", "led", "mswitch", "lowbatt", "sms", "sens", "tz"}
  <2>1. cmdargs(name) = cmdargs_list_1[name]
    BY <1>2 DEF cmdargs, cmdargs_list_1
  <2>2. cmdargs_list_1[name] \in Seq(Rec)
    <3>1. cmdargs_list_1["sleep"] \in Seq(Rec)
      BY <1>1 DEF cmdargs_list_1
    <3>2. cmdargs_list_1["roam"] \in Seq(Rec)
      BY <1>1 DEF cmdargs_list_1
    <3>3. cmdargs_list_1["phone"] \in Seq(Rec)
      BY <1>1 DEF cmdargs_list_1
    <3>4. cmdargs_list_1["led"] \in Seq(Rec)
      BY <1>1 DEF cmdargs_list_1
    <3>5. cmdargs_list_1["mswitch"] \in Seq(Rec)
      BY <1>1 DEF cmdargs_list_1
    <3>6. cmdargs_list_1["lowbatt"] \in Seq(Rec)
      BY <1>1 DEF cmdargs_list_1
    <3>7. cmdargs_list_1["sms"] \in Seq(Rec)
      BY <1>1 DEF cmdargs_list_1
    <3>8. cmdargs_list_1["sens"] \in Seq(Rec)
      BY <1>1 DEF cmdargs_list_1
    <3>9. cmdargs_list_1["tz"] \in Seq(Rec)
      BY <1>1 DEF cmdargs_list_1
    <3> QED BY <1>2, <3>1, <3>2, <3>3, <3>4, <3>5, <3>6, <3>7, <3>8, <3>9
  <2> QED BY <2>1, <2>2 DEF Rec
<1>3. CASE name \in {"gfen", "track", "comm"}
  <2>1. cmdargs(name) = cmdargs_list_2[name]
    BY <1>3 DEF cmdargs, cmdargs_list_1, cmdargs_list_2
  <2>2. cmdargs_list_2[name] \in Seq(Rec)
    <3>1. cmdargs_list_2["gfen"] \in Seq(Rec)
      BY <1>1 DEF cmdargs_list_2
    <3>2. cmdargs_list_2["track"] \in Seq(Rec)
      BY <1>1 DEF cmdargs_list_2
    <3>3. cmdargs_list_2["comm"] \in Seq(Rec)
      BY <1>1 DEF cmdargs_list_2
    <3> QED BY <1>3, <3>1, <3>2, <3>3
  <2> QED BY <2>1, <2>2 DEF Rec
<1>4. CASE name \in {"ps", "config", "vip", "gfevt", "rec"}
  <2>1. cmdargs(name) = cmdargs_list_3[name]
    BY <1>4 DEF cmdargs, cmdargs_list_1, cmdargs_list_2
  <2>2. cmdargs_list_3[name] \in Seq(Rec)
    <3>1. cmdargs_list_3["ps"] \in Seq(Rec)
      BY <1>1 DEF cmdargs_list_3
    <3>2. cmdargs_list_3["config"] \in Seq(Rec)
      BY <1>1 DEF cmdargs_list_3
    <3>3. cmdargs_list_3["vip"] \in Seq(Rec)
      BY <1>1 DEF cmdargs_list_3
    <3>4. cmdargs_list_3["gfevt"] \in Seq(Rec)
      BY <1>1 DEF cmdargs_list_3
    <3>5. cmdargs_list_3["rec"] \in Seq(Rec)
      BY <1>1 DEF cmdargs_list_3
    <3> QED BY <1>4, <3>1, <3>2, <3>3, <3>4, <3>5
  <2> QED BY <2>1, <2>2 DEF Rec
<1> QED BY <1>2, <1>3, <1>4, ShSetters

-----------------------------------------------------------------------------
(* What a step of the daemon does with line n: it answers, it asks, it     *)
(* turns to the device, or it leaves.                                      *)

\* Arguments that fit.
ShArgs == [n : Nat, fit : {TRUE}]

\* What interpreting the line n does: it answers and is over;
ShToldOver(n) ==
    /\ spc' = "idle" /\ line' = NoLine /\ args' = NoArgs /\ isdigit' = TRUE /\ sent' = NotSent
    /\ from' \in {from \o <<Text(n, "text"), End(n)>>, from \o <<End(n)>>}

\* It writes to the device;
ShToldDevice(n) ==
    /\ spc' = "device" /\ line' \in ShLines /\ line'.n = n /\ args' \in ShArgs /\ isdigit' \in BOOLEAN
    /\ from' \in {from, from \o <<Text(n, "text")>>}
    /\ ShWrites'

\* it asks for an argument;
ShToldArg(n) ==
    /\ spc' = "arg" /\ line' \in ShLines /\ args' \in ShArgs /\ isdigit' \in BOOLEAN
    /\ ShAsks'
    /\ from' = from \o <<Text(n, "ask"), End(n)>>

\* it ends the session;
ShToldGone(n) ==
    /\ spc' \in {"closed", "crashed"} /\ line' \in ShLines /\ args' \in ShArgs /\ isdigit' \in BOOLEAN
    /\ from' \in {from, from \o <<Text(n, "text")>>}

\* or it answers a password.
ShToldPassword(n) ==
    /\ spc' \in {"idle", "pwd", "closed"} /\ line' = line /\ args' = args /\ isdigit' = isdigit
    /\ from' \in {from \o <<Text(n, w), End(n)>> : w \in {"hello", "password", "failed"}}

\* One of these.
ShTold(n) == ShToldOver(n) \/ ShToldDevice(n) \/ ShToldArg(n) \/ ShToldGone(n) \/ ShToldPassword(n)

\* A line that is answered at once is over.
LEMMA ShAnsweredTold ==
    ASSUME NEW l, Answered(l, "text") \/ Quiet(l)
    PROVE  ShToldOver(l.n)
  BY DEF Answered, Quiet, Write, ShToldOver

\* A command is written to the device with the arguments it has, or is over.
LEMMA ShPrepareTold ==
    ASSUME NEW l \in ShLines, NEW name, NEW mode, NEW a \in ShArgs, isdigit \in BOOLEAN,
           mode = "w" /\ name \in Setters => a.n \in {1, Len(cmdargs(name))},
           prepare_cmd_to_device(l, name, mode, a)
    PROVE  ShToldOver(l.n) \/ ShToldDevice(l.n)
<1>1. CASE Answered(l, "text")
  BY <1>1, ShAnsweredTold
<1>2. CASE /\ mode \in Entry(name).modes
           /\ spc' = "device" /\ sent' = [name |-> name, mode |-> mode, args |-> a]
           /\ line' = l /\ args' = a /\ UNCHANGED <<from, isdigit>>
  <2>1. sent'.name = name /\ sent'.mode = mode /\ sent'.args = a
    BY <1>2
  <2>2. sent'.args.fit = TRUE /\ sent'.args.n = a.n
    BY <2>1 DEF ShArgs
  <2>3. ShWrites'
    BY <1>2, <2>1, <2>2 DEF ShWrites
  <2> QED BY <1>2, <2>3 DEF ShToldDevice
<1> QED BY <1>1, <1>2 DEF prepare_cmd_to_device

\* A question is written to the device.
LEMMA ShQueryTold ==
    ASSUME NEW l \in ShLines, NEW name, isdigit \in BOOLEAN, args \in ShArgs, Query(l, name)
    PROVE  ShToldDevice(l.n)
<1>1. sent'.mode = "r"
  BY DEF Query
<1> QED BY <1>1 DEF Query, ShToldDevice, ShWrites

\* So are those of a command that gathers several answers.
LEMMA ShGatherTold ==
    ASSUME NEW l \in ShLines, isdigit \in BOOLEAN, args \in ShArgs, Gather(l)
    PROVE  ShToldDevice(l.n)
<1>1. sent'.mode = ""
  BY DEF Gather, NotSent
<1> QED BY <1>1 DEF Gather, Write, ShToldDevice, ShWrites

\* A command with arguments asks for the first one, or is over.
LEMMA ShAskFirstTold ==
    ASSUME NEW l \in ShLines, l.name \in Setters, isdigit \in BOOLEAN, AskFirst(l, l.name)
    PROVE  ShTold(l.n)
<1>1. CASE prepare_cmd_to_device(l, l.name, "w", [n |-> 1, fit |-> TRUE])
  <2>1. [n |-> 1, fit |-> TRUE] \in ShArgs /\ [n |-> 1, fit |-> TRUE].n = 1
    BY DEF ShArgs
  <2> QED BY <1>1, <2>1, ShPrepareTold DEF ShTold
<1>2. CASE /\ cmdargs(l.name) # <<>>
           /\ spc' = "arg" /\ args' = NoArgs /\ isdigit' = TRUE
           /\ line' = l /\ Ask(l.n) /\ UNCHANGED sent
  <2>1. cmdargs(l.name) \in Seq([type : {"SELECT", "INT", "STRING"}, nsel : Nat, listed : Nat])
    BY ShArgLists
  <2>2. 0 < Len(cmdargs(l.name))
    BY <1>2, <2>1
  <2>3. args' \in ShArgs /\ args'.n = 0
    BY <1>2 DEF NoArgs, ShArgs
  <2>4. ShAsks'
    BY <1>2, <2>2, <2>3 DEF ShAsks
  <2> QED BY <1>2, <2>3, <2>4 DEF ShToldArg, ShTold, Ask, Write
<1> QED BY <1>1, <1>2 DEF AskFirst

\* What help offers, by verb.
LEMMA ShOffered ==
    ASSUME NEW v, NEW name, [verb |-> v, name |-> name] \in Offered
    PROVE  \/ v = "get" /\ name \in get_cmd_list
           \/ v = "do" /\ name \in do_cmd_list
           \/ v = "set" /\ name \in set_cmd_list
           \/ v \in {"on", "off"} /\ name \in onoff_cmds
           \/ v = "srv" /\ name \in cmd_list
           \/ v \in {"help", "db", "preset"} /\ name = ""
  BY DEF Offered

\* No line is a line.
LEMMA ShNoLine == NoLine \in ShLines /\ NoLine.verb = "" /\ NoLine.n = 0
  BY DEF NoLine, ShLines, ShVerbs, ShNames

\* A line that is not rejected.
LEMMA ShNotRejected ==
    ASSUME rejected' = NoLine
    PROVE  rejected' \in ShLines /\ ShRejects'
<1>0. NoLine \in ShLines /\ NoLine.verb = ""
  BY ShNoLine
<1>1. rejected'.verb = "" /\ rejected' \in ShLines
  BY <1>0
<1>2. [verb |-> rejected'.verb, name |-> rejected'.name] \notin Offered
  BY <1>1, ShOffered
<1> QED BY <1>1, <1>2 DEF ShRejects

\* A line that is rejected was not offered, with the known exceptions.
LEMMA ShRejected ==
    ASSUME NEW l \in ShLines, rejected' = [l EXCEPT !.n = 0],
           [verb |-> l.verb, name |-> l.name] \in Offered =>
               l.name = "phone" \/ (l.verb = "set" /\ l.name \in {"roam", "led", "sleep"})
    PROVE  rejected' \in ShLines /\ ShRejects'
<1>1. rejected' \in ShLines /\ rejected'.verb = l.verb /\ rejected'.name = l.name
  BY DEF ShLines
<1> QED BY <1>1 DEF ShRejects

\* A line that is read is answered, and what is refused is not what completion offers.
ShGood(l) == ShTold(l.n) /\ rejected' \in ShLines /\ ShRejects'

\* The entries of the table by their type.
LEMMA ShFound ==
    ASSUME NEW name
    PROVE  /\ Found(name, {"GETSET_BINARY"}) # {} => name \in {"roam", "led", "sleep"}
           /\ Found(name, {"SET", "GETSET"}) # {} => name \in Setters
           /\ Found(name, {"DO"}) # {} => name \notin Setters
  BY ShKinds DEF Found

\* The line of a switch is interpreted well.
LEMMA ShBinary ==
    ASSUME NEW l \in ShLines, isdigit \in BOOLEAN, exec_binary_command(l)
    PROVE  ShGood(l)
<1>0. l.verb \in {"on", "off"}
  BY DEF exec_binary_command, Take
<1>1. CASE Found(l.name, {"GETSET_BINARY"}) = {} /\ Refuse(l)
  <2>1. ShTold(l.n) /\ rejected' = [l EXCEPT !.n = 0]
    BY <1>1, ShAnsweredTold DEF Refuse, ShTold
  <2>2. [verb |-> l.verb, name |-> l.name] \in Offered => l.name = "phone"
    <3> SUFFICES ASSUME [verb |-> l.verb, name |-> l.name] \in Offered PROVE l.name = "phone"
      OBVIOUS
    <3>1. l.name \in onoff_cmds
      BY <1>0, ShOffered
    <3> QED BY <1>1, <3>1, ShOffers
  <2> QED BY <2>1, <2>2, ShRejected DEF ShGood
<1>2. CASE /\ Found(l.name, {"GETSET_BINARY"}) # {} /\ rejected' = NoLine
           /\ \/ AskFirst(l, l.name)
              \/ prepare_cmd_to_device(l, l.name, "w", [n |-> 1, fit |-> TRUE])
  <2>1. l.name \in Setters
    BY <1>2, ShFound, ShSetters
  <2>2. [n |-> 1, fit |-> TRUE] \in ShArgs /\ [n |-> 1, fit |-> TRUE].n = 1
    BY DEF ShArgs
  <2>3. ShTold(l.n)
    <3>1. CASE AskFirst(l, l.name)
      BY <2>1, <3>1, ShAskFirstTold
    <3>2. CASE prepare_cmd_to_device(l, l.name, "w", [n |-> 1, fit |-> TRUE])
      BY <2>2, <3>2, ShPrepareTold DEF ShTold
    <3> QED BY <1>2, <3>1, <3>2
  <2> QED BY <1>2, <2>3, ShNotRejected DEF ShGood
<1> QED BY <1>1, <1>2 DEF exec_binary_command

\* So are the other lines: get locg,
LEMMA ShLocg ==
    ASSUME NEW l \in ShLines, isdigit \in BOOLEAN, args \in ShArgs, exec_get_locg(l)
    PROVE  ShGood(l)
  BY ShQueryTold, ShNotRejected DEF exec_get_locg, ShGood, ShTold

\* No arguments fit.
LEMMA ShNoArgs == NoArgs \in ShArgs
  BY DEF NoArgs, ShArgs

\* get gfevt,
LEMMA ShGfevt ==
    ASSUME NEW l \in ShLines, isdigit \in BOOLEAN, exec_get_gfevt(l)
    PROVE  ShGood(l)
<1>1. rejected' = NoLine /\ (Answered(l, "text") \/ prepare_cmd_to_device(l, "gfevt", "r", NoArgs))
  BY DEF exec_get_gfevt
<1>2. CASE Answered(l, "text")
  BY <1>1, <1>2, ShAnsweredTold, ShNotRejected DEF ShGood, ShTold
<1>3. CASE prepare_cmd_to_device(l, "gfevt", "r", NoArgs)
  BY <1>1, <1>3, ShNoArgs, ShPrepareTold, ShNotRejected DEF ShGood, ShTold
<1> QED BY <1>1, <1>2, <1>3

\* get,
LEMMA ShGet ==
    ASSUME NEW l \in ShLines, isdigit \in BOOLEAN, args \in ShArgs, exec_get_command(l)
    PROVE  ShGood(l)
<1>0. l.verb \in {"get", "get2"}
  BY DEF exec_get_command, Take
<1>1. CASE Found(l.name, {"GET", "GETSET_BINARY", "GETSET"}) = {} /\ Refuse(l)
  <2>1. ShTold(l.n) /\ rejected' = [l EXCEPT !.n = 0]
    BY <1>1, ShAnsweredTold DEF Refuse, ShTold
  <2>2. ~([verb |-> l.verb, name |-> l.name] \in Offered)
    <3> SUFFICES ASSUME [verb |-> l.verb, name |-> l.name] \in Offered PROVE FALSE
      OBVIOUS
    <3>1. l.name \in get_cmd_list
      BY <1>0, ShOffered
    <3> QED BY <1>1, <3>1, ShOffers
  <2> QED BY <2>1, <2>2, ShRejected DEF ShGood
<1>2. CASE /\ rejected' = NoLine
           /\ \/ spc' = "crashed" /\ line' = l /\ UNCHANGED <<from, args, isdigit, sent>>
              \/ Query(l, "loc")
              \/ Answered(l, "text")
              \/ prepare_cmd_to_device(l, l.name, "r", NoArgs)
  <2>1. ShTold(l.n)
    <3>1. CASE spc' = "crashed" /\ line' = l /\ UNCHANGED <<from, args, isdigit, sent>>
      BY <3>1 DEF ShTold, ShToldGone
    <3>2. CASE Query(l, "loc")
      BY <3>2, ShQueryTold DEF ShTold
    <3>3. CASE Answered(l, "text")
      BY <3>3, ShAnsweredTold DEF ShTold
    <3>4. CASE prepare_cmd_to_device(l, l.name, "r", NoArgs)
      BY <3>4, ShNoArgs, ShPrepareTold DEF ShTold
    <3> QED BY <1>2, <3>1, <3>2, <3>3, <3>4
  <2> QED BY <1>2, <2>1, ShNotRejected DEF ShGood
<1> QED BY <1>1, <1>2 DEF exec_get_command

\* set,
LEMMA ShSet ==
    ASSUME NEW l \in ShLines, isdigit \in BOOLEAN, exec_set_command(l)
    PROVE  ShGood(l)
<1>0. l.verb = "set"
  BY DEF exec_set_command, Take
<1>1. CASE Found(l.name, {"SET", "GETSET"}) = {} /\ Refuse(l)
  <2>1. ShTold(l.n) /\ rejected' = [l EXCEPT !.n = 0]
    BY <1>1, ShAnsweredTold DEF Refuse, ShTold
  <2>2. [verb |-> l.verb, name |-> l.name] \in Offered => l.name \in {"roam", "led", "sleep"}
    <3> SUFFICES ASSUME [verb |-> l.verb, name |-> l.name] \in Offered PROVE l.name \in {"roam", "led", "sleep"}
      OBVIOUS
    <3>1. l.name \in set_cmd_list
      BY <1>0, ShOffered
    <3> QED BY <1>1, <3>1, ShOffers
  <2> QED BY <1>0, <2>1, <2>2, ShRejected DEF ShGood
<1>2. CASE Found(l.name, {"SET", "GETSET"}) # {} /\ rejected' = NoLine /\ AskFirst(l, l.name)
  BY <1>2, ShFound, ShAskFirstTold, ShNotRejected DEF ShGood
<1> QED BY <1>1, <1>2 DEF exec_set_command

\* do,
LEMMA ShDo ==
    ASSUME NEW l \in ShLines, isdigit \in BOOLEAN, args \in ShArgs, exec_do_command(l)
    PROVE  ShGood(l)
<1>0. l.verb = "do"
  BY DEF exec_do_command, Take
<1>1. CASE Found(l.name, {"DO"}) = {} /\ Refuse(l)
  <2>1. ShTold(l.n) /\ rejected' = [l EXCEPT !.n = 0]
    BY <1>1, ShAnsweredTold DEF Refuse, ShTold
  <2>2. ~([verb |-> l.verb, name |-> l.name] \in Offered)
    <3> SUFFICES ASSUME [verb |-> l.verb, name |-> l.name] \in Offered PROVE FALSE
      OBVIOUS
    <3>1. l.name \in do_cmd_list
      BY <1>0, ShOffered
    <3> QED BY <1>1, <3>1, ShOffers
  <2> QED BY <2>1, <2>2, ShRejected DEF ShGood
<1>2. CASE /\ Found(l.name, {"DO"}) # {} /\ rejected' = NoLine
           /\ prepare_cmd_to_device(l, l.name, "w", NoArgs) \/ Query(l, l.name)
  <2>1. l.name \notin Setters
    BY <1>2, ShFound
  <2>2. CASE prepare_cmd_to_device(l, l.name, "w", NoArgs)
    BY <1>2, <2>1, <2>2, ShNoArgs, ShPrepareTold, ShNotRejected DEF ShGood, ShTold
  <2>3. CASE Query(l, l.name)
    BY <1>2, <2>3, ShQueryTold, ShNotRejected DEF ShGood, ShTold
  <2> QED BY <1>2, <2>2, <2>3
<1> QED BY <1>1, <1>2 DEF exec_do_command

\* An argument that is accepted is of its kind.
LEMMA ShAccepted ==
    ASSUME NEW k \in [type : {"SELECT", "INT", "STRING"}, nsel : Nat, listed : Nat], NEW c, Accepted(k, c)
    PROVE  Fits(k, c) \/ (c = "dot" /\ k.type = "STRING")
  BY DEF Accepted, Fits

\* an argument that was asked for,
LEMMA ShArg ==
    ASSUME NEW l \in ShLines, isdigit \in BOOLEAN, args \in ShArgs, line \in ShLines, rejected \in ShLines,
           ShAsks, ShRejects, get_cmd_args(l)
    PROVE  ShGood(l)
<1> DEFINE k == cmdargs(line.name)[args.n + 1]
           c == Class(l)
           a == [n |-> args.n + 1, fit |-> args.fit /\ Fits(k, c)]
<1>1. spc = "arg" /\ rejected' = rejected
  BY DEF get_cmd_args
<1>2. rejected' \in ShLines /\ ShRejects'
  BY <1>1 DEF ShRejects
<1>3. line.name \in Setters /\ args.n < Len(cmdargs(line.name)) /\ args.n \in Nat /\ args.fit = TRUE
  BY <1>1 DEF ShAsks, ShArgs
<1>4. cmdargs(line.name) \in Seq([type : {"SELECT", "INT", "STRING"}, nsel : Nat, listed : Nat])
  BY <1>3, ShArgLists
<1>5. k \in [type : {"SELECT", "INT", "STRING"}, nsel : Nat, listed : Nat]
  <2> DEFINE Rec == [type : {"SELECT", "INT", "STRING"}, nsel : Nat, listed : Nat]
             s == cmdargs(line.name)
  <2>1. s \in Seq(Rec) /\ args.n \in Nat /\ args.n < Len(s)
    BY <1>3, <1>4
  <2> HIDE DEF Rec, s
  <2>2. s[args.n + 1] \in Rec
    BY <2>1
  <2> QED BY <2>2 DEF Rec, s
<1>6. CASE Quiet(l) \/ Answered(l, "text")
  BY <1>2, <1>6, ShAnsweredTold DEF ShGood, ShTold
<1>7. CASE /\ isdigit' = (isdigit /\ k.type # "INT")
           /\ Ask(l.n) /\ UNCHANGED <<spc, args, line, sent>>
  <2>1. ShAsks' /\ isdigit' \in BOOLEAN
    BY <1>7 DEF ShAsks
  <2>2. ShToldArg(l.n)
    BY <1>1, <1>7, <2>1 DEF ShToldArg, Ask, Write
  <2> QED BY <1>2, <2>2 DEF ShGood, ShTold
<1>8. CASE /\ c \notin {"long", "dot"} /\ Accepted(k, c)
           /\ \/ a.n < Len(cmdargs(line.name)) /\ args' = a /\ isdigit' = TRUE /\ Ask(l.n) /\ UNCHANGED <<spc, line, sent>>
              \/ a.n = Len(cmdargs(line.name)) /\ prepare_cmd_to_device([line EXCEPT !.n = l.n], line.name, "w", a)
  <2>1. Fits(k, c)
    <3> HIDE DEF k, c
    <3> QED BY <1>5, <1>8, ShAccepted
  <2>2. a = [n |-> args.n + 1, fit |-> TRUE]
    <3> HIDE DEF k, c
    <3> QED BY <1>3, <2>1
  <2> HIDE DEF k, c, a
  <2>3. a \in ShArgs /\ a.n = args.n + 1
    BY <1>3, <2>2 DEF ShArgs
  <2>4. CASE a.n < Len(cmdargs(line.name)) /\ args' = a /\ isdigit' = TRUE /\ Ask(l.n) /\ UNCHANGED <<spc, line, sent>>
    <3>1. ShAsks'
      BY <1>3, <2>4 DEF ShAsks
    <3>2. ShToldArg(l.n)
      BY <1>1, <2>3, <2>4, <3>1 DEF ShToldArg, Ask, Write
    <3> QED BY <1>2, <3>2 DEF ShGood, ShTold
  <2>5. CASE a.n = Len(cmdargs(line.name)) /\ prepare_cmd_to_device([line EXCEPT !.n = l.n], line.name, "w", a)
    <3>1. [line EXCEPT !.n = l.n] \in ShLines /\ [line EXCEPT !.n = l.n].n = l.n
      BY DEF ShLines
    <3>2. ShToldOver(l.n) \/ ShToldDevice(l.n)
      <4> DEFINE m == [line EXCEPT !.n = l.n]
      <4>1. m \in ShLines /\ m.n = l.n /\ prepare_cmd_to_device(m, line.name, "w", a)
        BY <2>5, <3>1
      <4> HIDE DEF m
      <4>2. ShToldOver(m.n) \/ ShToldDevice(m.n)
        BY <2>3, <2>5, <4>1, ShPrepareTold
      <4> QED BY <4>1, <4>2
    <3> QED BY <1>2, <3>2 DEF ShGood, ShTold
  <2> QED BY <1>8, <2>4, <2>5
<1> QED BY <1>6, <1>7, <1>8 DEF get_cmd_args

\* the commands of the server,
LEMMA ShServer ==
    ASSUME NEW l \in ShLines, isdigit \in BOOLEAN, args \in ShArgs, exec_srv_command(l)
    PROVE  ShGood(l)
<1>1. l.verb = "srv"
  BY DEF exec_srv_command, Take
<1>2. ShTold(l.n)
  <2>1. Answered(l, "text") \/ Gather(l)
    BY DEF exec_srv_command, _srvcmd_nick, _srv_device_report, _srv_cmd_lc, _srv_date, _srv_cache_stat
  <2> QED BY <2>1, ShAnsweredTold, ShGatherTold DEF ShTold
<1>3. CASE rejected' = NoLine
  BY <1>2, <1>3, ShNotRejected DEF ShGood
<1>4. CASE l.name = "typo" /\ rejected' = [l EXCEPT !.n = 0]
  <2>1. ~([verb |-> l.verb, name |-> l.name] \in Offered)
    <3> SUFFICES ASSUME [verb |-> l.verb, name |-> l.name] \in Offered PROVE FALSE
      OBVIOUS
    <3>1. l.name \in cmd_list
      BY <1>1, ShOffered
    <3> QED BY <1>4, <3>1 DEF cmd_list
  <2> QED BY <1>2, <1>4, <2>1, ShRejected DEF ShGood
<1> QED BY <1>3, <1>4 DEF exec_srv_command

\* help,
LEMMA ShHelp ==
    ASSUME NEW l \in ShLines, exec_help_commandlist(l) \/ exec_help_for_command(l)
    PROVE  ShGood(l)
<1>1. l.verb = "help" /\ Answered(l, "text")
  BY DEF exec_help_commandlist, exec_help_for_command, Take
<1>2. ShTold(l.n)
  BY <1>1, ShAnsweredTold DEF ShTold
<1>3. CASE rejected' = NoLine
  BY <1>2, <1>3, ShNotRejected DEF ShGood
<1>4. CASE l.name # "" /\ rejected' = [l EXCEPT !.n = 0]
  <2>1. ~([verb |-> l.verb, name |-> l.name] \in Offered)
    BY <1>1, <1>4, ShOffered
  <2> QED BY <1>2, <1>4, <2>1, ShRejected DEF ShGood
<1> QED BY <1>3, <1>4 DEF exec_help_commandlist, exec_help_for_command

\* a command in the words of the device,
LEMMA ShNative ==
    ASSUME NEW l \in ShLines, isdigit \in BOOLEAN, args \in ShArgs, exec_native_command(l)
    PROVE  ShGood(l)
<1>1. spc' = "device" /\ sent' = NotSent /\ line' = l /\ UNCHANGED <<from, args, isdigit>> /\ rejected' = NoLine
  BY DEF exec_native_command
<1>2. ShWrites'
  BY <1>1 DEF ShWrites, NotSent
<1> QED BY <1>1, <1>2, ShNotRejected DEF ShGood, ShTold, ShToldDevice

\* and any line at all.
LEMMA ShInterp ==
    ASSUME NEW l \in ShLines, cmdinterp(l)
    PROVE  ShGood(l)
<1>1. l.verb \in {"db", "preset", "reply", "password", "unknown"} /\ (Answered(l, "text") \/ Quiet(l))
  BY DEF cmdinterp, Take
<1>2. ShTold(l.n)
  BY <1>1, ShAnsweredTold DEF ShTold
<1>3. CASE rejected' = NoLine
  BY <1>2, <1>3, ShNotRejected DEF ShGood
<1>4. CASE l.verb = "unknown" /\ rejected' = [l EXCEPT !.n = 0]
  <2>1. ~([verb |-> l.verb, name |-> l.name] \in Offered)
    BY <1>4, ShOffered
  <2> QED BY <1>2, <1>4, <2>1, ShRejected DEF ShGood
<1> QED BY <1>3, <1>4 DEF cmdinterp

\* The end of a session,
LEMMA ShQuit ==
    ASSUME NEW l \in ShLines, isdigit \in BOOLEAN, args \in ShArgs, line \in ShLines, Quit(l)
    PROVE  ShGood(l)
  BY ShNotRejected DEF Quit, Write, ShGood, ShTold, ShToldGone

\* and a password.
LEMMA ShPassword ==
    ASSUME NEW l \in ShLines, rejected \in ShLines, ShRejects, tries \in 0..3, spc = "pwd" => tries # 0, check_password(l)
    PROVE  ShGood(l) /\ tries' \in 0..3 /\ (spc' = "pwd" => tries' # 0)
<1>1. /\ spc = "pwd" /\ tries' = tries - 1 /\ UNCHANGED <<line, args, isdigit, sent, hung_up, rejected>>
      /\ \/ spc' = "idle" /\ from' = from \o <<Text(l.n, "hello"), End(l.n)>>
         \/ tries > 1 /\ spc' = "pwd" /\ from' = from \o <<Text(l.n, "password"), End(l.n)>>
         \/ tries = 1 /\ spc' = "closed" /\ from' = from \o <<Text(l.n, "failed"), End(l.n)>>
  BY DEF check_password, Write
<1>2. tries' \in 0..3 /\ (spc' = "pwd" => tries' # 0)
  BY <1>1
<1>3. ShTold(l.n)
  BY <1>1 DEF ShTold, ShToldPassword
<1>4. rejected' \in ShLines /\ ShRejects'
  BY <1>1 DEF ShRejects
<1> QED BY <1>2, <1>3, <1>4 DEF ShGood

-----------------------------------------------------------------------------
(* The steps of the daemon.                                                *)

\* A line that is read.
LEMMA ShServed ==
    ASSUME ShInv, NEW l \in ShLines, Served(l)
    PROVE  /\ ShGood(l) /\ spc \in {"pwd", "idle", "arg"} /\ to' = <<>>
           /\ tries' \in 0..3 /\ (spc' = "pwd" => tries' # 0)
<1>0. /\ isdigit \in BOOLEAN /\ args \in ShArgs /\ line \in ShLines /\ rejected \in ShLines /\ tries \in 0..3
      /\ ShAsks /\ ShRejects /\ (spc = "pwd" => tries # 0)
  BY DEF ShInv, ShTypes, ShArgs
<1>1. CASE check_password(l)
  <2>1. to' = <<>> /\ spc = "pwd"
    BY <1>1 DEF check_password
  <2> QED BY <1>0, <1>1, <2>1, ShPassword
<1>2. CASE get_cmd_args(l)
  <2>1. to' = <<>> /\ spc = "arg" /\ tries' = tries
    BY <1>2 DEF get_cmd_args, Same
  <2>2. ShGood(l)
    BY <1>0, <1>2, ShArg
  <2>3. spc' # "pwd"
    BY <1>2, <2>1 DEF get_cmd_args, Quiet, Answered, prepare_cmd_to_device
  <2> QED BY <1>0, <2>1, <2>2, <2>3
<1>3. CASE exec_binary_command(l) \/ exec_get_locg(l) \/ exec_get_gfevt(l) \/ exec_get_command(l)
  <2>1. ShGood(l)
    BY <1>0, <1>3, ShBinary, ShLocg, ShGfevt, ShGet
  <2>2. to' = <<>> /\ spc = "idle" /\ tries' = tries
    BY <1>3 DEF exec_binary_command, exec_get_locg, exec_get_gfevt, exec_get_command, Take, Same
  <2>3. spc' # "pwd"
    BY <1>3 DEF exec_binary_command, exec_get_locg, exec_get_gfevt, exec_get_command, Refuse, AskFirst, Quiet, Answered,
                prepare_cmd_to_device, Query
  <2> QED BY <1>0, <2>1, <2>2, <2>3
<1>4. CASE exec_set_command(l) \/ exec_do_command(l) \/ exec_srv_command(l) \/ exec_native_command(l)
  <2>1. ShGood(l)
    BY <1>0, <1>4, ShSet, ShDo, ShServer, ShNative
  <2>2. to' = <<>> /\ spc = "idle" /\ tries' = tries
    BY <1>4 DEF exec_set_command, exec_do_command, exec_srv_command, exec_native_command, Take, Same
  <2>3. spc' # "pwd"
    BY <1>4 DEF exec_set_command, exec_do_command, exec_srv_command, exec_native_command, Refuse, AskFirst, Quiet, Answered,
                prepare_cmd_to_device, Query, Gather, _srvcmd_nick, _srv_device_report, _srv_cmd_lc, _srv_date, _srv_cache_stat
  <2> QED BY <1>0, <2>1, <2>2, <2>3
<1>5. CASE exec_help_commandlist(l) \/ exec_help_for_command(l) \/ cmdinterp(l) \/ Quit(l)
  <2>1. ShGood(l)
    BY <1>0, <1>5, ShHelp, ShInterp, ShQuit
  <2>2. to' = <<>> /\ spc = "idle" /\ tries' = tries
    BY <1>5 DEF exec_help_commandlist, exec_help_for_command, cmdinterp, Quit, Take, Same
  <2>3. spc' # "pwd"
    BY <1>5 DEF exec_help_commandlist, exec_help_for_command, cmdinterp, Quit, Quiet, Answered
  <2> QED BY <1>0, <2>1, <2>2, <2>3
<1> QED BY <1>1, <1>2, <1>3, <1>4, <1>5 DEF Served

\* What a step of the daemon does: it serves what has arrived, ends a command of the device, gives
\* up waiting, or leaves.
ShDoes(n) ==
    \/ to # <<>> /\ to' = <<>> /\ n = Last(to).n /\ spc \in {"pwd", "idle", "arg"}
    \/ to' = to /\ spc = "device" /\ n = line.n /\ ShToldOver(n)
    \/ to' = to /\ n = 0 /\ (ShToldPassword(n) \/ ShToldOver(n))
    \/ to' = to /\ spc' = "closed" /\ from' = from

\* A step of the daemon tells the shell something of one line, and rejects nothing it offered.
LEMMA ShDaemon ==
    ASSUME ShInv, DaemonStep
    PROVE  /\ rejected' \in ShLines /\ ShRejects'
           /\ tries' \in 0..3 /\ (spc' = "pwd" => tries' # 0)
           /\ \E n \in Nat : ShTold(n) /\ ShDoes(n)
<1>0. /\ isdigit \in BOOLEAN /\ args \in ShArgs /\ line \in ShLines /\ rejected \in ShLines /\ tries \in 0..3
      /\ ShAsks /\ ShRejects /\ to \in Seq(ShLines)
  BY DEF ShInv, ShTypes, ShArgs
<1>1. CASE \E k \in 1..Len(to) : Served([to[k] EXCEPT !.n = Last(to).n])
  <2>1. PICK k \in 1..Len(to) : Served([to[k] EXCEPT !.n = Last(to).n])
    BY <1>1
  <2>2. to[k] \in ShLines /\ to # <<>> /\ Last(to) \in ShLines
    BY <1>0 DEF Last
  <2>3. Last(to).n \in Nat
    BY <2>2 DEF ShLines
  <2>4. PICK l : l = [to[k] EXCEPT !.n = Last(to).n]
    OBVIOUS
  <2>5. l \in ShLines /\ l.n = Last(to).n
    BY <2>2, <2>3, <2>4 DEF ShLines
  <2>6. Served(l)
    BY <2>1, <2>4
  <2>7. /\ ShGood(l) /\ spc \in {"pwd", "idle", "arg"} /\ to' = <<>>
        /\ tries' \in 0..3 /\ (spc' = "pwd" => tries' # 0)
    BY <2>5, <2>6, ShServed
  <2>8. ShTold(l.n) /\ ShDoes(l.n)
    BY <2>2, <2>5, <2>7 DEF ShGood, ShDoes
  <2> QED BY <2>3, <2>5, <2>7, <2>8 DEF ShGood
<1>2. CASE PasswordTimeout
  <2>1. /\ to' = to /\ tries' = tries /\ rejected' = rejected /\ spc' = "closed"
        /\ UNCHANGED <<line, args, isdigit>> /\ from' = from \o <<Text(0, "failed"), End(0)>>
    BY <1>2 DEF PasswordTimeout, Write
  <2>2. ShToldPassword(0)
    BY <2>1 DEF ShToldPassword
  <2>3. ShRejects'
    BY <1>0, <2>1 DEF ShRejects
  <2> QED BY <1>0, <2>1, <2>2, <2>3 DEF ShTold, ShDoes
<1>3. CASE ArgTimeout
  <2>1. to' = to /\ tries' = tries /\ rejected' = rejected /\ Quiet([line EXCEPT !.n = 0])
    BY <1>3 DEF ArgTimeout, Same
  <2>2. [line EXCEPT !.n = 0].n = 0
    BY <1>0 DEF ShLines
  <2>3. ShToldOver(0)
    BY <2>1, <2>2 DEF Quiet, Write, ShToldOver
  <2>4. ShRejects' /\ spc' # "pwd"
    BY <1>0, <2>1 DEF ShRejects, Quiet
  <2> QED BY <1>0, <2>1, <2>3, <2>4 DEF ShTold, ShDoes
<1>4. CASE Logout \/ Disconnected
  <2>1. /\ to' = to /\ tries' = tries /\ rejected' = rejected /\ spc' = "closed"
        /\ UNCHANGED <<line, args, isdigit, from>>
    BY <1>4 DEF Logout, Disconnected
  <2>2. ShToldGone(0)
    BY <1>0, <2>1 DEF ShToldGone
  <2>3. ShRejects'
    BY <1>0, <2>1 DEF ShRejects
  <2> QED BY <1>0, <2>1, <2>2, <2>3 DEF ShTold, ShDoes
<1>5. CASE ServerWork \/ DeviceAnswers
  <2>1. /\ to' = to /\ tries' = tries /\ rejected' = rejected /\ spc = "device"
        /\ Answered(line, "text") \/ Quiet(line)
    BY <1>5 DEF ServerWork, DeviceAnswers, Same
  <2>2. ShToldOver(line.n) /\ line.n \in Nat
    BY <1>0, <2>1, ShAnsweredTold DEF ShLines
  <2>3. ShRejects' /\ spc' # "pwd"
    BY <1>0, <2>1 DEF ShRejects, Quiet, Answered
  <2>4. ShTold(line.n) /\ ShDoes(line.n)
    BY <2>1, <2>2 DEF ShTold, ShDoes
  <2> QED BY <1>0, <2>1, <2>2, <2>3, <2>4
<1> QED BY <1>1, <1>2, <1>3, <1>4, <1>5 DEF DaemonStep

\* Items of an answer are items.
LEMMA ShItemTypes ==
    ASSUME NEW n \in Nat
    PROVE  /\ \A w \in {"text", "hello", "password", "failed", "ask"} : Text(n, w) \in ShItems
           /\ End(n) \in ShItems
  BY DEF Text, End, ShItems

\* The types after a step of the daemon.
LEMMA ShToldTypes ==
    ASSUME ShInv, NEW n \in Nat, ShTold(n)
    PROVE  /\ spc' \in {"pwd", "idle", "arg", "device", "closed", "crashed"}
           /\ line' \in ShLines /\ args' \in ShArgs /\ isdigit' \in BOOLEAN
           /\ from' \in Seq(ShItems)
           /\ ShAsks' /\ ShWrites'
<1>0. from \in Seq(ShItems) /\ line \in ShLines /\ args \in ShArgs /\ isdigit \in BOOLEAN
  BY DEF ShInv, ShTypes, ShArgs
<1>1. \A w \in {"text", "hello", "password", "failed", "ask"} :
          from \o <<Text(n, w), End(n)>> \in Seq(ShItems) /\ from \o <<Text(n, w)>> \in Seq(ShItems)
  BY <1>0, ShItemTypes
<1>2. from \o <<End(n)>> \in Seq(ShItems)
  BY <1>0, ShItemTypes
<1>3. CASE ShToldOver(n)
  BY <1>1, <1>2, <1>3, ShNoLine, ShNoArgs DEF ShToldOver, ShAsks, ShWrites
<1>4. CASE ShToldDevice(n)
  BY <1>0, <1>1, <1>4 DEF ShToldDevice, ShAsks
<1>5. CASE ShToldArg(n)
  BY <1>1, <1>5 DEF ShToldArg, ShWrites
<1>6. CASE ShToldGone(n)
  BY <1>0, <1>1, <1>6 DEF ShToldGone, ShAsks, ShWrites
<1>7. CASE ShToldPassword(n)
  BY <1>0, <1>1, <1>7 DEF ShToldPassword, ShAsks, ShWrites
<1> QED BY <1>3, <1>4, <1>5, <1>6, <1>7 DEF ShTold

\* An answer that has begun is whole when its end is sent.
LEMMA ShEnded ==
    ASSUME NEW n, NEW r \in Seq(ShItems), ShBegun(r, n), NEW w
    PROVE  /\ ShWhole(r \o <<Text(n, w), End(n)>>, n, w = "ask")
           /\ ShWhole(r \o <<End(n)>>, n, FALSE)
<1> DEFINE s == r \o <<Text(n, w), End(n)>>
           t == r \o <<End(n)>>
<1>1. /\ Text(n, w).n = n /\ Text(n, w).what = w /\ Text(n, w).end = FALSE
      /\ End(n).n = n /\ End(n).end = TRUE
  BY DEF Text, End
<1>2. /\ Len(s) = Len(r) + 2 /\ s[Len(r) + 1] = Text(n, w) /\ s[Len(r) + 2] = End(n)
      /\ \A i \in 1..Len(r) : s[i] = r[i]
  OBVIOUS
<1>3. /\ Len(t) = Len(r) + 1 /\ t[Len(r) + 1] = End(n)
      /\ \A i \in 1..Len(r) : t[i] = r[i]
  OBVIOUS
<1>4. Len(r) \in Nat /\ s # <<>> /\ t # <<>>
  BY <1>2, <1>3
<1> HIDE DEF s, t
<1>5. ShWhole(s, n, w = "ask")
  <2>1. \A i \in 1..(Len(s) - 1) : s[i].end = FALSE
    BY <1>1, <1>2, <1>4 DEF ShBegun
  <2>2. \A i \in 1..Len(s) : s[i].n = n
    BY <1>1, <1>2, <1>4 DEF ShBegun
  <2>3. Last(s).end = TRUE
    BY <1>1, <1>2, <1>4 DEF Last
  <2>4. Len(s) > 1 /\ s[Len(s) - 1].what = w
    BY <1>1, <1>2, <1>4
  <2> QED BY <1>4, <2>1, <2>2, <2>3, <2>4 DEF ShWhole
<1>6. ShWhole(t, n, FALSE)
  <2>1. \A i \in 1..(Len(t) - 1) : t[i].end = FALSE
    BY <1>1, <1>3, <1>4 DEF ShBegun
  <2>2. \A i \in 1..Len(t) : t[i].n = n
    BY <1>1, <1>3, <1>4 DEF ShBegun
  <2>3. Last(t).end = TRUE
    BY <1>1, <1>3, <1>4 DEF Last
  <2>4. ~(Len(t) > 1 /\ t[Len(t) - 1].what = "ask")
    BY <1>1, <1>3, <1>4 DEF ShBegun
  <2> QED BY <1>4, <2>1, <2>2, <2>3, <2>4 DEF ShWhole
<1> QED BY <1>5, <1>6 DEF s, t

\* What the user can be shown after a step of the daemon: the answer grows by what the daemon
\* tells, and is whole when the daemon waits again.
LEMMA ShToldStep ==
    ASSUME ShInv, NEW r \in Seq(ShItems), ShBegun(r, lines), ShAnswer = r, ShTold(lines),
           spc' \notin {"closed", "crashed"}, heard' = heard, lines' = lines, to' = <<>>, shpc' \in {"init", "read"}
    PROVE  ShWaiting'
<1>0. from \in Seq(ShItems) /\ heard \in Seq(ShItems) /\ lines \in Nat
  BY SessionAssumption DEF ShInv, ShTypes
<1>1. ASSUME NEW s \in Seq(ShItems), from' = from \o s
      PROVE  ShAnswer' = r \o s
  <2>1. ShAnswer' = heard \o (from \o s)
    BY <1>1 DEF ShAnswer
  <2>2. heard \o (from \o s) = (heard \o from) \o s
    BY ONLY <1>0, <1>1, SMTT(30)
  <2> QED BY <2>1, <2>2 DEF ShAnswer
<1>2. \A w \in {"text", "hello", "password", "failed", "ask"} :
          <<Text(lines, w), End(lines)>> \in Seq(ShItems) /\ <<Text(lines, w)>> \in Seq(ShItems) /\ <<End(lines)>> \in Seq(ShItems)
  BY <1>0, ShItemTypes
<1>3. ASSUME NEW w \in {"text", "hello", "password", "failed", "ask"}, from' = from \o <<Text(lines, w), End(lines)>>,
             spc' \in {"pwd", "idle", "arg"}, spc' = "arg" <=> w = "ask"
      PROVE  ShWaiting'
  <2>1. ShAnswer' = r \o <<Text(lines, w), End(lines)>>
    BY <1>1, <1>2, <1>3
  <2>2. ShWhole(ShAnswer', lines', w = "ask")
    BY <2>1, ShEnded
  <2>3. from' # <<>>
    BY <1>0, <1>3
  <2>4. ShWhole(ShAnswer', lines', spc' = "arg")
    BY <1>3, <2>2 DEF ShWhole
  <2> QED BY <1>3, <2>3, <2>4 DEF ShWaiting
<1>4. CASE ShToldOver(lines)
  <2>1. CASE from' = from \o <<Text(lines, "text"), End(lines)>>
    BY <1>3, <1>4, <2>1 DEF ShToldOver
  <2>2. CASE from' = from \o <<End(lines)>>
    <3>1. ShAnswer' = r \o <<End(lines)>>
      BY <1>1, <1>2, <2>2
    <3>2. ShWhole(ShAnswer', lines', FALSE)
      BY <3>1, ShEnded
    <3>3. from' # <<>>
      BY <1>0, <2>2
    <3>4. spc' = "idle"
      BY <1>4 DEF ShToldOver
    <3>5. ShWhole(ShAnswer', lines', spc' = "arg")
      BY <3>2, <3>4 DEF ShWhole
    <3> QED BY <3>3, <3>4, <3>5 DEF ShWaiting
  <2> QED BY <1>4, <2>1, <2>2 DEF ShToldOver
<1>5. CASE ShToldDevice(lines)
  <2>1. spc' = "device" /\ line'.n = lines'
    BY <1>5 DEF ShToldDevice
  <2>2. CASE from' = from
    <3>1. ShBegun(ShAnswer', lines')
      BY <2>2 DEF ShAnswer
    <3> QED BY <2>1, <3>1 DEF ShWaiting
  <2>3. CASE from' = from \o <<Text(lines, "text")>>
    <3>1. ShAnswer' = r \o <<Text(lines, "text")>>
      BY <1>1, <1>2, <2>3
    <3>2. Text(lines, "text").n = lines /\ Text(lines, "text").end = FALSE /\ Text(lines, "text").what # "ask"
      BY DEF Text
    <3>3. ShBegun(ShAnswer', lines')
      <4> DEFINE e == Text(lines, "text")
      <4>1. ShAnswer' = r \o <<e>> /\ e.n = lines /\ e.end = FALSE /\ e.what # "ask"
        BY <3>1, <3>2
      <4> HIDE DEF e
      <4>2. Len(r \o <<e>>) = Len(r) + 1 /\ (r \o <<e>>)[Len(r) + 1] = e /\ \A i \in 1..Len(r) : (r \o <<e>>)[i] = r[i]
        OBVIOUS
      <4>3. \A i \in 1..Len(r \o <<e>>) : (r \o <<e>>)[i].n = lines /\ (r \o <<e>>)[i].end = FALSE /\ (r \o <<e>>)[i].what # "ask"
        BY <4>1, <4>2 DEF ShBegun
      <4> QED BY <4>1, <4>3 DEF ShBegun
    <3> QED BY <2>1, <3>3 DEF ShWaiting
  <2> QED BY <1>5, <2>2, <2>3 DEF ShToldDevice
<1>6. CASE ShToldArg(lines)
  BY <1>3, <1>6 DEF ShToldArg
<1>7. CASE ShToldPassword(lines)
  BY <1>3, <1>7 DEF ShToldPassword
<1>8. CASE ShToldGone(lines)
  BY <1>8 DEF ShToldGone
<1> QED BY <1>4, <1>5, <1>6, <1>7, <1>8 DEF ShTold

\* Giving up is counted.
LEMMA ShGives ==
    ASSUME late \in 0..(MaxLate + 1)
    PROVE  /\ GiveUp => late' \in 0..(MaxLate + 1) /\ late' # 0
  BY ShellAssumption DEF GiveUp

\* An item that is not of the last line is not mistaken for its answer.
LEMMA ShLastItem ==
    ASSUME NEW s \in Seq(ShItems)
    PROVE  /\ \A w : s \o <<Text(0, w), End(0)>> # s /\ Last(s \o <<Text(0, w), End(0)>>).n = 0
           /\ s \o <<End(0)>> # s /\ Last(s \o <<End(0)>>).n = 0
<1>1. End(0).n = 0
  BY DEF End
<1>2. ASSUME NEW e, e.n = 0 PROVE s \o <<e>> # s /\ Last(s \o <<e>>).n = 0
  BY <1>2 DEF Last
<1>3. ASSUME NEW e, NEW f, e.n = 0 PROVE s \o <<f, e>> # s /\ Last(s \o <<f, e>>).n = 0
  BY <1>3 DEF Last
<1> QED BY <1>1, <1>2, <1>3

\* The daemon keeps the invariant.
LEMMA ShDaemonKeeps ==
    ASSUME ShInv, Daemon
    PROVE  ShInv'
<1>1. /\ DaemonStep /\ UNCHANGED <<shpc, single, lines, heard, shown, prompt>>
      /\ GiveUp \/ (late' = late /\ (from' # from => Last(from').n # 0))
  BY DEF Daemon
<1>2. PICK n \in Nat : ShTold(n) /\ ShDoes(n)
  BY <1>1, ShDaemon
<1>3. rejected' \in ShLines /\ ShRejects' /\ tries' \in 0..3 /\ (spc' = "pwd" => tries' # 0)
  BY <1>1, ShDaemon
<1>4. /\ spc' \in {"pwd", "idle", "arg", "device", "closed", "crashed"}
      /\ line' \in ShLines /\ args' \in ShArgs /\ isdigit' \in BOOLEAN
      /\ from' \in Seq(ShItems) /\ ShAsks' /\ ShWrites'
  BY <1>2, ShToldTypes
<1>5. to' \in Seq(ShLines)
  <2>1. to \in Seq(ShLines) /\ <<>> \in Seq(ShLines)
    BY DEF ShInv, ShTypes
  <2>2. to' = <<>> \/ to' = to
    BY <1>2 DEF ShDoes
  <2> QED BY <2>1, <2>2
<1>6. late' \in 0..(MaxLate + 1)
  BY <1>1, ShGives DEF ShInv, ShTypes
<1>7. ShTypes'
  BY <1>1, <1>3, <1>4, <1>5, <1>6 DEF ShInv, ShTypes, ShArgs
<1>8. ASSUME late' = 0, shpc' # "quit", spc' \notin {"closed", "crashed"}
      PROVE  ShWaiting'
  <2>0. /\ from \in Seq(ShItems) /\ heard \in Seq(ShItems) /\ lines \in Nat /\ to \in Seq(ShLines)
        /\ late \in 0..(MaxLate + 1)
    BY SessionAssumption DEF ShInv, ShTypes
  <2>1. late = 0 /\ (from' # from => Last(from').n # 0)
    BY <1>1, <1>8, <2>0, ShGives
  <2>2. \/ to # <<>> /\ to' = <<>> /\ n = Last(to).n /\ spc \in {"pwd", "idle", "arg"}
        \/ to' = to /\ spc = "device" /\ n = line.n /\ ShToldOver(n)
    <3>1. ~ShToldPassword(0)
      <4> SUFFICES ASSUME ShToldPassword(0) PROVE FALSE
        OBVIOUS
      <4>1. PICK w : from' = from \o <<Text(0, w), End(0)>>
        BY DEF ShToldPassword
      <4>2. from' # from /\ Last(from').n = 0
        BY <2>0, <4>1, ShLastItem
      <4> QED BY <2>1, <4>2
    <3>2. ~ShToldOver(0)
      <4> SUFFICES ASSUME ShToldOver(0) PROVE FALSE
        OBVIOUS
      <4>1. from' # from /\ Last(from').n = 0
        BY <2>0, ShLastItem DEF ShToldOver
      <4> QED BY <2>1, <4>1
    <3> QED BY <1>2, <1>8, <3>1, <3>2 DEF ShDoes
  <2>3. ShAtRest \/ ShWaiting
    BY <1>1, <1>8, <2>1, <2>2 DEF ShInv, ShStep
  <2>4. shpc' \in {"init", "read"} /\ heard' = heard /\ lines' = lines
    BY <1>1, <2>2, <2>3 DEF ShAtRest, ShWaiting
  <2>5. CASE to # <<>> /\ to' = <<>> /\ n = Last(to).n /\ spc \in {"pwd", "idle", "arg"}
    <3>1. from = <<>> /\ heard = <<>> /\ Len(to) = 1 /\ to[1].n = lines
      BY <2>3, <2>5 DEF ShAtRest, ShWaiting
    <3>2. n = lines
      BY <2>5, <3>1 DEF Last
    <3>3. ShAnswer = <<>> /\ <<>> \in Seq(ShItems) /\ ShBegun(<<>>, lines)
      BY <3>1 DEF ShAnswer, ShBegun
    <3> QED BY <1>2, <1>8, <2>4, <2>5, <3>2, <3>3, ShToldStep
  <2>6. CASE to' = to /\ spc = "device" /\ n = line.n /\ ShToldOver(n)
    <3>1. to = <<>> /\ line.n = lines /\ ShBegun(ShAnswer, lines)
      BY <2>3, <2>6 DEF ShAtRest, ShWaiting
    <3>2. ShAnswer \in Seq(ShItems)
      BY <2>0 DEF ShAnswer
    <3> QED BY <1>2, <1>8, <2>4, <2>6, <3>1, <3>2, ShToldStep
  <2> QED BY <2>2, <2>5, <2>6
<1>9. ShStep'
  BY <1>8 DEF ShStep
<1> QED BY <1>3, <1>4, <1>7, <1>9 DEF ShInv

-----------------------------------------------------------------------------
(* The steps of the shell.                                                 *)

\* A line that the user gives: what was asked for is shown, and now it is the daemon's turn.
LEMMA ShCommand ==
    ASSUME ShInv, NEW l \in [verb : ShVerbs, name : ShNames], NEW pc \in {"init", "read"},
           shpc \in {"prompt", "password"}, g7ctrl_command(l, pc),
           UNCHANGED <<spc, tries, line, args, isdigit, sent, hung_up, from, rejected>>
    PROVE  ShInv'
<1>0. lines \in Nat /\ late \in 0..(MaxLate + 1) /\ to \in Seq(ShLines) /\ MaxLines \in Nat /\ MaxLate \in Nat /\ lines \in 0..MaxLines
  BY SessionAssumption, ShellAssumption DEF ShInv, ShTypes
<1>1. /\ lines < MaxLines /\ late <= MaxLate
      /\ lines' = lines + 1 /\ late' = IF late > 0 THEN late + 1 ELSE 0
      /\ shpc' = pc /\ heard' = <<>> /\ prompt' = prompt
  BY DEF g7ctrl_command
<1> DEFINE new == [n |-> lines + 1, verb |-> l.verb, name |-> l.name]
<1>2. to' = to \/ (spc \notin {"closed", "crashed"} /\ to' = Append(to, new))
  BY DEF g7ctrl_command
<1>2a. spc \notin {"closed", "crashed"} => to' = Append(to, new)
  BY DEF g7ctrl_command
<1>3. new \in ShLines /\ new.n = lines + 1
  BY <1>0 DEF ShLines
<1> HIDE DEF new
<1>4. to' \in Seq(ShLines)
  BY <1>0, <1>2, <1>3
<1>5. lines' \in 0..MaxLines /\ late' \in 0..(MaxLate + 1) /\ (late' = 0 => late = 0)
  BY <1>0, <1>1
<1>6. heard' \in Seq(ShItems)
  BY <1>1
<1>7. ShTypes'
  BY <1>1, <1>4, <1>5, <1>6 DEF ShInv, ShTypes
<1>8. ShAsks' /\ ShWrites' /\ ShRejects'
  BY DEF ShInv, ShAsks, ShWrites, ShRejects
<1>9. ASSUME late' = 0, spc' \notin {"closed", "crashed"}
      PROVE  ShWaiting'
  <2>1. ShAtRest
    BY <1>5, <1>9 DEF ShInv, ShStep, ShWaiting
  <2>2. to = <<>> /\ from = <<>> /\ spc \in {"pwd", "idle", "arg"}
    BY <2>1 DEF ShAtRest
  <2>3. to' = <<new>>
    BY <1>2a, <1>9, <2>2
  <2>4. Len(to') = 1 /\ to'[1].n = lines'
    BY <1>1, <1>3, <2>3
  <2> QED BY <1>1, <2>2, <2>4 DEF ShWaiting
<1>10. ShStep'
  BY <1>9 DEF ShStep
<1> QED BY <1>7, <1>8, <1>10 DEF ShInv

\* What a user types is a line.
LEMMA ShTyped ==
    /\ Typed \cup Replies \subseteq [verb : ShVerbs, name : ShNames]
    /\ [verb |-> "exit", name |-> ""] \in [verb : ShVerbs, name : ShNames]
    /\ \A p \in {"right", "wrong"} : [verb |-> "password", name |-> p] \in [verb : ShVerbs, name : ShNames]
<1>1. Offered \subseteq [verb : ShVerbs, name : ShNames]
  BY DEF Offered, ShVerbs, ShNames
<1>2. Typed \subseteq [verb : ShVerbs, name : ShNames]
  <2>1. [verb |-> "native", name |-> ""] \in [verb : ShVerbs, name : ShNames]
    BY DEF ShVerbs, ShNames
  <2>2. [verb |-> "on", name |-> "sleep"] \in [verb : ShVerbs, name : ShNames]
    BY DEF ShVerbs, ShNames, set_cmd_list
  <2>3. [verb |-> "set", name |-> "gfevt"] \in [verb : ShVerbs, name : ShNames]
    BY DEF ShVerbs, ShNames, get_cmd_list
  <2>4. [verb : {"get", "set", "do", "srv", "unknown"}, name : {"typo"}] \subseteq [verb : ShVerbs, name : ShNames]
    BY DEF ShVerbs, ShNames
  <2>5. [verb : {"gfevt"}, name : {"inrange", "outside"}] \subseteq [verb : ShVerbs, name : ShNames]
    BY DEF ShVerbs, ShNames
  <2>6. /\ [verb : {"get2"}, name : {"locg"}] \subseteq [verb : ShVerbs, name : ShNames]
        /\ [verb : {"help"}, name : {"led", "typo"}] \subseteq [verb : ShVerbs, name : ShNames]
    BY DEF ShVerbs, ShNames, get_cmd_list
  <2> QED BY <1>1, <2>1, <2>2, <2>3, <2>4, <2>5, <2>6 DEF Typed
<1>3. Replies \subseteq [verb : ShVerbs, name : ShNames]
  BY DEF Replies, ShVerbs, ShNames
<1>4. [verb |-> "exit", name |-> ""] \in [verb : ShVerbs, name : ShNames]
  BY DEF ShVerbs, ShNames
<1>5. \A p \in {"right", "wrong"} : [verb |-> "password", name |-> p] \in [verb : ShVerbs, name : ShNames]
  BY DEF ShVerbs, ShNames
<1> QED BY <1>2, <1>3, <1>4, <1>5

\* The shell sends a line, only when it rests,
LEMMA ShReadlineKeeps ==
    ASSUME ShInv, cb_rl_readline \/ ExitLine
    PROVE  ShInv'
<1>1. UNCHANGED <<spc, tries, line, args, isdigit, sent, hung_up, from, rejected>> /\ shpc = "prompt"
  BY DEF cb_rl_readline, ExitLine
<1>2. PICK l \in [verb : ShVerbs, name : ShNames] : g7ctrl_command(l, "read")
  BY ShTyped DEF cb_rl_readline, ExitLine
<1> QED BY <1>1, <1>2, ShCommand

\* and the password when the daemon asks for it.
LEMMA ShPasswordKeeps ==
    ASSUME ShInv, g7ctrl_initcomm
    PROVE  ShInv'
<1>1. UNCHANGED <<spc, tries, line, args, isdigit, sent, hung_up, from, rejected>> /\ shpc = "password"
  BY DEF g7ctrl_initcomm
<1>2. CASE \E p \in {"right", "wrong"} : g7ctrl_command([verb |-> "password", name |-> p], "init")
  <2>1. PICK l \in [verb : ShVerbs, name : ShNames] : g7ctrl_command(l, "init")
    BY <1>2, ShTyped
  <2> QED BY <1>1, <2>1, ShCommand
<1>3. CASE shpc' = "prompt" /\ UNCHANGED <<lines, to, single, heard, shown, prompt, late>>
  <2>1. ShTypes'
    BY <1>1, <1>3 DEF ShInv, ShTypes
  <2>2. ShAsks' /\ ShWrites' /\ ShRejects'
    BY <1>1, <1>3 DEF ShInv, ShAsks, ShWrites, ShRejects
  <2>3. ASSUME late' = 0, spc' \notin {"closed", "crashed"} PROVE ShAtRest'
    <3>1. ShAtRest
      BY <1>1, <1>3, <2>3 DEF ShInv, ShStep, ShWaiting
    <3> QED BY <1>1, <1>3, <3>1 DEF ShAtRest
  <2>4. ShStep'
    BY <2>3 DEF ShStep
  <2> QED BY <2>1, <2>2, <2>4 DEF ShInv
<1> QED BY <1>2, <1>3 DEF g7ctrl_initcomm

\* The shell leaves, gives up waiting, or finds that the daemon has gone.
LEMMA ShLeaveKeeps ==
    ASSUME ShInv, QuitShell \/ ReadTimeout \/ RemoteClosed
    PROVE  ShInv'
<1>1. /\ UNCHANGED <<spc, tries, line, args, isdigit, sent, to, from, rejected, lines>>
      /\ shpc' \in {"quit", "prompt"} /\ prompt' \in {"command", prompt} /\ heard' \in {heard, <<>>}
      /\ late' = late \/ GiveUp
      /\ shpc' = "quit" \/ GiveUp \/ spc \in {"closed", "crashed"}
  BY DEF QuitShell, ReadTimeout, RemoteClosed
<1>2. late' \in 0..(MaxLate + 1) /\ (GiveUp => late' # 0)
  BY <1>1, ShGives DEF ShInv, ShTypes
<1>3. heard' \in Seq(ShItems)
  <2>1. heard \in Seq(ShItems) /\ <<>> \in Seq(ShItems)
    BY DEF ShInv, ShTypes
  <2> QED BY <1>1, <2>1
<1>4. ShTypes'
  BY <1>1, <1>2, <1>3 DEF ShInv, ShTypes
<1>5. ShAsks' /\ ShWrites' /\ ShRejects'
  BY <1>1 DEF ShInv, ShAsks, ShWrites, ShRejects
<1>6. ShStep'
  BY <1>1, <1>2 DEF ShStep
<1> QED BY <1>4, <1>5, <1>6 DEF ShInv

\* A part of an answer is read.
LEMMA ShSplit ==
    ASSUME NEW h \in Seq(ShItems), NEW f \in Seq(ShItems), NEW k \in 1..Len(f)
    PROVE  /\ SubSeq(f, 1, k) \in Seq(ShItems) /\ SubSeq(f, k + 1, Len(f)) \in Seq(ShItems)
           /\ (h \o SubSeq(f, 1, k)) \o SubSeq(f, k + 1, Len(f)) = h \o f
           /\ Last(SubSeq(f, 1, k)) = (h \o f)[Len(h) + k]
           /\ k < Len(f) => SubSeq(f, k + 1, Len(f)) # <<>>
           /\ k = Len(f) => h \o SubSeq(f, 1, k) = h \o f /\ SubSeq(f, k + 1, Len(f)) = <<>>
<1> DEFINE a == SubSeq(f, 1, k)
           b == SubSeq(f, k + 1, Len(f))
<1>1. a \in Seq(ShItems) /\ Len(a) = k /\ \A i \in 1..k : a[i] = f[i]
  OBVIOUS
<1>2. b \in Seq(ShItems) /\ Len(b) = Len(f) - k /\ \A i \in 1..(Len(f) - k) : b[i] = f[i + k]
  OBVIOUS
<1> HIDE DEF a, b
<1>3. a \o b = f
  <2>0. Len(f) \in Nat /\ k \in Nat /\ k <= Len(f) /\ f \in Seq(ShItems)
    OBVIOUS
  <2>1. a \o b \in Seq(ShItems) /\ Len(a \o b) = Len(a) + Len(b)
    <3>1. a \in Seq(ShItems) /\ b \in Seq(ShItems)
      BY <1>1, <1>2
    <3> QED BY <3>1
  <2>1a. Len(a \o b) = Len(f)
    BY <2>0, <2>1, <1>1, <1>2
  <2>2. ASSUME NEW i \in 1..Len(f) PROVE (a \o b)[i] = f[i]
    <3>1. CASE i <= k
      BY <1>1, <1>2, <3>1
    <3>2. CASE i > k
      <4>1. (a \o b)[i] = b[i - k]
        BY <1>1, <1>2, <3>2
      <4>2. i - k \in 1..(Len(f) - k) /\ (i - k) + k = i
        BY <3>2
      <4> QED BY <1>2, <4>1, <4>2
    <3>3. i <= k \/ i > k
      BY <2>0
    <3> QED BY <3>1, <3>2, <3>3
  <2> DEFINE c == a \o b
  <2>3. c \in Seq(ShItems) /\ Len(c) = Len(f) /\ \A i \in 1..Len(f) : c[i] = f[i]
    BY <2>1, <2>1a, <2>2
  <2> HIDE DEF c
  <2>4. c = f
    BY <2>0, <2>3
  <2> QED BY <2>4 DEF c
<1>4. (h \o a) \o b = h \o f
  <2>1. (h \o a) \o b = h \o (a \o b)
    BY <1>1, <1>2
  <2> QED BY <1>3, <2>1
<1>5. Last(a) = f[k] /\ (h \o f)[Len(h) + k] = f[k]
  BY <1>1 DEF Last
<1>6. k < Len(f) => b # <<>>
  BY <1>2
<1>7. k = Len(f) => b = <<>>
  BY <1>2
<1>8. k = Len(f) => h \o a = h \o f
  <2> SUFFICES ASSUME k = Len(f) PROVE a = f
    OBVIOUS
  <2> QED BY <1>1
<1> QED BY <1>1, <1>2, <1>4, <1>5, <1>6, <1>7, <1>8 DEF a, b

\* It reads until the answer is whole, and only then it asks the user again.
LEMMA ShReadKeeps ==
    ASSUME ShInv, NEW k \in 1..Len(from), readwrite(k)
    PROVE  ShInv'
<1> DEFINE chunk == SubSeq(from, 1, k)
           reply == heard \o chunk
<1>0. /\ from \in Seq(ShItems) /\ heard \in Seq(ShItems) /\ k \in Nat /\ Len(from) \in Nat /\ Len(heard) \in Nat
      /\ prompt \in {"command", "arg"}
  BY DEF ShInv, ShTypes
<1>1. /\ shpc \in {"init", "read"} /\ from' = SubSeq(from, k + 1, Len(from))
      /\ UNCHANGED <<lines, late, spc, tries, line, args, isdigit, sent, to, rejected>>
  BY DEF readwrite
<1>2. \/ ~Complete(chunk) /\ heard' = reply /\ UNCHANGED <<shpc, shown, prompt>>
      \/ /\ Complete(chunk) /\ heard' = <<>> /\ shown' = {reply[i].n : i \in 1..Len(reply)}
         /\ prompt' = (IF Asks(reply) THEN "arg" ELSE "command")
         /\ shpc' \in {"password", "quit", "prompt"}
  BY DEF readwrite
<1>3. /\ chunk \in Seq(ShItems) /\ from' \in Seq(ShItems) /\ reply \o from' = ShAnswer
      /\ Last(chunk) = ShAnswer[Len(heard) + k]
      /\ k < Len(from) => from' # <<>>
      /\ k = Len(from) => reply = ShAnswer /\ from' = <<>>
  <2>1. /\ chunk \in Seq(ShItems) /\ SubSeq(from, k + 1, Len(from)) \in Seq(ShItems)
        /\ (heard \o chunk) \o SubSeq(from, k + 1, Len(from)) = heard \o from
        /\ Last(chunk) = (heard \o from)[Len(heard) + k]
        /\ (k < Len(from) => SubSeq(from, k + 1, Len(from)) # <<>>)
        /\ (k = Len(from) => heard \o chunk = heard \o from /\ SubSeq(from, k + 1, Len(from)) = <<>>)
    BY <1>0, ShSplit
  <2> QED BY <1>1, <2>1 DEF ShAnswer
<1>4. reply \in Seq(ShItems) /\ <<>> \in Seq(ShItems)
  BY <1>0, <1>3
<1>5. Complete(chunk) <=> ShAnswer[Len(heard) + k].end
  BY <1>3 DEF Complete
<1> HIDE DEF chunk, reply
<1>6. heard' \in Seq(ShItems) /\ shpc' \in {"init", "password", "prompt", "read", "quit"} /\ prompt' \in {"command", "arg"}
  BY <1>0, <1>1, <1>2, <1>4
<1>7. ShTypes'
  BY <1>1, <1>3, <1>6 DEF ShInv, ShTypes
<1>8. ShAsks' /\ ShWrites' /\ ShRejects'
  BY <1>1 DEF ShInv, ShAsks, ShWrites, ShRejects
<1>9. ASSUME late' = 0, shpc' # "quit", spc' \notin {"closed", "crashed"}
      PROVE  ShAtRest' \/ ShWaiting'
  <2>0. from # <<>> /\ Len(ShAnswer) = Len(heard) + Len(from)
    BY <1>0 DEF ShAnswer
  <2>1. ShWaiting
    BY <1>1, <1>9 DEF ShInv, ShStep, ShAtRest
  <2>2. CASE spc = "device" /\ to = <<>> /\ line.n = lines /\ ShBegun(ShAnswer, lines)
    <3>1. Len(heard) + k \in 1..Len(ShAnswer)
      BY <1>0, <2>0
    <3>2. ShAnswer[Len(heard) + k].end = FALSE
      BY <2>2, <3>1 DEF ShBegun
    <3>3. heard' = reply /\ shpc' = shpc
      BY <1>2, <1>5, <3>2
    <3>4. ShAnswer' = ShAnswer
      BY <1>3, <3>3 DEF ShAnswer
    <3>5. ShBegun(ShAnswer', lines')
      BY <1>1, <2>2, <3>4
    <3> QED BY <1>1, <2>2, <3>3, <3>5 DEF ShWaiting
  <2>3. CASE spc \in {"pwd", "idle", "arg"} /\ to = <<>> /\ from # <<>> /\ ShWhole(ShAnswer, lines, spc = "arg")
    <3>1. CASE k < Len(from)
      <4>1. Len(heard) + k \in 1..(Len(ShAnswer) - 1)
        BY <1>0, <2>0, <3>1
      <4>2. ShAnswer[Len(heard) + k].end = FALSE
        BY <2>3, <4>1 DEF ShWhole
      <4>3. heard' = reply /\ shpc' = shpc
        BY <1>2, <1>5, <4>2
      <4>4. ShAnswer' = ShAnswer
        BY <1>3, <4>3 DEF ShAnswer
      <4>5. ShWhole(ShAnswer', lines', spc' = "arg")
        BY <1>1, <2>3, <4>4
      <4>6. from' # <<>>
        BY <1>3, <3>1
      <4> QED BY <1>1, <2>3, <4>3, <4>5, <4>6 DEF ShWaiting
    <3>2. CASE k = Len(from)
      <4>1. ShAnswer[Len(heard) + k].end = TRUE
        BY <2>0, <2>3, <3>2 DEF ShWhole, Last
      <4>2. reply = ShAnswer /\ from' = <<>>
        BY <1>3, <3>2
      <4>3. /\ shown' = {reply[i].n : i \in 1..Len(reply)} /\ shpc' \in {"password", "quit", "prompt"}
            /\ prompt' = (IF Asks(reply) THEN "arg" ELSE "command")
        BY <1>2, <1>5, <4>1
      <4>4. \A i \in 1..Len(reply) : reply[i].n = lines
        BY <2>3, <4>2 DEF ShWhole
      <4>5. 1 \in 1..Len(reply)
        BY <1>0, <2>0, <3>2, <4>2
      <4>6. shown' = {lines'}
        BY <1>1, <4>3, <4>4, <4>5
      <4>7. Asks(reply) <=> spc = "arg"
        <5>1. Asks(ShAnswer) <=> Len(ShAnswer) > 1 /\ ShAnswer[Len(ShAnswer) - 1].what = "ask" /\ Last(ShAnswer).end
          BY DEF Asks
        <5>2. Last(ShAnswer).end = TRUE
          BY <2>3 DEF ShWhole
        <5>3. (spc = "arg") <=> Len(ShAnswer) > 1 /\ ShAnswer[Len(ShAnswer) - 1].what = "ask"
          BY <2>3 DEF ShWhole
        <5> QED BY <4>2, <5>1, <5>2, <5>3
      <4>8. spc' = "arg" <=> prompt' = "arg"
        BY <1>1, <4>3, <4>7
      <4> QED BY <1>1, <1>9, <2>3, <4>2, <4>3, <4>6, <4>8 DEF ShAtRest
    <3> QED BY <1>0, <3>1, <3>2
  <2> QED BY <2>0, <2>1, <2>2, <2>3 DEF ShWaiting
<1>10. ShStep'
  BY <1>9 DEF ShStep
<1> QED BY <1>7, <1>8, <1>10 DEF ShInv

-----------------------------------------------------------------------------
\* The invariant holds when the shell connects.
LEMMA ShStarts == ShInit => ShInv
<1> SUFFICES ASSUME ShInit PROVE ShInv
  OBVIOUS
<1>1. /\ spc = (IF require_client_pwd THEN "pwd" ELSE "idle") /\ tries = 3
      /\ line = NoLine /\ args = NoArgs /\ isdigit = TRUE /\ sent = NotSent /\ to = <<>>
      /\ from = <<Text(0, IF require_client_pwd THEN "password" ELSE "hello"), End(0)>>
      /\ rejected = NoLine
      /\ shpc = "init" /\ lines = 0 /\ heard = <<>> /\ prompt = "command" /\ late = 0
  BY DEF ShInit, SesInit
<1>2. PICK w \in {"password", "hello"} : w = IF require_client_pwd THEN "password" ELSE "hello"
  OBVIOUS
<1>3. from = <<>> \o <<Text(0, w), End(0)>> /\ from \in Seq(ShItems) /\ from # <<>>
  BY <1>1, <1>2, ShItemTypes
<1>4. lines \in 0..MaxLines /\ late \in 0..(MaxLate + 1)
  BY <1>1, SessionAssumption, ShellAssumption
<1>5. ShTypes
  <2>1. line \in ShLines /\ rejected \in ShLines /\ args \in [n : Nat, fit : {TRUE}]
    BY <1>1, ShNoLine, ShNoArgs DEF ShArgs
  <2>2. to \in Seq(ShLines) /\ from \in Seq(ShItems) /\ heard \in Seq(ShItems)
    BY <1>1, <1>3
  <2>3. /\ spc \in {"pwd", "idle", "arg", "device", "closed", "crashed"} /\ tries \in 0..3 /\ (spc = "pwd" => tries # 0)
        /\ isdigit \in BOOLEAN /\ shpc \in {"init", "password", "prompt", "read", "quit"} /\ prompt \in {"command", "arg"}
    BY <1>1
  <2> QED BY <1>4, <2>1, <2>2, <2>3 DEF ShTypes
<1>6. ShAsks /\ ShWrites
  BY <1>1 DEF ShAsks, ShWrites
<1>7. ShRejects
  <2>1. [verb |-> rejected.verb, name |-> rejected.name] \notin Offered
    BY <1>1, ShNoLine, ShOffered
  <2> QED BY <2>1 DEF ShRejects
<1>8. ShWaiting
  <2>1. <<>> \in Seq(ShItems) /\ ShBegun(<<>>, 0)
    BY DEF ShBegun
  <2>2. ShWhole(<<>> \o <<Text(0, w), End(0)>>, 0, w = "ask")
    BY <2>1, ShEnded
  <2>3. ShAnswer = <<>> \o <<Text(0, w), End(0)>>
    BY <1>1, <1>3 DEF ShAnswer
  <2>4. ShWhole(ShAnswer, lines, spc = "arg")
    BY <1>1, <2>2, <2>3 DEF ShWhole
  <2> QED BY <1>1, <1>3, <2>4 DEF ShWaiting
<1>9. ShStep
  BY <1>8 DEF ShStep
<1> QED BY <1>5, <1>6, <1>7, <1>9 DEF ShInv

\* Every step keeps it.
LEMMA ShKeeps == ShInv /\ [ShNext]_<<sesVars, shellVars>> => ShInv'
<1> SUFFICES ASSUME ShInv, [ShNext]_<<sesVars, shellVars>> PROVE ShInv'
  OBVIOUS
<1>1. CASE Daemon
  BY <1>1, ShDaemonKeeps
<1>2. CASE cb_rl_readline \/ ExitLine
  BY <1>2, ShReadlineKeeps
<1>3. CASE QuitShell \/ ReadTimeout \/ RemoteClosed
  BY <1>3, ShLeaveKeeps
<1>4. CASE \E k \in 1..Len(from) : readwrite(k)
  BY <1>4, ShReadKeeps
<1>5. CASE g7ctrl_initcomm
  BY <1>5, ShPasswordKeeps
<1>6. CASE UNCHANGED <<sesVars, shellVars>>
  <2>1. UNCHANGED <<spc, tries, line, args, isdigit, sent, to, from, rejected, shpc, lines, heard, shown, prompt, late>>
    BY <1>6 DEF sesVars, shellVars
  <2>2. ShTypes' /\ ShAsks' /\ ShWrites' /\ ShRejects'
    <3>1. ShTypes'
      BY <2>1 DEF ShInv, ShTypes
    <3>2. ShAsks'
      BY <2>1 DEF ShInv, ShAsks
    <3>3. ShWrites'
      BY <2>1 DEF ShInv, ShWrites
    <3>4. ShRejects'
      BY <2>1 DEF ShInv, ShRejects
    <3> QED BY <3>1, <3>2, <3>3, <3>4
  <2>3. ShStep'
    BY <2>1 DEF ShInv, ShStep, ShAtRest, ShWaiting, ShAnswer
  <2> QED BY <2>2, <2>3 DEF ShInv
<1> QED BY <1>1, <1>2, <1>3, <1>4, <1>5, <1>6 DEF ShNext

\* It holds in every state.
LEMMA ShInvariant == ShSpec => []ShInv
  BY ShStarts, ShKeeps, PTL DEF ShSpec

\* As long as neither side gave up waiting, the shell shows the answer to the line it sent last, all
\* of it and nothing else, and its prompt tells whether the daemon waits for an argument, for any
\* number of lines and however the answers are cut (readwrite, cb_rl_readline; cmd_clientsrv).
THEOREM ShellInStep == ShSpec => []InStep
<1>1. ShInv => InStep
  BY DEF ShInv, ShStep, ShAtRest, ShWaiting, InStep
<1> QED BY <1>1, ShInvariant, PTL

\* What is written to the device is what its entry in the tables allows, with one value or as many
\* as its argument list says; its reply is translated with the same list; and what completion offers
\* is not refused as unknown, but for phone and the setting of a switch, for any number of lines
\* (get_cmd_args, prepare_cmd_to_device, get_srvcmd_from_devcmd, cmd_completion).
THEOREM CommandsAreWellFormed == ShSpec => []SentIsWellFormed
<1>1. ShInv => SentIsWellFormed
  BY ShRoundTrip DEF ShInv, ShWrites, ShRejects, SentIsWellFormed
<1> QED BY <1>1, ShInvariant, PTL

\* Every variable of the session and the shell keeps its type.
THEOREM ShellTypeCorrect == ShSpec => []SesTypeOK
<1>1. ShInv => SesTypeOK
  BY DEF ShInv, ShTypes, ShAsks, SesTypeOK
<1> QED BY <1>1, ShInvariant, PTL
=============================================================================

---------------------------- MODULE DatabaseProofs ----------------------------
(***************************************************************************)
(* What the proofs show of the database, of the port by which locations    *)
(* are downloaded into it, and of rows of a table, which both work with.   *)
(***************************************************************************)
EXTENDS Database, UsbLink, FiniteSetTheorems, FunctionTheorems, SequenceTheorems, WellFoundedInduction, TLAPS

-----------------------------------------------------------------------------
(* Rows of a table.                                                        *)

\* A set of numbers that is not empty has a least one.
LEMMA LeastOne ==
    ASSUME NEW S \in SUBSET Nat, S # {}
    PROVE  \E i \in S : \A k \in S : i <= k
<1> DEFINE Less == {ss \in Nat \X Nat : ss[1] < ss[2]}
<1>1. IsWellFoundedOn(Less, Nat)
  BY NatLessThanWellFounded DEF OpToRel
<1>2. PICK i \in S : \A k \in S : ~(<<k, i>> \in Less)
  <2> HIDE DEF Less
  <2> QED BY <1>1, WFMin
<1>3. ASSUME NEW k \in S PROVE i <= k
  <2>1. <<k, i>> \in Nat \X Nat /\ <<k, i>>[1] = k /\ <<k, i>>[2] = i
    OBVIOUS
  <2>2. ~(k < i)
    BY <1>2, <2>1
  <2> QED BY <2>2
<1> QED BY <1>3

\* The numbers of a set, each once, in ascending order.
LEMMA RankedHas ==
    ASSUME NEW K \in SUBSET Nat, IsFiniteSet(K)
    PROVE  /\ Cardinality(K) \in Nat /\ Ranked(K) \in [1..Cardinality(K) -> K]
           /\ \A i \in K : \E j \in 1..Cardinality(K) : Ranked(K)[j] = i
           /\ \A j, k \in 1..Cardinality(K) : j < k => Ranked(K)[j] < Ranked(K)[k]
<1> DEFINE Below(i) == {k \in K : k <= i}
           At(j) == CHOOSE i \in K : Cardinality(Below(i)) = j
<1>2. Cardinality(K) \in Nat
  BY FS_CardinalityType
<1>3. ASSUME NEW i \in K
      PROVE  /\ IsFiniteSet(Below(i)) /\ Cardinality(Below(i)) \in 1..Cardinality(K)
  <2>1. Below(i) \subseteq K /\ i \in Below(i)
    OBVIOUS
  <2>2. IsFiniteSet(Below(i)) /\ Cardinality(Below(i)) <= Cardinality(K) /\ Cardinality(Below(i)) \in Nat
    BY <2>1, FS_Subset, FS_CardinalityType
  <2>3. Cardinality(Below(i)) # 0
    BY <2>1, <2>2, FS_EmptySet
  <2> QED BY <1>2, <2>2, <2>3
<1>4. ASSUME NEW i \in K, NEW j \in K, i < j
      PROVE  Cardinality(Below(i)) < Cardinality(Below(j))
  <2>1. Below(i) \subseteq Below(j) /\ j \in Below(j) /\ j \notin Below(i)
    <3>1. i \in Nat /\ j \in Nat /\ i < j /\ \A k \in K : k \in Nat
      BY ONLY i \in K, j \in K, i < j, K \in SUBSET Nat
    <3>2. \A k \in K : k <= i => k <= j
      BY ONLY <3>1
    <3>3. ~(j <= i) /\ j <= j
      BY ONLY <3>1
    <3> QED BY ONLY <3>2, <3>3, j \in K
  <2>2. Below(i) # Below(j)
    BY <2>1
  <2>3. IsFiniteSet(Below(j)) /\ Cardinality(Below(i)) \in Nat /\ Cardinality(Below(j)) \in Nat
    <3>1. \A k \in K : IsFiniteSet(Below(k)) /\ Cardinality(Below(k)) \in 1..Cardinality(K)
      BY <1>3
    <3>2. /\ IsFiniteSet(Below(i)) /\ Cardinality(Below(i)) \in 1..Cardinality(K)
          /\ IsFiniteSet(Below(j)) /\ Cardinality(Below(j)) \in 1..Cardinality(K)
      <4> HIDE DEF Below
      <4> QED BY <3>1
    <3> QED BY <1>2, <3>2
  <2>4. Cardinality(Below(i)) <= Cardinality(Below(j)) /\ Cardinality(Below(i)) # Cardinality(Below(j))
    <3> HIDE DEF Below
    <3> QED BY <2>1, <2>2, <2>3, FS_Subset
  <2> QED BY <2>3, <2>4
<1>5. ASSUME NEW i \in K PROVE At(Cardinality(Below(i))) = i
  <2>1. \A j \in K : Cardinality(Below(j)) = Cardinality(Below(i)) => j = i
    <3> SUFFICES ASSUME NEW j \in K, j # i PROVE Cardinality(Below(j)) # Cardinality(Below(i))
      OBVIOUS
    <3>1. i \in Nat /\ j \in Nat /\ (i < j \/ j < i)
      OBVIOUS
    <3>2. Cardinality(Below(i)) \in Nat /\ Cardinality(Below(j)) \in Nat
      <4>1. \A k \in K : Cardinality(Below(k)) \in 1..Cardinality(K)
        BY <1>3
      <4> QED BY <1>2, <4>1
    <3>3. CASE i < j
      <4>1. Cardinality(Below(i)) < Cardinality(Below(j))
        BY <1>4, <3>3
      <4> QED BY <3>2, <4>1
    <3>4. CASE j < i
      <4>1. Cardinality(Below(j)) < Cardinality(Below(i))
        BY <1>4, <3>4
      <4> QED BY <3>2, <4>1
    <3> QED BY <3>1, <3>3, <3>4
  <2> HIDE DEF Below
  <2> QED BY <2>1
<1>6. Ranked(K) = [j \in 1..Cardinality(K) |-> At(j)]
  BY DEF Ranked
<1>7. DOMAIN Ranked(K) = 1..Cardinality(K) /\ \A j \in 1..Cardinality(K) : Ranked(K)[j] = At(j)
  <2> HIDE DEF Below, At
  <2> QED BY <1>6
<1>8. ASSUME NEW i \in K PROVE \E j \in 1..Cardinality(K) : Ranked(K)[j] = i
  <2>1. Cardinality(Below(i)) \in 1..Cardinality(K)
    BY <1>3
  <2> HIDE DEF Below, At
  <2> QED BY <1>5, <1>7, <2>1
<1>9. ASSUME NEW j \in 1..Cardinality(K) PROVE At(j) \in K /\ Cardinality(Below(At(j))) = j
  <2> DEFINE f == [i \in K |-> Cardinality(Below(i))]
  <2>1. \A i \in K : Cardinality(Below(i)) \in 1..Cardinality(K)
    BY <1>3
  <2>2. \A i, k \in K : Cardinality(Below(i)) = Cardinality(Below(k)) => i = k
    <3>1. \A i \in K : At(Cardinality(Below(i))) = i
      BY <1>5
    <3> HIDE DEF Below, At
    <3> QED BY <3>1
  <2>3. f \in Injection(K, 1..Cardinality(K))
    <3> HIDE DEF Below
    <3> QED BY <2>1, <2>2, Fun_IsInj
  <2>4. IsFiniteSet(1..Cardinality(K)) /\ Cardinality(1..Cardinality(K)) = Cardinality(K)
    BY <1>2, FS_Interval
  <2>5. f \in Surjection(K, 1..Cardinality(K))
    <3> HIDE DEF f
    <3> QED BY <2>3, <2>4, FS_Injection
  <2>6. PICK i \in K : f[i] = j
    <3> HIDE DEF f
    <3>1. \A t \in 1..Cardinality(K) : \E k \in K : f[k] = t
      BY <2>5, Fun_SurjectionProperties
    <3> QED BY <3>1
  <2>7. f[i] = Cardinality(Below(i))
    OBVIOUS
  <2>8. At(j) = i
    <3> HIDE DEF Below, At
    <3> QED BY <1>5, <2>6, <2>7
  <2> HIDE DEF Below, At
  <2> QED BY <2>6, <2>7, <2>8
<1>10. ASSUME NEW j \in 1..Cardinality(K), NEW k \in 1..Cardinality(K), j < k
       PROVE  Ranked(K)[j] < Ranked(K)[k]
  <2>1. PICK a \in K, b \in K : /\ Ranked(K)[j] = a /\ Cardinality(Below(a)) = j
                                /\ Ranked(K)[k] = b /\ Cardinality(Below(b)) = k
    <3> HIDE DEF Below, At
    <3> QED BY <1>7, <1>9
  <2>2. a = b \/ b < a \/ a < b
    OBVIOUS
  <2>3. CASE b < a
    <3>1. Cardinality(Below(b)) < Cardinality(Below(a))
      BY <1>4, <2>3
    <3> HIDE DEF Below, At
    <3> QED BY <1>2, <1>10, <2>1, <3>1
  <2> HIDE DEF Below, At
  <2>4. a # b
    BY <1>2, <1>10, <2>1
  <2> QED BY <2>1, <2>2, <2>3, <2>4
<1>11. Ranked(K) \in [1..Cardinality(K) -> K]
  <2> HIDE DEF Below, At
  <2> QED BY <1>6, <1>9
<1> QED BY <1>2, <1>7, <1>8, <1>10, <1>11

\* Every row that is selected is there, and nothing else, in the old order.
LEMMA KeptHas ==
    ASSUME NEW S, NEW s \in Seq(S), NEW K \in SUBSET DOMAIN s
    PROVE  /\ Kept(s, K) \in Seq(S) /\ DOMAIN Kept(s, K) = 1..Cardinality(K)
           /\ Cardinality(K) \in Nat /\ Len(Kept(s, K)) = Cardinality(K)
           /\ \A i \in K : \E j \in DOMAIN Kept(s, K) : Kept(s, K)[j] = s[i]
           /\ \A j \in DOMAIN Kept(s, K) : \E i \in K : Kept(s, K)[j] = s[i]
           /\ \A j, k \in DOMAIN Kept(s, K) :
                j < k => \E a, b \in K : a < b /\ Kept(s, K)[j] = s[a] /\ Kept(s, K)[k] = s[b]
<1>1. DOMAIN s = 1..Len(s) /\ Len(s) \in Nat /\ K \in SUBSET Nat /\ K \subseteq 1..Len(s)
  OBVIOUS
<1>2. IsFiniteSet(K)
  <2>1. IsFiniteSet(1..Len(s))
    BY <1>1, FS_Interval
  <2> QED BY <1>1, <2>1, FS_Subset
<1>3. PICK at : at = Ranked(K)
  OBVIOUS
<1>4. PICK n \in Nat : n = Cardinality(K)
  BY <1>2, FS_CardinalityType
<1>5. /\ at \in [1..n -> K]
      /\ \A i \in K : \E j \in 1..n : at[j] = i
      /\ \A j, k \in 1..n : j < k => at[j] < at[k]
  BY ONLY <1>1, <1>2, <1>3, <1>4, RankedHas, Zenon
<1>6. PICK kept : kept = [j \in 1..n |-> s[at[j]]]
  OBVIOUS
<1>7. Kept(s, K) = kept
  BY <1>3, <1>4, <1>6 DEF Kept
<1>8. kept \in Seq(S) /\ DOMAIN kept = 1..n /\ Len(kept) = n
  <2>1. \A j \in 1..n : s[at[j]] \in S
    BY <1>1, <1>5
  <2> QED BY <1>6, <2>1
<1>9. /\ \A i \in K : \E j \in 1..n : kept[j] = s[i]
      /\ \A j \in 1..n : \E i \in K : kept[j] = s[i]
      /\ \A j, k \in 1..n : j < k => \E a, b \in K : a < b /\ kept[j] = s[a] /\ kept[k] = s[b]
  BY <1>5, <1>6
<1>10. DOMAIN Kept(s, K) = 1..n /\ n = Cardinality(K) /\ Cardinality(K) \in Nat
  BY ONLY <1>4, <1>7, <1>8, n \in Nat
<1>11. Kept(s, K) \in Seq(S) /\ Len(Kept(s, K)) = Cardinality(K)
  BY ONLY <1>4, <1>7, <1>8
<1>12. \A i \in K : \E j \in DOMAIN Kept(s, K) : Kept(s, K)[j] = s[i]
  BY ONLY <1>7, <1>9, <1>10
<1>13. \A j \in DOMAIN Kept(s, K) : \E i \in K : Kept(s, K)[j] = s[i]
  BY ONLY <1>7, <1>9, <1>10
<1>14. \A j, k \in DOMAIN Kept(s, K) :
         j < k => \E a, b \in K : a < b /\ Kept(s, K)[j] = s[a] /\ Kept(s, K)[k] = s[b]
  <2>1. SUFFICES ASSUME NEW j \in DOMAIN Kept(s, K), NEW k \in DOMAIN Kept(s, K), j < k
                 PROVE  \E a, b \in K : a < b /\ Kept(s, K)[j] = s[a] /\ Kept(s, K)[k] = s[b]
    OBVIOUS
  <2>2. j \in 1..n /\ k \in 1..n
    BY ONLY <1>10, <2>1
  <2>3. PICK a \in K, b \in K : a < b /\ kept[j] = s[a] /\ kept[k] = s[b]
    BY ONLY <1>9, <2>1, <2>2
  <2>4. Kept(s, K)[j] = kept[j] /\ Kept(s, K)[k] = kept[k]
    BY ONLY <1>7
  <2> QED BY ONLY <2>3, <2>4, a \in K, b \in K
<1> QED BY ONLY <1>10, <1>11, <1>12, <1>13, <1>14, Zenon

\* Nothing is lost when every row is selected.
LEMMA KeptAll ==
    ASSUME NEW S, NEW s \in Seq(S)
    PROVE  Kept(s, DOMAIN s) = s
<1>1. PICK n \in Nat : n = Len(s) /\ DOMAIN s = 1..n
  OBVIOUS
<1>2. Cardinality(1..n) = n
  BY ONLY n \in Nat, FS_Interval
<1>3. ASSUME NEW j \in 1..n PROVE Cardinality({m \in 1..n : m <= j}) = j
  <2>1. {m \in 1..n : m <= j} = 1..j /\ j \in Nat
    OBVIOUS
  <2>2. Cardinality(1..j) = j
    BY ONLY <2>1, FS_Interval
  <2> QED BY ONLY <2>1, <2>2
<1>4. ASSUME NEW j \in 1..n PROVE (CHOOSE i \in 1..n : Cardinality({m \in 1..n : m <= i}) = j) = j
  <2> DEFINE c(i) == Cardinality({m \in 1..n : m <= i})
  <2>1. \A i \in 1..n : c(i) = i
    BY <1>3
  <2> HIDE DEF c
  <2>2. (CHOOSE i \in 1..n : c(i) = j) = j
    BY <2>1
  <2> QED BY <2>2 DEF c
<1>5. Ranked(1..n) = [j \in 1..n |-> j]
  BY <1>2, <1>4 DEF Ranked
<1>6. Kept(s, 1..n) = [j \in 1..n |-> s[j]]
  BY <1>2, <1>5 DEF Kept
<1> QED BY <1>1, <1>6

-----------------------------------------------------------------------------
(* The USB port                                                            *)

\* What the device sends: pieces of answers.
UsbPieces == [kind : {"head", "eol", "loc", "end1", "end2"}, tag : Nat, time : Nat, ev : Nat]

\* What a command to the device is.
UsbCommands == [op : {"cmd", "numrec", "dlrec", "spdlrec"}, tag : Nat]

\* The types of the variables; the memory of the device holds locations only.
UsbTypes ==
    /\ plugged \in BOOLEAN /\ exclusive \in BOOLEAN /\ opened \in SUBSET UsbThreads
    /\ devq \in Seq(UsbCommands) /\ sending \in Seq(UsbPieces) /\ tty \in Seq(UsbPieces)
    /\ memory \in Seq(UsbPieces) /\ track \in Seq(UsbPieces)
    /\ \A p \in ToSet(memory) : p.kind = "loc"
    /\ usbpc \in [UsbThreads -> {"idle", "open", "setup", "write", "read", "reply", "stop", "store"}]
    /\ opof \in [UsbThreads -> {"cmd", "numrec", "dlrec"}]
    /\ utag \in [UsbThreads -> Nat] /\ tagnbr \in Nat
    /\ rbuff \in [UsbThreads -> Seq(UsbPieces)]
    /\ usbtries \in [UsbThreads -> Nat]
    /\ urc \in [UsbThreads -> {"none", "ok", "error", "imported"}]
    /\ usbOps \in 0..MaxUsbOps /\ downloads \in Nat
    /\ shared \in [UsbThreads -> BOOLEAN]
    /\ wanted_loc \in [UsbThreads -> SUBSET {p \in UsbPieces : p.kind = "loc"}]

\* Where a thread has the port open.
AtPort == {"setup", "write", "read", "reply", "stop"}

\* What a thread has in its hands at each place: the port is open to those who use it, a device
\* that is gone says nothing, and a thread with a result was answered under its own tag.
UsbPlaces ==
    /\ opened = {t \in UsbThreads : usbpc[t] \in AtPort}
    /\ ~plugged => devq = <<>> /\ sending = <<>> /\ tty = <<>>
    /\ \A t \in UsbThreads :
          /\ usbpc[t] # "idle" => urc[t] = "none"
          /\ usbpc[t] = "reply" => rbuff[t] # <<>> /\ opof[t] # "dlrec"
          /\ usbpc[t] \in {"stop", "store"} => opof[t] = "dlrec"
          /\ usbpc[t] \in {"open", "setup", "write"} => rbuff[t] = <<>>
          /\ urc[t] = "ok" => rbuff[t] # <<>> /\ (rbuff[t][1].kind = "loc" \/ rbuff[t][1].tag = utag[t])

\* No head of an answer to the command with tag g, no command with the tag, no end of a download.
NoHead(s, g) == \A p \in ToSet(s) : ~(p.kind = "head" /\ p.tag = g)
NoCommand(s, g) == \A c \in ToSet(s) : c.tag # g
NoEndLine(s) == \A p \in ToSet(s) : p.kind # "end2"

\* Tags: every tag in use was given out, two operations have different ones, and nothing is
\* said under a tag before its command is written (the counter of serial_write).
UsbTags ==
    /\ \A t \in UsbThreads : utag[t] <= tagnbr
    /\ \A c \in ToSet(devq) : c.tag <= tagnbr
    /\ \A p \in ToSet(sending) : p.kind = "head" => p.tag <= tagnbr
    /\ \A t, s \in UsbThreads : t # s /\ usbpc[t] # "idle" /\ usbpc[s] # "idle" => utag[t] # utag[s]
    /\ \A t \in UsbThreads :
          usbpc[t] \in {"open", "setup", "write"} => NoCommand(devq, utag[t]) /\ NoHead(sending, utag[t])

\* A thread that shared the port with nobody has it for itself.
UsbAlone ==
    \A t \in UsbThreads : ~shared[t] =>
        /\ usbpc[t] \in AtPort => opened = {t}
        /\ usbpc[t] = "open" /\ opof[t] = "dlrec" => opened = {}

\* Where the answer to a command of t, which reads, is: it has left the device, or its end has
\* not, or nothing of it has, or the device has not even taken the command up.
Asked(t) ==
    \/ devq = <<>> /\ sending = <<>>
    \/ /\ devq = <<>> /\ sending = <<Piece("eol", utag[t])>>
       /\ tty = <<>> \/ Last(tty).kind = "head"
    \/ /\ NoHead(rbuff[t], utag[t]) /\ NoHead(tty, utag[t])
       /\ devq = <<>> /\ sending = <<Piece("head", utag[t]), Piece("eol", utag[t])>>
    \/ /\ NoHead(rbuff[t], utag[t]) /\ NoHead(tty, utag[t]) /\ NoHead(sending, utag[t])
       /\ devq # <<>> /\ Last(devq) = [op |-> opof[t], tag |-> utag[t]]
       /\ \A i \in 1..(Len(devq) - 1) : devq[i].tag # utag[t]

\* Where the locations of t's download are: in the device, or on their way, with the end of
\* the download behind them, or the device is gone.
Sent(t) ==
    \/ /\ devq = <<[op |-> "dlrec", tag |-> utag[t]]>> /\ sending = <<>>
       /\ wanted_loc[t] \subseteq ToSet(memory) /\ NoEndLine(tty)
    \/ /\ devq = <<>>
       /\ wanted_loc[t] \subseteq ToSet(rbuff[t]) \cup ToSet(tty) \cup ToSet(sending)
       /\ sending # <<>> => NoEndLine(tty) /\ NoEndLine(SubSeq(sending, 1, Len(sending) - 1))
    \/ ~plugged

\* A row of the time of location l.
HasTime(rows, l) == \E i \in DOMAIN rows : rows[i].time = l.time

\* A thread that shared the port with nobody: its answer is on its way until it has it, and the
\* locations it wants are on their way, in its buffer, or imported, and never fewer.
UsbAnswersOf(t) ==
    ~shared[t] =>
        /\ usbpc[t] = "read" /\ opof[t] # "dlrec" => Asked(t)
        /\ usbpc[t] = "reply" => (devq = <<>> /\ sending = <<>>) \/ NoHead(rbuff[t], utag[t])
        /\ usbpc[t] \in {"open", "setup", "write"} /\ opof[t] = "dlrec" => devq = <<>> /\ sending = <<>>
        /\ usbpc[t] = "read" /\ opof[t] = "dlrec" => Sent(t)
        /\ usbpc[t] \in {"stop", "store"} => wanted_loc[t] \subseteq ToSet(rbuff[t])
        /\ urc[t] = "imported" => \A l \in wanted_loc[t] : HasTime(track, l)

\* Of every thread.
UsbAnswers == \A t \in UsbThreads : UsbAnswersOf(t)

\* The inductive invariant of the port.  DownloadIsWhole follows from UsbAnswers alone, which
\* needs the others: without tags and exclusive use an answer could be that of another command.
UsbInv == UsbTypes /\ UsbPlaces /\ UsbTags /\ UsbAlone /\ UsbAnswers

-----------------------------------------------------------------------------
(* Sequences.                                                              *)

\* What is in a sequence after something was appended, taken or joined.
LEMMA UsbAppend ==
    ASSUME NEW S, NEW s \in Seq(S), NEW x \in S
    PROVE  /\ Append(s, x) \in Seq(S) /\ Append(s, x) # <<>>
           /\ ToSet(Append(s, x)) = ToSet(s) \cup {x} /\ Last(Append(s, x)) = x
<1>1. /\ Append(s, x) \in Seq(S) /\ Len(Append(s, x)) = Len(s) + 1 /\ Len(s) \in Nat
      /\ DOMAIN Append(s, x) = 1..(Len(s) + 1) /\ DOMAIN s = 1..Len(s)
      /\ Append(s, x)[Len(s) + 1] = x /\ \A i \in 1..Len(s) : Append(s, x)[i] = s[i]
  OBVIOUS
<1>2. ASSUME NEW y \in ToSet(Append(s, x)) PROVE y \in ToSet(s) \cup {x}
  <2>1. PICK i \in 1..(Len(s) + 1) : y = Append(s, x)[i]
    BY <1>1 DEF ToSet
  <2>2. i \in 1..Len(s) \/ i = Len(s) + 1
    BY <1>1
  <2> QED BY <1>1, <2>1, <2>2 DEF ToSet
<1>3. ASSUME NEW y \in ToSet(s) \cup {x} PROVE y \in ToSet(Append(s, x))
  <2>1. CASE y = x
    <3>1. Len(s) + 1 \in 1..(Len(s) + 1)
      BY <1>1
    <3> QED BY <1>1, <2>1, <3>1 DEF ToSet
  <2>2. CASE y \in ToSet(s)
    <3>1. PICK i \in 1..Len(s) : y = s[i]
      BY <1>1, <2>2 DEF ToSet
    <3>2. i \in 1..(Len(s) + 1)
      BY <1>1
    <3> QED BY <1>1, <3>1, <3>2 DEF ToSet
  <2> QED BY <2>1, <2>2
<1>4. Append(s, x) # <<>>
  <2> SUFFICES ASSUME Append(s, x) = <<>> PROVE FALSE
    OBVIOUS
  <2>1. Len(Append(s, x)) = 0
    OBVIOUS
  <2> QED BY <1>1, <2>1
<1> QED BY <1>1, <1>2, <1>3, <1>4 DEF Last

\* The elements of two sequences one behind the other.
LEMMA UsbConcat ==
    ASSUME NEW S, NEW s \in Seq(S), NEW r \in Seq(S)
    PROVE  s \o r \in Seq(S) /\ ToSet(s \o r) = ToSet(s) \cup ToSet(r)
<1>1. /\ s \o r \in Seq(S) /\ Len(s) \in Nat /\ Len(r) \in Nat
      /\ DOMAIN (s \o r) = 1..(Len(s) + Len(r)) /\ DOMAIN s = 1..Len(s) /\ DOMAIN r = 1..Len(r)
      /\ \A i \in 1..(Len(s) + Len(r)) : (s \o r)[i] = IF i <= Len(s) THEN s[i] ELSE r[i - Len(s)]
  OBVIOUS
<1>2. ASSUME NEW y \in ToSet(s \o r) PROVE y \in ToSet(s) \cup ToSet(r)
  <2>1. PICK i \in 1..(Len(s) + Len(r)) : y = (s \o r)[i]
    BY <1>1 DEF ToSet
  <2>2. i \in 1..Len(s) \/ (i - Len(s) \in 1..Len(r) /\ ~(i <= Len(s)))
    BY <1>1
  <2> QED BY <1>1, <2>1, <2>2 DEF ToSet
<1>3. ASSUME NEW y \in ToSet(s) PROVE y \in ToSet(s \o r)
  <2>1. PICK i \in 1..Len(s) : y = s[i]
    BY <1>1 DEF ToSet
  <2>2. i \in 1..(Len(s) + Len(r)) /\ i <= Len(s)
    BY <1>1
  <2> QED BY <1>1, <2>1, <2>2 DEF ToSet
<1>4. ASSUME NEW y \in ToSet(r) PROVE y \in ToSet(s \o r)
  <2>1. PICK i \in 1..Len(r) : y = r[i]
    BY <1>1 DEF ToSet
  <2>2. i + Len(s) \in 1..(Len(s) + Len(r)) /\ ~(i + Len(s) <= Len(s)) /\ i + Len(s) - Len(s) = i
    BY <1>1
  <2> QED BY <1>1, <2>1, <2>2 DEF ToSet
<1> QED BY <1>1, <1>2, <1>3, <1>4

\* A sequence is its head and its tail.
LEMMA UsbTail ==
    ASSUME NEW S, NEW s \in Seq(S), s # <<>>
    PROVE  /\ Head(s) \in S /\ Tail(s) \in Seq(S) /\ ToSet(s) = {Head(s)} \cup ToSet(Tail(s))
           /\ Len(s) \in Nat /\ Len(s) >= 1 /\ Len(Tail(s)) = Len(s) - 1 /\ Head(s) = s[1]
           /\ \A i \in 1..(Len(s) - 1) : Tail(s)[i] = s[i + 1]
<1>1. /\ Head(s) \in S /\ Tail(s) \in Seq(S) /\ Len(s) \in Nat /\ Len(s) >= 1 /\ Len(Tail(s)) = Len(s) - 1
      /\ DOMAIN s = 1..Len(s) /\ DOMAIN Tail(s) = 1..(Len(s) - 1) /\ Head(s) = s[1]
      /\ \A i \in 1..(Len(s) - 1) : Tail(s)[i] = s[i + 1]
  OBVIOUS
<1>2. ASSUME NEW y \in ToSet(s) PROVE y \in {Head(s)} \cup ToSet(Tail(s))
  <2>1. PICK i \in 1..Len(s) : y = s[i]
    BY <1>1 DEF ToSet
  <2>2. i = 1 \/ (i - 1 \in 1..(Len(s) - 1) /\ i - 1 + 1 = i)
    BY <1>1
  <2> QED BY <1>1, <2>1, <2>2 DEF ToSet
<1>3. ASSUME NEW y \in ToSet(Tail(s)) PROVE y \in ToSet(s)
  <2>1. PICK i \in 1..(Len(s) - 1) : y = Tail(s)[i]
    BY <1>1 DEF ToSet
  <2>2. i + 1 \in 1..Len(s)
    BY <1>1
  <2> QED BY <1>1, <2>1, <2>2 DEF ToSet
<1>4. Head(s) \in ToSet(s)
  BY <1>1 DEF ToSet
<1> QED BY <1>1, <1>2, <1>3, <1>4

\* Nothing is in an empty sequence.
LEMMA UsbEmpty == ToSet(<<>>) = {}
  BY DEF ToSet

\* The removal of duplicates keeps every time, and what is stored has every location that was read.
LEMMA DistinctTimes ==
    ASSUME NEW rows \in Seq(UsbPieces)
    PROVE  /\ Distinct(rows) \in Seq(UsbPieces)
           /\ \A l : HasTime(rows, l) => HasTime(Distinct(rows), l)
<1> DEFINE K == {i \in DOMAIN rows : \A k \in 1..(i - 1) : rows[k].time # rows[i].time}
<1>1. K \in SUBSET DOMAIN rows /\ Distinct(rows) = Kept(rows, K)
  BY DEF Distinct
<1>2. DOMAIN rows = 1..Len(rows) /\ Len(rows) \in Nat
  OBVIOUS
<1>3. ASSUME NEW l, NEW i \in DOMAIN rows, rows[i].time = l.time
      PROVE  HasTime(Distinct(rows), l)
  <2> DEFINE S == {k \in DOMAIN rows : rows[k].time = l.time}
  <2>1. S \in SUBSET Nat /\ S # {}
    BY <1>2, <1>3
  <2>2. PICK m \in S : \A k \in S : m <= k
    BY <2>1, LeastOne
  <2>3. m \in DOMAIN rows /\ rows[m].time = l.time /\ m \in 1..Len(rows)
    BY <1>2, <2>2
  <2>4. ASSUME NEW k \in 1..(m - 1) PROVE rows[k].time # rows[m].time
    <3>1. k \in DOMAIN rows /\ ~(m <= k)
      BY <1>2, <2>3
    <3> QED BY <2>2, <2>3, <3>1
  <2>5. m \in K
    BY <2>3, <2>4
  <2>6. PICK j \in DOMAIN Kept(rows, K) : Kept(rows, K)[j] = rows[m]
    <3> HIDE DEF K
    <3> QED BY <1>1, <2>5, KeptHas
  <2> QED BY <1>1, <2>3, <2>6 DEF HasTime
<1>4. Distinct(rows) \in Seq(UsbPieces)
  <2> HIDE DEF K
  <2> QED BY <1>1, KeptHas
<1> QED BY <1>3, <1>4 DEF HasTime

\* The locations of a download are all in what is stored.
LEMMA LocationsHas ==
    ASSUME NEW s \in Seq(UsbPieces)
    PROVE  /\ Locations(s) \in Seq(UsbPieces)
           /\ \A p \in ToSet(s) : p.kind = "loc" => p \in ToSet(Locations(s))
<1> DEFINE K == {i \in DOMAIN s : IsLoc(s[i])}
<1>1. K \in SUBSET DOMAIN s /\ Locations(s) = Kept(s, K)
  BY DEF Locations
<1>2. ASSUME NEW p \in ToSet(s), p.kind = "loc" PROVE p \in ToSet(Locations(s))
  <2>1. PICK i \in DOMAIN s : p = s[i]
    BY DEF ToSet
  <2>2. i \in K
    BY <1>2, <2>1 DEF IsLoc
  <2>3. PICK j \in DOMAIN Kept(s, K) : Kept(s, K)[j] = s[i]
    <3> HIDE DEF K
    <3> QED BY <1>1, <2>2, KeptHas
  <2> QED BY <1>1, <2>1, <2>3 DEF ToSet
<1>3. Locations(s) \in Seq(UsbPieces)
  <2> HIDE DEF K
  <2> QED BY <1>1, KeptHas
<1> QED BY <1>2, <1>3

\* A row for every location of the download, and for every one that was there before, also when
\* the ones of equal time are removed (DLREC).
LEMMA UsbStored ==
    ASSUME NEW rows \in Seq(UsbPieces), NEW s \in Seq(UsbPieces)
    PROVE  LET rest == rows \o Locations(s) IN
           /\ rest \in Seq(UsbPieces) /\ Distinct(rest) \in Seq(UsbPieces)
           /\ \A l : HasTime(rows, l) => HasTime(rest, l) /\ HasTime(Distinct(rest), l)
           /\ \A l \in ToSet(s) : l.kind = "loc" => HasTime(Distinct(rest), l)
<1> DEFINE rest == rows \o Locations(s)
<1>1. Locations(s) \in Seq(UsbPieces) /\ \A p \in ToSet(s) : p.kind = "loc" => p \in ToSet(Locations(s))
  BY LocationsHas
<1>2. rest \in Seq(UsbPieces) /\ ToSet(rest) = ToSet(rows) \cup ToSet(Locations(s))
  BY <1>1, UsbConcat
<1>3. \A x \in Seq(UsbPieces) : \A l : HasTime(x, l) <=> \E p \in ToSet(x) : p.time = l.time
  BY DEF HasTime, ToSet
<1> HIDE DEF rest
<1>4. Distinct(rest) \in Seq(UsbPieces) /\ \A l : HasTime(rest, l) => HasTime(Distinct(rest), l)
  BY <1>2, DistinctTimes
<1>5. \A l : HasTime(rows, l) => HasTime(rest, l)
  BY <1>2, <1>3
<1>6. ASSUME NEW l \in ToSet(s), l.kind = "loc" PROVE HasTime(rest, l)
  BY <1>1, <1>2, <1>3, <1>6
<1> QED BY <1>2, <1>4, <1>5, <1>6 DEF rest

-----------------------------------------------------------------------------
(* The types.                                                              *)

\* The answer of the device: it carries the tag of its command, and only a download has locations,
\* all of the memory, before its end.
LEMMA UsbAnswer ==
    ASSUME memory \in Seq(UsbPieces), \A p \in ToSet(memory) : p.kind = "loc", NEW c \in UsbCommands
    PROVE  /\ AnswerTo(c) \in Seq(UsbPieces) /\ AnswerTo(c) # <<>>
           /\ \A p \in ToSet(AnswerTo(c)) : p.kind = "head" => p.tag = c.tag
           /\ c.op # "dlrec" => AnswerTo(c) = <<Piece("head", c.tag), Piece("eol", c.tag)>>
           /\ c.op = "dlrec" => /\ ToSet(memory) \subseteq ToSet(AnswerTo(c))
                                /\ NoEndLine(SubSeq(AnswerTo(c), 1, Len(AnswerTo(c)) - 1))
<1> DEFINE h == Piece("head", c.tag)
           e == Piece("eol", c.tag)
           e1 == Piece("end1", c.tag)
           e2 == Piece("end2", c.tag)
<1>1. /\ h \in UsbPieces /\ e \in UsbPieces /\ e1 \in UsbPieces /\ e2 \in UsbPieces
      /\ h.kind = "head" /\ h.tag = c.tag /\ e.kind = "eol" /\ e1.kind = "end1" /\ e2.kind = "end2"
  BY DEF Piece, UsbPieces, UsbCommands
<1> HIDE DEF h, e, e1, e2
<1>2. /\ <<h, e>> \in Seq(UsbPieces) /\ <<e1, e2>> \in Seq(UsbPieces)
      /\ ToSet(<<h, e>>) = {h, e} /\ ToSet(<<e1, e2>>) = {e1, e2}
  <2>1. \A x, y : DOMAIN <<x, y>> = {1, 2}
    OBVIOUS
  <2>2. \A x, y : ToSet(<<x, y>>) = {x, y}
    BY <2>1 DEF ToSet
  <2> QED BY <1>1, <2>2
<1>3. CASE c.op # "dlrec"
  <2>1. AnswerTo(c) = <<h, e>>
    BY <1>3 DEF AnswerTo, h, e
  <2> QED BY <1>1, <1>2, <1>3, <2>1 DEF h, e
<1>4. CASE c.op = "dlrec"
  <2>1. AnswerTo(c) = <<h, e>> \o (memory \o <<e1, e2>>)
    BY <1>4 DEF AnswerTo, h, e, e1, e2
  <2>2. memory \o <<e1, e2>> \in Seq(UsbPieces) /\ ToSet(memory \o <<e1, e2>>) = ToSet(memory) \cup {e1, e2}
    <3>1. memory \in Seq(UsbPieces) /\ <<e1, e2>> \in Seq(UsbPieces)
      BY <1>2
    <3>2. /\ memory \o <<e1, e2>> \in Seq(UsbPieces)
          /\ ToSet(memory \o <<e1, e2>>) = ToSet(memory) \cup ToSet(<<e1, e2>>)
      BY ONLY <3>1, UsbConcat, Zenon
    <3> QED BY <1>2, <3>2
  <2>3. AnswerTo(c) \in Seq(UsbPieces) /\ ToSet(AnswerTo(c)) = {h, e} \cup (ToSet(memory) \cup {e1, e2})
    <3>1. <<h, e>> \in Seq(UsbPieces) /\ memory \o <<e1, e2>> \in Seq(UsbPieces)
      BY <1>2, <2>2
    <3> DEFINE a == <<h, e>>
               b == memory \o <<e1, e2>>
    <3>2. a \o b \in Seq(UsbPieces) /\ ToSet(a \o b) = ToSet(a) \cup ToSet(b)
      <4>1. a \in Seq(UsbPieces) /\ b \in Seq(UsbPieces)
        BY <3>1
      <4> HIDE DEF a, b
      <4> QED BY <4>1, UsbConcat
    <3> QED BY <1>2, <2>1, <2>2, <3>2 DEF a, b
  <2>4. AnswerTo(c) # <<>>
    BY <2>3, UsbEmpty
  <2>5. NoEndLine(SubSeq(AnswerTo(c), 1, Len(AnswerTo(c)) - 1))
    <3> DEFINE m == Len(memory)
    <3>1. m \in Nat /\ \A i \in 1..m : memory[i] \in ToSet(memory)
      BY DEF ToSet
    <3>2. Len(memory \o <<e1, e2>>) = m + 2 /\ Len(AnswerTo(c)) = m + 4
      BY <1>2, <2>1, <2>2
    <3>3. \A i \in 1..(m + 4) : AnswerTo(c)[i] = IF i <= 2 THEN <<h, e>>[i] ELSE (memory \o <<e1, e2>>)[i - 2]
      BY <1>2, <2>1, <2>2, <3>2
    <3>4. \A i \in 1..(m + 2) : (memory \o <<e1, e2>>)[i] = IF i <= m THEN memory[i] ELSE <<e1, e2>>[i - m]
      BY <1>2, <2>2
    <3> HIDE DEF m
    <3>5. ASSUME NEW i \in 1..(m + 3) PROVE AnswerTo(c)[i].kind # "end2"
      <4>1. CASE i = 1 \/ i = 2
        BY <1>1, <3>1, <3>3, <4>1
      <4>2. CASE i - 2 \in 1..m
        <5>1. i \in 1..(m + 4) /\ ~(i <= 2) /\ i - 2 \in 1..(m + 2) /\ i - 2 <= m
          BY <3>1, <4>2
        <5>2. AnswerTo(c)[i] = memory[i - 2] /\ memory[i - 2] \in ToSet(memory)
          BY <3>1, <3>3, <3>4, <4>2, <5>1
        <5> QED BY <5>2
      <4>3. CASE i = m + 3
        <5>1. i \in 1..(m + 4) /\ ~(i <= 2) /\ i - 2 \in 1..(m + 2) /\ ~(i - 2 <= m) /\ i - 2 - m = 1
          BY <3>1, <4>3
        <5>2. AnswerTo(c)[i] = <<e1, e2>>[1]
          BY <3>3, <3>4, <5>1
        <5> QED BY <1>1, <5>2
      <4> QED BY <3>1, <4>1, <4>2, <4>3
    <3>6. /\ DOMAIN SubSeq(AnswerTo(c), 1, m + 3) = 1..(m + 3)
          /\ \A i \in 1..(m + 3) : SubSeq(AnswerTo(c), 1, m + 3)[i] = AnswerTo(c)[i]
      BY <2>3, <3>1, <3>2
    <3>7. NoEndLine(SubSeq(AnswerTo(c), 1, m + 3))
      BY <3>5, <3>6 DEF NoEndLine, ToSet
    <3>8. Len(AnswerTo(c)) - 1 = m + 3
      BY <3>1, <3>2
    <3> QED BY <3>7, <3>8
  <2> QED BY <1>1, <1>4, <2>3, <2>4, <2>5
<1> QED BY <1>3, <1>4

\* The locations a device records are locations.
LEMMA UsbLocs ==
    /\ Loc(2, 1) \in UsbPieces /\ Loc(1, 1) \in UsbPieces /\ Loc(1, 2) \in UsbPieces
    /\ Loc(2, 1).kind = "loc" /\ Loc(1, 2).kind = "loc"
  BY DEF Loc, UsbPieces

\* The invariant holds when the device has just been plugged in.
LEMMA UsbInitInv == UsbInit => UsbInv
<1> SUFFICES ASSUME UsbInit PROVE UsbInv
  OBVIOUS
<1> USE DEF UsbInit
<1>1. memory \in Seq(UsbPieces) /\ track \in Seq(UsbPieces) /\ \A p \in ToSet(memory) : p.kind = "loc"
  <2>1. <<Loc(1, 1)>> \in Seq(UsbPieces) /\ <<Loc(1, 2)>> \in Seq(UsbPieces) /\ <<>> \in Seq(UsbPieces)
    BY UsbLocs
  <2>2. ToSet(<<Loc(1, 2)>>) = {Loc(1, 2)}
    BY DEF ToSet
  <2> QED BY <2>1, <2>2, UsbLocs, UsbEmpty
<1>2. UsbTypes
  <2>1. /\ devq \in Seq(UsbCommands) /\ sending \in Seq(UsbPieces) /\ tty \in Seq(UsbPieces)
        /\ rbuff \in [UsbThreads -> Seq(UsbPieces)] /\ usbOps \in 0..MaxUsbOps
    BY UsbAssumption
  <2> QED BY <1>1, <2>1 DEF UsbTypes
<1>3. UsbPlaces
  BY DEF UsbPlaces, AtPort
<1>4. UsbTags
  BY UsbEmpty DEF UsbTags, NoHead, NoCommand
<1>5. UsbAlone
  BY DEF UsbAlone, AtPort
<1>6. UsbAnswers
  BY DEF UsbAnswers, UsbAnswersOf, AtPort
<1> QED BY <1>2, <1>3, <1>4, <1>5, <1>6 DEF UsbInv

\* An operation that fails keeps the types.
LEMMA UsbTypesFail ==
    ASSUME UsbTypes, NEW t \in UsbThreads, FailUsb(t),
           plugged' = plugged /\ sending' = sending /\ memory' = memory /\ track' = track,
           devq' \in Seq(UsbCommands), tagnbr' = tagnbr /\ usbOps' = usbOps /\ downloads' = downloads
    PROVE  UsbTypes'
<1>1. /\ usbpc' \in [UsbThreads -> {"idle", "open", "setup", "write", "read", "reply", "stop", "store"}]
      /\ urc' \in [UsbThreads -> {"none", "ok", "error", "imported"}]
      /\ opof' \in [UsbThreads -> {"cmd", "numrec", "dlrec"}]
      /\ utag' \in [UsbThreads -> Nat] /\ usbtries' \in [UsbThreads -> Nat]
      /\ shared' \in [UsbThreads -> BOOLEAN]
  BY DEF UsbTypes, FailUsb, UsbGoto
<1>2. rbuff' \in [UsbThreads -> Seq(UsbPieces)] /\ tty' \in Seq(UsbPieces)
  BY DEF UsbTypes, FailUsb, Closed
<1>3. wanted_loc' \in [UsbThreads -> SUBSET {p \in UsbPieces : p.kind = "loc"}]
  BY DEF UsbTypes, FailUsb
<1>4. opened' \in SUBSET UsbThreads /\ exclusive' \in BOOLEAN
  BY DEF UsbTypes, FailUsb, Closed
<1> QED BY <1>1, <1>2, <1>3, <1>4 DEF UsbTypes

\* Every step keeps the types.
LEMMA UsbTypesNext ==
    ASSUME UsbTypes, UsbPlaces, [UsbNext]_usbVars
    PROVE  UsbTypes'
<1> USE DEF UsbThread, UsbDevice, UsbGoto
<1>1. ASSUME NEW t \in UsbThreads, NEW o \in {"cmd", "numrec"}, StartUsb(t, o) PROVE UsbTypes'
  <2>1. usbOps' \in 0..MaxUsbOps
    BY <1>1, UsbAssumption DEF UsbTypes, StartUsb
  <2>2. tagnbr' \in Nat /\ downloads' \in Nat
    BY <1>1 DEF UsbTypes, StartUsb
  <2>3. <<>> \in Seq(UsbPieces)
    OBVIOUS
  <2>4. /\ usbpc' \in [UsbThreads -> {"idle", "open", "setup", "write", "read", "reply", "stop", "store"}]
        /\ opof' \in [UsbThreads -> {"cmd", "numrec", "dlrec"}]
        /\ utag' \in [UsbThreads -> Nat] /\ rbuff' \in [UsbThreads -> Seq(UsbPieces)]
        /\ usbtries' \in [UsbThreads -> Nat] /\ urc' \in [UsbThreads -> {"none", "ok", "error", "imported"}]
        /\ shared' \in [UsbThreads -> BOOLEAN]
    BY <1>1, <2>2, <2>3 DEF UsbTypes, StartUsb
  <2>5. UNCHANGED <<plugged, opened, exclusive, tty, track, devq, sending, memory, wanted_loc>>
    BY <1>1 DEF StartUsb
  <2> QED BY <2>1, <2>2, <2>4, <2>5 DEF UsbTypes
<1>2. ASSUME NEW t \in UsbThreads, serial_open(t) PROVE UsbTypes'
  <2>1. /\ usbpc' \in [UsbThreads -> {"idle", "open", "setup", "write", "read", "reply", "stop", "store"}]
        /\ urc' \in [UsbThreads -> {"none", "ok", "error", "imported"}]
        /\ opened' \in SUBSET UsbThreads
    BY <1>2 DEF UsbTypes, serial_open
  <2>2. shared' \in [UsbThreads -> BOOLEAN]
    <3>1. CASE shared' = shared
      BY <3>1 DEF UsbTypes
    <3>2. CASE shared' = [s \in UsbThreads |-> shared[s] \/ (IF s = t THEN opened # {} ELSE usbpc[s] # "idle")]
      BY <3>2, Zenon
    <3> QED BY <1>2, <3>1, <3>2 DEF serial_open
  <2>3. UNCHANGED <<plugged, exclusive, tty, track, opof, utag, tagnbr, rbuff, usbtries, usbOps, downloads, devq, sending, memory, wanted_loc>>
    BY <1>2 DEF serial_open
  <2> QED BY <2>1, <2>2, <2>3 DEF UsbTypes
<1>3. ASSUME NEW t \in UsbThreads, SetExclusive(t) PROVE UsbTypes'
  BY <1>3 DEF UsbTypes, SetExclusive
<1>4. ASSUME NEW t \in UsbThreads, serial_write(t) PROVE UsbTypes'
  <2>1. CASE plugged
    <3>1. [op |-> opof[t], tag |-> utag[t]] \in UsbCommands
      BY DEF UsbTypes, UsbCommands
    <3>2. devq' \in Seq(UsbCommands)
      <4>1. devq' = Append(devq, [op |-> opof[t], tag |-> utag[t]]) /\ devq \in Seq(UsbCommands)
        BY <1>4, <2>1 DEF UsbTypes, serial_write
      <4> QED BY ONLY <3>1, <4>1
    <3>3. wanted_loc' \in [UsbThreads -> SUBSET {p \in UsbPieces : p.kind = "loc"}]
      <4>1. ToSet(memory) \subseteq {p \in UsbPieces : p.kind = "loc"}
        <5>1. ToSet(memory) \subseteq UsbPieces
          BY DEF UsbTypes, ToSet
        <5> QED BY <5>1 DEF UsbTypes
      <4>2. wanted_loc' = [wanted_loc EXCEPT ![t] = IF opof[t] = "dlrec" THEN ToSet(memory) ELSE @]
        BY <1>4, <2>1 DEF serial_write
      <4> QED BY <4>1, <4>2 DEF UsbTypes
    <3>4. /\ tty' = <<>> /\ usbpc' = [usbpc EXCEPT ![t] = "read"]
          /\ UNCHANGED <<opened, exclusive, opof, utag, urc, rbuff, usbtries, shared, plugged, sending, memory, track,
                         tagnbr, usbOps, downloads>>
      BY <1>4, <2>1 DEF serial_write
    <3> QED BY <3>2, <3>3, <3>4 DEF UsbTypes
  <2>2. CASE ~plugged
    <3>1. /\ FailUsb(t) /\ devq' = devq
          /\ UNCHANGED <<plugged, sending, memory, track, tagnbr, usbOps, downloads>>
      BY <1>4, <2>2 DEF serial_write
    <3>2. devq' \in Seq(UsbCommands)
      BY <3>1 DEF UsbTypes
    <3> QED BY <3>1, <3>2, UsbTypesFail
  <2> QED BY <2>1, <2>2
<1>5. ASSUME NEW t \in UsbThreads, serial_read_line(t) \/ ReadDownload(t) PROVE UsbTypes'
  <2>1. rbuff[t] \o tty \in Seq(UsbPieces)
    BY DEF UsbTypes
  <2>2. /\ rbuff' = [rbuff EXCEPT ![t] = rbuff[t] \o tty] /\ tty' = <<>>
        /\ UNCHANGED <<plugged, opened, exclusive, track, urc, opof, utag, tagnbr, usbOps, downloads, shared, devq, sending, memory, wanted_loc>>
    BY <1>5 DEF serial_read_line, ReadDownload, serial_read_timeout, UsbTypes
  <2>3. usbpc' \in [UsbThreads -> {"idle", "open", "setup", "write", "read", "reply", "stop", "store"}]
    BY <1>5 DEF serial_read_line, ReadDownload, UsbTypes
  <2>4. usbtries' \in [UsbThreads -> Nat]
    <3>1. usbtries' = usbtries \/ usbtries' = [usbtries EXCEPT ![t] = usbtries[t] + 1]
      BY <1>5 DEF serial_read_line, ReadDownload
    <3>2. usbtries \in [UsbThreads -> Nat]
      BY DEF UsbTypes
    <3>3. usbtries[t] + 1 \in Nat
      BY <3>2
    <3> QED BY <3>1, <3>2, <3>3
  <2>5. rbuff' \in [UsbThreads -> Seq(UsbPieces)] /\ tty' \in Seq(UsbPieces)
    BY <2>1, <2>2 DEF UsbTypes
  <2>6. /\ usbOps' = usbOps /\ shared' = shared /\ opof' = opof /\ utag' = utag /\ tagnbr' = tagnbr
        /\ downloads' = downloads /\ devq' = devq /\ sending' = sending /\ memory' = memory
        /\ wanted_loc' = wanted_loc /\ plugged' = plugged /\ opened' = opened /\ exclusive' = exclusive
        /\ track' = track /\ urc' = urc
    BY <2>2
  <2> QED BY <2>3, <2>4, <2>5, <2>6 DEF UsbTypes
<1>6. ASSUME NEW t \in UsbThreads, ReadNothing(t) PROVE UsbTypes'
  BY <1>6 DEF UsbTypes, ReadNothing
<1>7. ASSUME NEW t \in UsbThreads, UsbTimeout(t) PROVE UsbTypes'
  <2>1. devq' \in Seq(UsbCommands)
    BY <1>7 DEF UsbTypes, UsbTimeout
  <2>2. FailUsb(t) /\ UNCHANGED <<plugged, sending, memory, track, tagnbr, usbOps, downloads>>
    BY <1>7 DEF UsbTimeout
  <2> QED BY <2>1, <2>2, UsbTypesFail
<1>8. ASSUME NEW t \in UsbThreads, handle_usb_reply(t) PROVE UsbTypes'
  <2>1. PICK n \in BOOLEAN : n = get_numrec(t)
    BY Zenon DEF get_numrec
  <2>2. /\ tty' = <<>> /\ opened' = opened \ {t} /\ exclusive' = (exclusive /\ opened' # {})
        /\ usbpc' = [usbpc EXCEPT ![t] = IF n /\ plugged THEN "open" ELSE "idle"]
        /\ opof' = [opof EXCEPT ![t] = IF n THEN "dlrec" ELSE opof[t]]
        /\ tagnbr' = IF n THEN tagnbr + 1 ELSE tagnbr
        /\ utag' = [utag EXCEPT ![t] = IF n THEN tagnbr' ELSE utag[t]]
        /\ usbtries' = [usbtries EXCEPT ![t] = 0]
        /\ UNCHANGED <<plugged, track, usbOps, downloads, shared, devq, sending, memory, wanted_loc>>
    BY <1>8, <2>1 DEF handle_usb_reply, Closed, UsbTypes
  <2>3. urc' \in [UsbThreads -> {"none", "ok", "error", "imported"}]
    BY <1>8 DEF handle_usb_reply, UsbTypes
  <2>4. rbuff' \in [UsbThreads -> Seq(UsbPieces)]
    <3>1. rbuff' = [rbuff EXCEPT ![t] = IF urc'[t] = "ok" THEN rbuff[t] ELSE <<>>]
      BY <1>8 DEF handle_usb_reply, UsbTypes
    <3> QED BY <3>1 DEF UsbTypes
  <2>5. tagnbr' \in Nat
    BY <2>2 DEF UsbTypes
  <2>6. /\ usbpc' \in [UsbThreads -> {"idle", "open", "setup", "write", "read", "reply", "stop", "store"}]
        /\ opof' \in [UsbThreads -> {"cmd", "numrec", "dlrec"}]
        /\ utag' \in [UsbThreads -> Nat] /\ usbtries' \in [UsbThreads -> Nat]
        /\ opened' \in SUBSET UsbThreads
    BY <2>2, <2>5 DEF UsbTypes
  <2>7. exclusive' \in BOOLEAN /\ tty' \in Seq(UsbPieces)
    BY <2>2 DEF UsbTypes
  <2>8. UNCHANGED <<plugged, track, usbOps, downloads, shared, devq, sending, memory, wanted_loc>>
    BY <2>2
  <2> QED BY <2>3, <2>4, <2>5, <2>6, <2>7, <2>8 DEF UsbTypes
<1>9. ASSUME NEW t \in UsbThreads, StopDownload(t) PROVE UsbTypes'
  <2>1. devq' \in Seq(UsbCommands)
    <3>1. [op |-> "spdlrec", tag |-> utag[t]] \in UsbCommands
      BY DEF UsbTypes, UsbCommands
    <3> QED BY <1>9, <3>1 DEF UsbTypes, StopDownload
  <2>2. CASE FailUsb(t)
    <3>1. UNCHANGED <<plugged, sending, memory, track, tagnbr, usbOps, downloads>>
      BY <1>9 DEF StopDownload
    <3> QED BY <2>1, <2>2, <3>1, UsbTypesFail
  <2>3. CASE /\ Closed(t) /\ UsbGoto(t, "store")
             /\ UNCHANGED <<opof, utag, urc, rbuff, usbtries, shared, wanted_loc>>
    <3>1. UNCHANGED <<plugged, sending, memory, track, tagnbr, usbOps, downloads>>
      BY <1>9 DEF StopDownload
    <3> QED BY <2>1, <2>3, <3>1, SMTT(30) DEF UsbTypes, Closed
  <2> QED BY <1>9, <2>2, <2>3 DEF StopDownload
<1>10. ASSUME NEW t \in UsbThreads, StoreDownload(t) PROVE UsbTypes'
  <2>1. track' \in Seq(UsbPieces)
    <3>1. track \in Seq(UsbPieces) /\ rbuff[t] \in Seq(UsbPieces)
      BY DEF UsbTypes
    <3>2. /\ track \o Locations(rbuff[t]) \in Seq(UsbPieces)
          /\ Distinct(track \o Locations(rbuff[t])) \in Seq(UsbPieces)
      BY <3>1, UsbStored
    <3>3. track' \in {track, track \o Locations(rbuff[t]), Distinct(track \o Locations(rbuff[t]))}
      BY <1>10 DEF StoreDownload
    <3> QED BY <3>1, <3>2, <3>3
  <2>2. urc' \in [UsbThreads -> {"none", "ok", "error", "imported"}]
    BY <1>10 DEF UsbTypes, StoreDownload
  <2>3. /\ usbpc' = [usbpc EXCEPT ![t] = "idle"] /\ rbuff' = [rbuff EXCEPT ![t] = <<>>]
        /\ UNCHANGED <<plugged, opened, exclusive, tty, usbtries, opof, utag, tagnbr, usbOps, downloads, shared, devq, sending, memory, wanted_loc>>
    BY <1>10 DEF StoreDownload
  <2> QED BY <2>1, <2>2, <2>3 DEF UsbTypes
<1>11. CASE DeviceTakes
  <2>1. Head(devq) \in UsbCommands /\ Tail(devq) \in Seq(UsbCommands)
    BY <1>11 DEF UsbTypes, DeviceTakes
  <2>2. AnswerTo(Head(devq)) \in Seq(UsbPieces)
    BY <2>1, UsbAnswer DEF UsbTypes
  <2> QED BY <1>11, <2>1, <2>2 DEF UsbTypes, DeviceTakes
<1>12. CASE DeviceSendsPiece
  BY <1>12 DEF UsbTypes, DeviceSendsPiece
<1>13. CASE DeviceRecords
  <2>1. memory' \in Seq(UsbPieces) /\ \A p \in ToSet(memory') : p.kind = "loc"
    <3>1. memory \in Seq(UsbPieces) /\ \A p \in ToSet(memory) : p.kind = "loc"
      BY DEF UsbTypes
    <3>2. ToSet(Append(memory, Loc(2, 1))) = ToSet(memory) \cup {Loc(2, 1)} /\ Append(memory, Loc(2, 1)) \in Seq(UsbPieces)
      BY <3>1, UsbAppend, UsbLocs
    <3> QED BY <1>13, <3>1, <3>2, UsbLocs DEF DeviceRecords
  <2>2. tty' \in Seq(UsbPieces)
    <3>1. tty' \in {tty, Append(tty, Loc(2, 1))} /\ tty \in Seq(UsbPieces)
      BY <1>13 DEF UsbTypes, DeviceRecords
    <3> QED BY <3>1, UsbLocs
  <2>3. UNCHANGED <<plugged, opened, exclusive, devq, sending, wanted_loc, track, usbpc, rbuff, usbtries, urc, opof, utag, tagnbr, usbOps, downloads, shared>>
    BY <1>13 DEF DeviceRecords
  <2> QED BY <2>1, <2>2, <2>3 DEF UsbTypes
<1>14. CASE Unplug
  <2>1. \A S : <<>> \in Seq(S)
    OBVIOUS
  <2> QED BY <1>14, <2>1 DEF UsbTypes, Unplug
<1>15. CASE UNCHANGED usbVars
  BY <1>15 DEF UsbTypes, usbVars
<1> QED BY <1>1, <1>2, <1>3, <1>4, <1>5, <1>6, <1>7, <1>8, <1>9, <1>10, <1>11, <1>12, <1>13, <1>14, <1>15 DEF UsbNext

-----------------------------------------------------------------------------
(* Who has the port open, and what a thread has read.                      *)

\* An operation that fails gives the port back and has no result.
LEMMA UsbPlacesFail ==
    ASSUME UsbTypes, UsbPlaces, NEW t \in UsbThreads, FailUsb(t), plugged' = plugged,
           ~plugged => devq' = <<>> /\ sending' = <<>>
    PROVE  UsbPlaces'
<1>1. opened' = {u \in UsbThreads : usbpc'[u] \in AtPort}
  BY DEF UsbTypes, UsbPlaces, FailUsb, Closed, UsbGoto, AtPort
<1>2. ~plugged' => devq' = <<>> /\ sending' = <<>> /\ tty' = <<>>
  BY DEF FailUsb, Closed
<1>3. ASSUME NEW u \in UsbThreads
      PROVE  /\ usbpc'[u] # "idle" => urc'[u] = "none"
             /\ usbpc'[u] = "reply" => rbuff'[u] # <<>> /\ opof'[u] # "dlrec"
             /\ usbpc'[u] \in {"stop", "store"} => opof'[u] = "dlrec"
             /\ usbpc'[u] \in {"open", "setup", "write"} => rbuff'[u] = <<>>
             /\ urc'[u] = "ok" => rbuff'[u] # <<>> /\ (rbuff'[u][1].kind = "loc" \/ rbuff'[u][1].tag = utag'[u])
  <2>1. CASE u = t
    BY <2>1 DEF UsbTypes, FailUsb, UsbGoto
  <2>2. CASE u # t
    <3>1. usbpc'[u] = usbpc[u] /\ urc'[u] = urc[u] /\ rbuff'[u] = rbuff[u] /\ opof'[u] = opof[u] /\ utag'[u] = utag[u]
      BY <2>2 DEF UsbTypes, FailUsb, UsbGoto
    <3> QED BY <3>1 DEF UsbPlaces
  <2> QED BY <2>1, <2>2
<1> QED BY <1>1, <1>2, <1>3 DEF UsbPlaces

\* A step of thread t that leaves the other threads alone keeps the places, if t's own are kept.
LEMMA UsbPlacesOwn ==
    ASSUME UsbPlaces, NEW t \in UsbThreads,
           opened' = {u \in UsbThreads : usbpc'[u] \in AtPort},
           ~plugged' => devq' = <<>> /\ sending' = <<>> /\ tty' = <<>>,
           \A u \in UsbThreads \ {t} : /\ usbpc'[u] = usbpc[u] /\ urc'[u] = urc[u] /\ rbuff'[u] = rbuff[u]
                                       /\ opof'[u] = opof[u] /\ utag'[u] = utag[u],
           usbpc'[t] # "idle" => urc'[t] = "none",
           usbpc'[t] = "reply" => rbuff'[t] # <<>> /\ opof'[t] # "dlrec",
           usbpc'[t] \in {"stop", "store"} => opof'[t] = "dlrec",
           usbpc'[t] \in {"open", "setup", "write"} => rbuff'[t] = <<>>,
           urc'[t] = "ok" => rbuff'[t] # <<>> /\ (rbuff'[t][1].kind = "loc" \/ rbuff'[t][1].tag = utag'[t])
    PROVE  UsbPlaces'
<1>1. ASSUME NEW u \in UsbThreads
      PROVE  /\ usbpc'[u] # "idle" => urc'[u] = "none"
             /\ usbpc'[u] = "reply" => rbuff'[u] # <<>> /\ opof'[u] # "dlrec"
             /\ usbpc'[u] \in {"stop", "store"} => opof'[u] = "dlrec"
             /\ usbpc'[u] \in {"open", "setup", "write"} => rbuff'[u] = <<>>
             /\ urc'[u] = "ok" => rbuff'[u] # <<>> /\ (rbuff'[u][1].kind = "loc" \/ rbuff'[u][1].tag = utag'[u])
  <2>1. CASE u = t
    BY <2>1
  <2>2. CASE u # t
    BY <2>2 DEF UsbPlaces
  <2> QED BY <2>1, <2>2
<1> QED BY <1>1 DEF UsbPlaces

\* Every step keeps what the places say.
LEMMA UsbPlacesNext ==
    ASSUME UsbTypes, UsbPlaces, [UsbNext]_usbVars
    PROVE  UsbPlaces'
<1> USE DEF UsbThread, UsbDevice, UsbGoto
<1>0. opened = {u \in UsbThreads : usbpc[u] \in AtPort}
  BY DEF UsbPlaces
<1>1. ASSUME NEW t \in UsbThreads, NEW o \in {"cmd", "numrec"}, StartUsb(t, o) PROVE UsbPlaces'
  <2>1. /\ usbpc[t] = "idle" /\ usbpc' = [usbpc EXCEPT ![t] = IF plugged THEN "open" ELSE "idle"]
        /\ urc' = [urc EXCEPT ![t] = IF plugged THEN "none" ELSE "error"]
        /\ rbuff' = [rbuff EXCEPT ![t] = <<>>] /\ opof' = [opof EXCEPT ![t] = o]
        /\ utag' = [utag EXCEPT ![t] = tagnbr'] /\ opened' = opened
        /\ plugged' = plugged /\ devq' = devq /\ sending' = sending /\ tty' = tty
    BY <1>1 DEF StartUsb
  <2>2. opened' = {u \in UsbThreads : usbpc'[u] \in AtPort}
    BY <1>0, <2>1 DEF UsbTypes, AtPort
  <2>3. /\ usbpc'[t] # "idle" => urc'[t] = "none"
        /\ usbpc'[t] \in {"open", "idle"} /\ urc'[t] # "ok" /\ rbuff'[t] = <<>>
    BY <2>1 DEF UsbTypes
  <2>4. \A u \in UsbThreads \ {t} : /\ usbpc'[u] = usbpc[u] /\ urc'[u] = urc[u] /\ rbuff'[u] = rbuff[u]
                                    /\ opof'[u] = opof[u] /\ utag'[u] = utag[u]
    BY <2>1 DEF UsbTypes
  <2>5. ~plugged' => devq' = <<>> /\ sending' = <<>> /\ tty' = <<>>
    BY <2>1 DEF UsbPlaces
  <2> QED BY <2>2, <2>3, <2>4, <2>5, UsbPlacesOwn
<1>2. ASSUME NEW t \in UsbThreads, serial_open(t) PROVE UsbPlaces'
  <2>1. /\ usbpc[t] = "open" /\ rbuff' = rbuff /\ opof' = opof /\ utag' = utag
        /\ plugged' = plugged /\ devq' = devq /\ sending' = sending /\ tty' = tty
    BY <1>2 DEF serial_open
  <2>2. \/ usbpc' = [usbpc EXCEPT ![t] = "idle"] /\ urc' = [urc EXCEPT ![t] = "error"] /\ opened' = opened
        \/ usbpc' = [usbpc EXCEPT ![t] = "setup"] /\ urc' = urc /\ opened' = opened \cup {t}
    BY <1>2 DEF serial_open
  <2>3. opened' = {u \in UsbThreads : usbpc'[u] \in AtPort}
    BY <1>0, <2>1, <2>2 DEF UsbTypes, AtPort
  <2>4. /\ usbpc'[t] # "idle" => urc'[t] = "none"
        /\ usbpc'[t] \in {"setup", "idle"} /\ urc'[t] # "ok" /\ rbuff'[t] = <<>>
    BY <2>1, <2>2 DEF UsbTypes, UsbPlaces
  <2>5. \A u \in UsbThreads \ {t} : /\ usbpc'[u] = usbpc[u] /\ urc'[u] = urc[u] /\ rbuff'[u] = rbuff[u]
                                    /\ opof'[u] = opof[u] /\ utag'[u] = utag[u]
    BY <2>1, <2>2 DEF UsbTypes
  <2>6. ~plugged' => devq' = <<>> /\ sending' = <<>> /\ tty' = <<>>
    BY <2>1 DEF UsbPlaces
  <2> QED BY <2>3, <2>4, <2>5, <2>6, UsbPlacesOwn
<1>3. ASSUME NEW t \in UsbThreads, SetExclusive(t) PROVE UsbPlaces'
  <2>1. /\ usbpc[t] = "setup" /\ rbuff' = rbuff /\ opof' = opof /\ utag' = utag /\ urc' = urc /\ opened' = opened
        /\ plugged' = plugged /\ devq' = devq /\ sending' = sending /\ tty' = <<>>
        /\ usbpc' = [usbpc EXCEPT ![t] = "write"]
    BY <1>3 DEF SetExclusive
  <2>2. opened' = {u \in UsbThreads : usbpc'[u] \in AtPort}
    BY <1>0, <2>1 DEF UsbTypes, AtPort
  <2>3. usbpc'[t] = "write" /\ urc'[t] = "none" /\ rbuff'[t] = <<>>
    BY <2>1 DEF UsbTypes, UsbPlaces
  <2>4. \A u \in UsbThreads \ {t} : /\ usbpc'[u] = usbpc[u] /\ urc'[u] = urc[u] /\ rbuff'[u] = rbuff[u]
                                    /\ opof'[u] = opof[u] /\ utag'[u] = utag[u]
    BY <2>1 DEF UsbTypes
  <2>5. ~plugged' => devq' = <<>> /\ sending' = <<>> /\ tty' = <<>>
    BY <2>1 DEF UsbPlaces
  <2> QED BY <2>2, <2>3, <2>4, <2>5, UsbPlacesOwn
<1>4. ASSUME NEW t \in UsbThreads, serial_write(t) PROVE UsbPlaces'
  <2>1. CASE plugged
    <3>1. /\ usbpc[t] = "write" /\ rbuff' = rbuff /\ opof' = opof /\ utag' = utag /\ urc' = urc /\ opened' = opened
          /\ plugged' = plugged /\ usbpc' = [usbpc EXCEPT ![t] = "read"]
      BY <1>4, <2>1 DEF serial_write
    <3>2. opened' = {u \in UsbThreads : usbpc'[u] \in AtPort}
      BY <1>0, <3>1 DEF UsbTypes, AtPort
    <3>3. usbpc'[t] = "read" /\ urc'[t] = "none"
      BY <3>1 DEF UsbTypes, UsbPlaces
    <3>4. \A u \in UsbThreads \ {t} : /\ usbpc'[u] = usbpc[u] /\ urc'[u] = urc[u] /\ rbuff'[u] = rbuff[u]
                                      /\ opof'[u] = opof[u] /\ utag'[u] = utag[u]
      BY <3>1 DEF UsbTypes
    <3>5. plugged'
      BY <2>1, <3>1
    <3> QED BY <3>2, <3>3, <3>4, <3>5, UsbPlacesOwn
  <2>2. CASE ~plugged
    <3>1. FailUsb(t) /\ plugged' = plugged /\ devq' = <<>> /\ sending' = <<>>
      BY <1>4, <2>2 DEF serial_write, UsbPlaces
    <3> QED BY <3>1, UsbPlacesFail
  <2> QED BY <2>1, <2>2
<1>5. ASSUME NEW t \in UsbThreads, serial_read_line(t) \/ ReadDownload(t) PROVE UsbPlaces'
  <2>1. /\ rbuff' = [rbuff EXCEPT ![t] = rbuff[t] \o tty] /\ tty' = <<>> /\ tty # <<>> /\ usbpc[t] = "read"
        /\ opened' = opened /\ urc' = urc /\ opof' = opof /\ utag' = utag
        /\ plugged' = plugged /\ devq' = devq /\ sending' = sending
    BY <1>5 DEF serial_read_line, ReadDownload, serial_read_timeout, UsbTypes
  <2>2. \/ opof[t] # "dlrec" /\ \E x \in {"reply", "read"} : usbpc' = [usbpc EXCEPT ![t] = x]
        \/ opof[t] = "dlrec" /\ \E x \in {"stop", "read"} : usbpc' = [usbpc EXCEPT ![t] = x]
    BY <1>5 DEF serial_read_line, ReadDownload
  <2>3. /\ usbpc'[t] \in {"reply", "read", "stop"}
        /\ usbpc'[t] = "reply" => opof'[t] # "dlrec"
        /\ usbpc'[t] = "stop" => opof'[t] = "dlrec"
    BY <2>1, <2>2 DEF UsbTypes
  <2>4. rbuff'[t] # <<>>
    <3>1. tty \in Seq(UsbPieces) /\ rbuff[t] \in Seq(UsbPieces) /\ rbuff'[t] = rbuff[t] \o tty
      BY <2>1 DEF UsbTypes
    <3> QED BY <2>1, <3>1
  <2>5. urc'[t] = "none"
    BY <2>1 DEF UsbPlaces
  <2>6. opened' = {u \in UsbThreads : usbpc'[u] \in AtPort}
    BY <1>0, <2>1, <2>2 DEF UsbTypes, AtPort
  <2>7. \A u \in UsbThreads \ {t} : /\ usbpc'[u] = usbpc[u] /\ urc'[u] = urc[u] /\ rbuff'[u] = rbuff[u]
                                    /\ opof'[u] = opof[u] /\ utag'[u] = utag[u]
    BY <2>1, <2>2 DEF UsbTypes
  <2>8. ~plugged' => devq' = <<>> /\ sending' = <<>> /\ tty' = <<>>
    BY <2>1 DEF UsbPlaces
  <2> QED BY <2>3, <2>4, <2>5, <2>6, <2>7, <2>8, UsbPlacesOwn
<1>6. ASSUME NEW t \in UsbThreads, ReadNothing(t) PROVE UsbPlaces'
  BY <1>6 DEF UsbPlaces, ReadNothing
<1>7. ASSUME NEW t \in UsbThreads, UsbTimeout(t) PROVE UsbPlaces'
  <2>1. FailUsb(t) /\ plugged' = plugged /\ (~plugged => devq' = <<>> /\ sending' = <<>>)
    BY <1>7 DEF UsbTimeout, UsbPlaces
  <2> QED BY <2>1, UsbPlacesFail
<1>8. ASSUME NEW t \in UsbThreads, handle_usb_reply(t) PROVE UsbPlaces'
  <2>1. PICK n \in BOOLEAN : n = get_numrec(t)
    BY Zenon DEF get_numrec
  <2>2. PICK own \in BOOLEAN : own = OwnTag(t)
    BY Zenon DEF OwnTag
  <2>3. /\ tty' = <<>> /\ opened' = opened \ {t} /\ usbpc[t] = "reply"
        /\ usbpc' = [usbpc EXCEPT ![t] = IF n /\ plugged THEN "open" ELSE "idle"]
        /\ opof' = [opof EXCEPT ![t] = IF n THEN "dlrec" ELSE opof[t]]
        /\ utag' = [utag EXCEPT ![t] = IF n THEN tagnbr' ELSE utag[t]]
        /\ urc' = [urc EXCEPT ![t] = IF n /\ plugged THEN "none"
                                    ELSE IF opof[t] = "cmd" /\ own THEN "ok" ELSE "error"]
        /\ plugged' = plugged /\ devq' = devq /\ sending' = sending
    BY <1>8, <2>1, <2>2 DEF handle_usb_reply, Closed, UsbTypes
  <2>4. rbuff' = [rbuff EXCEPT ![t] = IF urc'[t] = "ok" THEN rbuff[t] ELSE <<>>]
    BY <1>8 DEF handle_usb_reply, UsbTypes
  <2>5. opened' = {u \in UsbThreads : usbpc'[u] \in AtPort}
    BY <1>0, <2>3 DEF UsbTypes, AtPort
  <2>6. /\ usbpc'[t] \in {"open", "idle"} /\ (usbpc'[t] # "idle" => urc'[t] = "none")
        /\ urc'[t] = IF n /\ plugged THEN "none" ELSE IF opof[t] = "cmd" /\ own THEN "ok" ELSE "error"
        /\ utag'[t] = IF n THEN tagnbr' ELSE utag[t]
        /\ rbuff'[t] = IF urc'[t] = "ok" THEN rbuff[t] ELSE <<>>
    BY <2>3, <2>4 DEF UsbTypes
  <2>7. urc'[t] = "ok" => rbuff'[t] # <<>> /\ (rbuff'[t][1].kind = "loc" \/ rbuff'[t][1].tag = utag'[t])
    <3> SUFFICES ASSUME urc'[t] = "ok" PROVE rbuff'[t] # <<>> /\ (rbuff'[t][1].kind = "loc" \/ rbuff'[t][1].tag = utag'[t])
      OBVIOUS
    <3>1. opof[t] = "cmd" /\ own
      BY <2>6
    <3>2. n = FALSE
      BY <2>1, <3>1 DEF get_numrec
    <3>3. rbuff'[t] = rbuff[t] /\ utag'[t] = utag[t]
      BY <2>6, <3>2
    <3>4. rbuff[t][1].kind = "loc" \/ rbuff[t][1].tag = utag[t]
      BY <2>2, <3>1 DEF OwnTag, extract_devcmd_reply
    <3> QED BY <2>3, <3>3, <3>4 DEF UsbPlaces
  <2>8. \A u \in UsbThreads \ {t} : /\ usbpc'[u] = usbpc[u] /\ urc'[u] = urc[u] /\ rbuff'[u] = rbuff[u]
                                    /\ opof'[u] = opof[u] /\ utag'[u] = utag[u]
    BY <2>3, <2>4 DEF UsbTypes
  <2>9. ~plugged' => devq' = <<>> /\ sending' = <<>> /\ tty' = <<>>
    BY <2>3 DEF UsbPlaces
  <2>10. usbpc'[t] = "open" => rbuff'[t] = <<>>
    BY <2>6
  <2> QED BY <2>5, <2>6, <2>7, <2>8, <2>9, <2>10, UsbPlacesOwn
<1>9. ASSUME NEW t \in UsbThreads, StopDownload(t) PROVE UsbPlaces'
  <2>1. plugged' = plugged /\ sending' = sending /\ (~plugged => devq' = devq) /\ usbpc[t] = "stop"
    BY <1>9 DEF StopDownload
  <2>2. CASE FailUsb(t)
    <3>1. ~plugged => devq' = <<>> /\ sending' = <<>>
      BY <2>1 DEF UsbPlaces
    <3> QED BY <2>1, <2>2, <3>1, UsbPlacesFail
  <2>3. CASE /\ Closed(t) /\ UsbGoto(t, "store")
             /\ UNCHANGED <<opof, utag, urc, rbuff, usbtries, shared, wanted_loc>>
    <3>1. opened' = {u \in UsbThreads : usbpc'[u] \in AtPort}
      BY <1>0, <2>3 DEF UsbTypes, AtPort, Closed
    <3>2. usbpc'[t] = "store" /\ urc'[t] = "none" /\ opof'[t] = "dlrec"
      BY <2>1, <2>3 DEF UsbTypes, UsbPlaces
    <3>3. \A u \in UsbThreads \ {t} : /\ usbpc'[u] = usbpc[u] /\ urc'[u] = urc[u] /\ rbuff'[u] = rbuff[u]
                                      /\ opof'[u] = opof[u] /\ utag'[u] = utag[u]
      BY <2>3 DEF UsbTypes
    <3>4. ~plugged' => devq' = <<>> /\ sending' = <<>> /\ tty' = <<>>
      BY <2>1, <2>3 DEF UsbPlaces, Closed
    <3> QED BY <3>1, <3>2, <3>3, <3>4, UsbPlacesOwn
  <2> QED BY <1>9, <2>2, <2>3 DEF StopDownload
<1>10. ASSUME NEW t \in UsbThreads, StoreDownload(t) PROVE UsbPlaces'
  <2>1. /\ usbpc[t] = "store" /\ usbpc' = [usbpc EXCEPT ![t] = "idle"] /\ rbuff' = [rbuff EXCEPT ![t] = <<>>]
        /\ plugged' = plugged /\ opened' = opened /\ tty' = tty /\ opof' = opof /\ utag' = utag
        /\ devq' = devq /\ sending' = sending
    BY <1>10 DEF StoreDownload
  <2>2. \E x \in {"imported", "error"} : urc' = [urc EXCEPT ![t] = x]
    BY <1>10 DEF StoreDownload
  <2>3. opened' = {u \in UsbThreads : usbpc'[u] \in AtPort}
    BY <1>0, <2>1 DEF UsbTypes, AtPort
  <2>4. usbpc'[t] = "idle" /\ urc'[t] # "ok"
    BY <2>1, <2>2 DEF UsbTypes
  <2>5. \A u \in UsbThreads \ {t} : /\ usbpc'[u] = usbpc[u] /\ urc'[u] = urc[u] /\ rbuff'[u] = rbuff[u]
                                    /\ opof'[u] = opof[u] /\ utag'[u] = utag[u]
    BY <2>1, <2>2 DEF UsbTypes
  <2>6. ~plugged' => devq' = <<>> /\ sending' = <<>> /\ tty' = <<>>
    BY <2>1 DEF UsbPlaces
  <2> QED BY <2>3, <2>4, <2>5, <2>6, UsbPlacesOwn
<1>11. CASE DeviceTakes \/ DeviceSendsPiece \/ DeviceRecords \/ Unplug
  <2>1. UNCHANGED <<opened, usbpc, rbuff, urc, opof, utag>>
    BY <1>11 DEF DeviceTakes, DeviceSendsPiece, DeviceRecords, Unplug
  <2>2. ~plugged' => devq' = <<>> /\ sending' = <<>> /\ tty' = <<>>
    BY <1>11 DEF DeviceTakes, DeviceSendsPiece, DeviceRecords, Unplug
  <2> QED BY <2>1, <2>2 DEF UsbPlaces
<1>12. CASE UNCHANGED usbVars
  BY <1>12 DEF UsbPlaces, usbVars
<1> QED BY <1>1, <1>2, <1>3, <1>4, <1>5, <1>6, <1>7, <1>8, <1>9, <1>10, <1>11, <1>12 DEF UsbNext

-----------------------------------------------------------------------------
(* Whose command a tag belongs to.                                         *)

\* A step of thread t, whose tag stays its own or is new.
LEMMA UsbTagsOwn ==
    ASSUME UsbTypes, UsbTypes', UsbTags, NEW t \in UsbThreads,
           tagnbr <= tagnbr', utag'[t] <= tagnbr', ToSet(sending') \subseteq ToSet(sending),
           \A u \in UsbThreads \ {t} : usbpc'[u] = usbpc[u] /\ utag'[u] = utag[u],
           \A c \in ToSet(devq') : c \in ToSet(devq) \/ (c.tag = utag[t] /\ usbpc[t] # "idle"),
           usbpc'[t] # "idle" => (usbpc[t] # "idle" /\ utag'[t] = utag[t]) \/ utag'[t] > tagnbr,
           usbpc'[t] \in {"open", "setup", "write"} => NoCommand(devq', utag'[t]) /\ NoHead(sending', utag'[t])
    PROVE  UsbTags'
<1>1. /\ tagnbr \in Nat /\ tagnbr' \in Nat
      /\ \A u \in UsbThreads : utag[u] \in Nat /\ utag'[u] \in Nat /\ utag[u] <= tagnbr
  BY DEF UsbTypes, UsbTags
<1>2. \A u \in UsbThreads : utag'[u] <= tagnbr'
  <2> SUFFICES ASSUME NEW u \in UsbThreads PROVE utag'[u] <= tagnbr'
    OBVIOUS
  <2>1. CASE u # t
    <3>1. utag'[u] = utag[u] /\ utag[u] <= tagnbr
      BY <1>1, <2>1
    <3> QED BY <1>1, <3>1
  <2> QED BY <2>1
<1>3. ASSUME NEW c \in ToSet(devq') PROVE c.tag <= tagnbr'
  <2>1. c.tag <= tagnbr /\ c.tag \in Nat
    <3>1. CASE c \in ToSet(devq)
      <4>1. c \in UsbCommands
        <5>1. devq \in Seq(UsbCommands)
          BY DEF UsbTypes
        <5> QED BY <3>1, <5>1 DEF ToSet
      <4> QED BY <3>1, <4>1 DEF UsbTags, UsbCommands
    <3>2. CASE c.tag = utag[t]
      BY <1>1, <3>2
    <3> QED BY <3>1, <3>2
  <2> QED BY <1>1, <2>1
<1>4. ASSUME NEW p \in ToSet(sending'), p.kind = "head" PROVE p.tag <= tagnbr'
  <2>1. p \in ToSet(sending) /\ p \in UsbPieces
    <3>1. sending \in Seq(UsbPieces) /\ p \in ToSet(sending)
      BY DEF UsbTypes
    <3> QED BY <3>1 DEF ToSet
  <2>2. p.tag <= tagnbr /\ p.tag \in Nat
    BY <1>4, <2>1 DEF UsbTags, UsbPieces
  <2> QED BY <1>1, <2>2
<1>5. ASSUME NEW u \in UsbThreads, NEW v \in UsbThreads, u # v, usbpc'[u] # "idle", usbpc'[v] # "idle"
      PROVE  utag'[u] # utag'[v]
  <2>1. ASSUME NEW w \in UsbThreads \ {t}, usbpc'[w] # "idle", usbpc'[t] # "idle" PROVE utag'[w] # utag'[t]
    <3>1. usbpc[w] # "idle" /\ utag'[w] = utag[w] /\ utag[w] <= tagnbr
      BY <1>1, <2>1
    <3>2. CASE usbpc[t] # "idle" /\ utag'[t] = utag[t]
      BY <3>1, <3>2 DEF UsbTags
    <3>3. CASE utag'[t] > tagnbr
      BY <1>1, <3>1, <3>3
    <3> QED BY <2>1, <3>2, <3>3
  <2>2. CASE u # t /\ v # t
    <3>1. usbpc[u] # "idle" /\ usbpc[v] # "idle" /\ utag'[u] = utag[u] /\ utag'[v] = utag[v]
      BY <1>5, <2>2
    <3> QED BY <1>5, <3>1 DEF UsbTags
  <2>3. CASE u = t
    <3>1. v \in UsbThreads \ {t}
      BY <1>5, <2>3
    <3> QED BY <1>5, <2>1, <2>3, <3>1
  <2>4. CASE v = t
    <3>1. u \in UsbThreads \ {t}
      BY <1>5, <2>4
    <3> QED BY <1>5, <2>1, <2>4, <3>1
  <2> QED BY <2>2, <2>3, <2>4
<1>6. ASSUME NEW u \in UsbThreads, usbpc'[u] \in {"open", "setup", "write"}
      PROVE  NoCommand(devq', utag'[u]) /\ NoHead(sending', utag'[u])
  <2>1. CASE u # t
    <3>1. usbpc[u] = usbpc'[u] /\ utag'[u] = utag[u]
      BY <2>1
    <3>2. NoCommand(devq, utag[u]) /\ NoHead(sending, utag[u])
      BY <1>6, <3>1 DEF UsbTags
    <3>3. usbpc[t] # "idle" => utag[t] # utag[u]
      BY <1>6, <2>1, <3>1 DEF UsbTags
    <3> QED BY <3>1, <3>2, <3>3 DEF NoCommand, NoHead
  <2> QED BY <1>6, <2>1
<1>7. /\ \A c \in ToSet(devq') : c.tag <= tagnbr'
      /\ \A p \in ToSet(sending') : p.kind = "head" => p.tag <= tagnbr'
  BY <1>3, <1>4
<1>8. \A u, v \in UsbThreads : u # v /\ usbpc'[u] # "idle" /\ usbpc'[v] # "idle" => utag'[u] # utag'[v]
  BY <1>5
<1>9. \A u \in UsbThreads :
          usbpc'[u] \in {"open", "setup", "write"} => NoCommand(devq', utag'[u]) /\ NoHead(sending', utag'[u])
  BY <1>6
<1> QED BY <1>2, <1>7, <1>8, <1>9 DEF UsbTags, NoCommand, NoHead

\* No command and no piece has a tag that is not given yet.
LEMMA UsbFresh ==
    ASSUME UsbTypes, UsbTags
    PROVE  NoCommand(devq, tagnbr + 1) /\ NoHead(sending, tagnbr + 1)
<1>1. tagnbr \in Nat /\ ~(tagnbr + 1 <= tagnbr)
  BY DEF UsbTypes
<1> QED BY <1>1 DEF UsbTags, NoCommand, NoHead

\* A thread that fails, or that is at the end of its download.
LEMMA UsbTagsFail ==
    ASSUME UsbTypes, UsbTypes', UsbTags, NEW t \in UsbThreads, FailUsb(t), usbpc[t] # "idle",
           tagnbr' = tagnbr /\ sending' = sending,
           \A c \in ToSet(devq') : c \in ToSet(devq) \/ c.tag = utag[t]
    PROVE  UsbTags'
<1>1. usbpc'[t] = "idle" /\ utag'[t] = 0 /\ tagnbr \in Nat
  BY DEF UsbTypes, FailUsb, UsbGoto
<1>2. \A u \in UsbThreads \ {t} : usbpc'[u] = usbpc[u] /\ utag'[u] = utag[u]
  BY DEF UsbTypes, FailUsb, UsbGoto
<1>3. tagnbr <= tagnbr' /\ utag'[t] <= tagnbr'
  BY <1>1
<1> QED BY <1>1, <1>2, <1>3, UsbTagsOwn

\* Every step keeps the tags apart.
LEMMA UsbTagsNext ==
    ASSUME UsbTypes, UsbTypes', UsbTags, [UsbNext]_usbVars
    PROVE  UsbTags'
<1> USE DEF UsbThread, UsbDevice, UsbGoto
<1>0. tagnbr \in Nat /\ utag \in [UsbThreads -> Nat] /\ \A u \in UsbThreads : utag[u] <= tagnbr
  BY DEF UsbTypes, UsbTags
<1>1. ASSUME NEW t \in UsbThreads, NEW o \in {"cmd", "numrec"}, StartUsb(t, o) PROVE UsbTags'
  <2>1. /\ usbpc[t] = "idle" /\ usbpc' = [usbpc EXCEPT ![t] = IF plugged THEN "open" ELSE "idle"]
        /\ tagnbr' = tagnbr + 1 /\ utag' = [utag EXCEPT ![t] = tagnbr'] /\ devq' = devq /\ sending' = sending
    BY <1>1 DEF StartUsb
  <2>2. utag'[t] = tagnbr + 1 /\ \A u \in UsbThreads \ {t} : usbpc'[u] = usbpc[u] /\ utag'[u] = utag[u]
    BY <1>0, <2>1 DEF UsbTypes
  <2>3. tagnbr <= tagnbr' /\ utag'[t] <= tagnbr' /\ utag'[t] > tagnbr
    BY <1>0, <2>1, <2>2
  <2>4. NoCommand(devq', utag'[t]) /\ NoHead(sending', utag'[t])
    BY <2>1, <2>2, UsbFresh
  <2> QED BY <2>1, <2>2, <2>3, <2>4, UsbTagsOwn
<1>2. ASSUME NEW t \in UsbThreads,
             serial_open(t) \/ SetExclusive(t) \/ serial_read_line(t) \/ ReadDownload(t) \/ ReadNothing(t) \/ StoreDownload(t)
      PROVE  UsbTags'
  <2>1. utag' = utag /\ tagnbr' = tagnbr /\ devq' = devq /\ sending' = sending
    BY <1>2 DEF serial_open, SetExclusive, serial_read_line, ReadDownload, ReadNothing, StoreDownload
  <2>2. /\ \A u \in UsbThreads \ {t} : usbpc'[u] = usbpc[u]
        /\ usbpc[t] # "idle"
        /\ usbpc'[t] \in {"open", "setup", "write"} => usbpc[t] \in {"open", "setup", "write"}
    <3>1. \/ usbpc[t] = "open" /\ \E x \in {"idle", "setup"} : usbpc' = [usbpc EXCEPT ![t] = x]
          \/ usbpc[t] = "setup" /\ usbpc' = [usbpc EXCEPT ![t] = "write"]
          \/ usbpc[t] = "read" /\ \E x \in {"read", "reply", "stop"} : usbpc' = [usbpc EXCEPT ![t] = x]
          \/ usbpc[t] = "read" /\ usbpc' = usbpc
          \/ usbpc[t] = "store" /\ usbpc' = [usbpc EXCEPT ![t] = "idle"]
      <4>1. CASE serial_open(t)
        BY <4>1 DEF serial_open
      <4>2. CASE SetExclusive(t)
        BY <4>2 DEF SetExclusive
      <4>3. CASE serial_read_line(t)
        BY <4>3 DEF serial_read_line, serial_read_timeout
      <4>4. CASE ReadDownload(t)
        BY <4>4 DEF ReadDownload, serial_read_timeout
      <4>5. CASE ReadNothing(t)
        BY <4>5 DEF ReadNothing
      <4>6. CASE StoreDownload(t)
        BY <4>6 DEF StoreDownload
      <4> QED BY <1>2, <4>1, <4>2, <4>3, <4>4, <4>5, <4>6
    <3>2. usbpc \in [UsbThreads -> {"idle", "open", "setup", "write", "read", "reply", "stop", "store"}]
      BY DEF UsbTypes
    <3> QED BY <3>1, <3>2
  <2>3. usbpc'[t] \in {"open", "setup", "write"} => NoCommand(devq', utag'[t]) /\ NoHead(sending', utag'[t])
    BY <2>1, <2>2 DEF UsbTags
  <2>4. tagnbr <= tagnbr' /\ utag'[t] <= tagnbr'
    BY <1>0, <2>1
  <2> QED BY <2>1, <2>2, <2>3, <2>4, UsbTagsOwn
<1>3. ASSUME NEW t \in UsbThreads, serial_write(t) PROVE UsbTags'
  <2>1. CASE plugged
    <3>1. /\ usbpc[t] = "write" /\ usbpc' = [usbpc EXCEPT ![t] = "read"]
          /\ utag' = utag /\ tagnbr' = tagnbr /\ sending' = sending
          /\ devq' = Append(devq, [op |-> opof[t], tag |-> utag[t]])
      BY <1>3, <2>1 DEF serial_write
    <3>2. \A c \in ToSet(devq') : c \in ToSet(devq) \/ c.tag = utag[t]
      <4>1. [op |-> opof[t], tag |-> utag[t]] \in UsbCommands /\ devq \in Seq(UsbCommands)
        BY DEF UsbTypes, UsbCommands
      <4>2. ToSet(devq') = ToSet(devq) \cup {[op |-> opof[t], tag |-> utag[t]]}
        BY <3>1, <4>1, UsbAppend
      <4> QED BY <4>2
    <3>3. usbpc'[t] = "read" /\ \A u \in UsbThreads \ {t} : usbpc'[u] = usbpc[u]
      BY <3>1 DEF UsbTypes
    <3>4. tagnbr <= tagnbr' /\ utag'[t] <= tagnbr'
      BY <1>0, <3>1
    <3> QED BY <3>1, <3>2, <3>3, <3>4, UsbTagsOwn
  <2>2. CASE ~plugged
    <3>1. FailUsb(t) /\ usbpc[t] # "idle" /\ devq' = devq /\ sending' = sending /\ tagnbr' = tagnbr
      BY <1>3, <2>2 DEF serial_write
    <3> QED BY <3>1, UsbTagsFail
  <2> QED BY <2>1, <2>2
<1>4. ASSUME NEW t \in UsbThreads, UsbTimeout(t) PROVE UsbTags'
  <2>1. FailUsb(t) /\ usbpc[t] # "idle" /\ devq' = devq /\ sending' = sending /\ tagnbr' = tagnbr
    BY <1>4 DEF UsbTimeout
  <2> QED BY <2>1, UsbTagsFail
<1>5. ASSUME NEW t \in UsbThreads, handle_usb_reply(t) PROVE UsbTags'
  <2>1. PICK n \in BOOLEAN : n = get_numrec(t)
    BY Zenon DEF get_numrec
  <2>2. /\ usbpc[t] = "reply" /\ usbpc' = [usbpc EXCEPT ![t] = IF n /\ plugged THEN "open" ELSE "idle"]
        /\ tagnbr' = IF n THEN tagnbr + 1 ELSE tagnbr
        /\ utag' = [utag EXCEPT ![t] = IF n THEN tagnbr' ELSE utag[t]]
        /\ devq' = devq /\ sending' = sending
    BY <1>5, <2>1 DEF handle_usb_reply, UsbTypes
  <2>3. /\ \A u \in UsbThreads \ {t} : usbpc'[u] = usbpc[u] /\ utag'[u] = utag[u]
        /\ usbpc'[t] # "idle" => n = TRUE /\ usbpc'[t] = "open"
        /\ utag'[t] = IF n THEN tagnbr' ELSE utag[t]
    BY <1>0, <2>2 DEF UsbTypes
  <2>4. tagnbr <= tagnbr' /\ utag'[t] <= tagnbr' /\ (n = TRUE => utag'[t] = tagnbr + 1 /\ utag'[t] > tagnbr)
    BY <1>0, <2>2, <2>3
  <2>5. usbpc'[t] \in {"open", "setup", "write"} => NoCommand(devq', utag'[t]) /\ NoHead(sending', utag'[t])
    BY <2>2, <2>3, <2>4, UsbFresh
  <2> QED BY <2>2, <2>3, <2>4, <2>5, UsbTagsOwn
<1>6. ASSUME NEW t \in UsbThreads, StopDownload(t) PROVE UsbTags'
  <2>1. /\ usbpc[t] # "idle" /\ sending' = sending /\ tagnbr' = tagnbr
        /\ devq' = IF plugged THEN Append(devq, [op |-> "spdlrec", tag |-> utag[t]]) ELSE devq
    BY <1>6 DEF StopDownload
  <2>2. \A c \in ToSet(devq') : c \in ToSet(devq) \/ c.tag = utag[t]
    <3>1. [op |-> "spdlrec", tag |-> utag[t]] \in UsbCommands /\ devq \in Seq(UsbCommands)
      BY DEF UsbTypes, UsbCommands
    <3>2. ToSet(Append(devq, [op |-> "spdlrec", tag |-> utag[t]])) = ToSet(devq) \cup {[op |-> "spdlrec", tag |-> utag[t]]}
      BY <3>1, UsbAppend
    <3> QED BY <2>1, <3>2
  <2>3. CASE FailUsb(t)
    BY <2>1, <2>2, <2>3, UsbTagsFail
  <2>4. CASE Closed(t) /\ usbpc' = [usbpc EXCEPT ![t] = "store"] /\ utag' = utag
    <3>1. usbpc'[t] = "store" /\ \A u \in UsbThreads \ {t} : usbpc'[u] = usbpc[u]
      BY <2>4 DEF UsbTypes
    <3>2. tagnbr <= tagnbr' /\ utag'[t] <= tagnbr'
      BY <1>0, <2>1, <2>4
    <3> QED BY <2>1, <2>2, <2>4, <3>1, <3>2, UsbTagsOwn
  <2> QED BY <1>6, <2>3, <2>4 DEF StopDownload
<1>7. CASE DeviceTakes \/ DeviceSendsPiece \/ DeviceRecords \/ Unplug
  <2>1. UNCHANGED <<usbpc, utag, tagnbr>>
    BY <1>7 DEF DeviceTakes, DeviceSendsPiece, DeviceRecords, Unplug
  <2>2. /\ ToSet(devq') \subseteq ToSet(devq)
        /\ \A p \in ToSet(sending') : p \in ToSet(sending) \/ (p.kind = "head" => \E c \in ToSet(devq) : c.tag = p.tag)
    <3>1. CASE DeviceTakes
      <4>1. /\ devq \in Seq(UsbCommands) /\ devq # <<>>
            /\ sending' = AnswerTo(Head(devq)) /\ devq' = Tail(devq)
        BY <3>1 DEF UsbTypes, DeviceTakes
      <4>2. Head(devq) \in UsbCommands /\ ToSet(devq) = {Head(devq)} \cup ToSet(Tail(devq))
        BY <4>1, UsbTail
      <4>3. \A p \in ToSet(AnswerTo(Head(devq))) : p.kind = "head" => p.tag = Head(devq).tag
        BY <4>2, UsbAnswer DEF UsbTypes
      <4> QED BY <4>1, <4>2, <4>3
    <3>2. CASE DeviceSendsPiece
      <4>1. sending \in Seq(UsbPieces) /\ sending # <<>> /\ sending' = Tail(sending) /\ devq' = devq
        BY <3>2 DEF UsbTypes, DeviceSendsPiece
      <4>2. ToSet(sending) = {Head(sending)} \cup ToSet(Tail(sending))
        BY <4>1, UsbTail
      <4> QED BY <4>1, <4>2
    <3>3. CASE DeviceRecords
      BY <3>3 DEF DeviceRecords
    <3>4. CASE Unplug
      BY <3>4, UsbEmpty DEF Unplug
    <3> QED BY <1>7, <3>1, <3>2, <3>3, <3>4
  <2>3. \A g : NoCommand(devq, g) /\ NoHead(sending, g) => NoCommand(devq', g) /\ NoHead(sending', g)
    BY <2>2 DEF NoCommand, NoHead
  <2>4. /\ \A c \in ToSet(devq') : c.tag <= tagnbr
        /\ \A p \in ToSet(sending') : p.kind = "head" => p.tag <= tagnbr
    BY <2>2 DEF UsbTags
  <2>5. \A t \in UsbThreads :
          usbpc[t] \in {"open", "setup", "write"} => NoCommand(devq', utag[t]) /\ NoHead(sending', utag[t])
    BY <2>3 DEF UsbTags
  <2> QED BY <2>1, <2>4, <2>5 DEF UsbTags, NoCommand, NoHead
<1>8. CASE UNCHANGED usbVars
  BY <1>8 DEF UsbTags, usbVars, NoCommand, NoHead
<1> QED BY <1>1, <1>2, <1>3, <1>4, <1>5, <1>6, <1>7, <1>8 DEF UsbNext

-----------------------------------------------------------------------------
(* A thread that no other met.                                             *)

\* Every step that opens the port to a second thread marks both as sharing it.
LEMMA UsbAloneNext ==
    ASSUME UsbTypes, UsbPlaces, UsbAlone, [UsbNext]_usbVars
    PROVE  UsbAlone'
<1> USE DEF UsbThread, UsbDevice, UsbGoto
<1>0. opened = {u \in UsbThreads : usbpc[u] \in AtPort}
  BY DEF UsbPlaces
<1>1. ASSUME NEW t \in UsbThreads,
             \A u \in UsbThreads \ {t} : usbpc'[u] = usbpc[u] /\ shared'[u] = shared[u] /\ opof'[u] = opof[u],
             \/ opened' = opened
             \/ opened' = opened \ {t} /\ usbpc[t] \in AtPort,
             usbpc'[t] \in AtPort => usbpc[t] \in AtPort /\ opened' = opened /\ (shared'[t] = shared[t]),
             usbpc'[t] = "open" /\ opof'[t] = "dlrec" => usbpc[t] \in AtPort /\ shared'[t] = shared[t] /\ opened' = opened \ {t}
      PROVE  UsbAlone'
  <2>1. ASSUME NEW u \in UsbThreads, ~shared'[u], usbpc'[u] \in AtPort PROVE opened' = {u}
    <3>1. CASE u = t
      BY <1>1, <2>1, <3>1 DEF UsbAlone
    <3>2. CASE u # t
      <4>1. ~shared[u] /\ usbpc[u] \in AtPort
        BY <1>1, <2>1, <3>2
      <4>2. opened = {u}
        BY <4>1 DEF UsbAlone
      <4>3. t \notin opened
        BY <3>2, <4>2
      <4> QED BY <1>0, <1>1, <4>2, <4>3
    <3> QED BY <3>1, <3>2
  <2>2. ASSUME NEW u \in UsbThreads, ~shared'[u], usbpc'[u] = "open", opof'[u] = "dlrec" PROVE opened' = {}
    <3>1. CASE u = t
      <4>1. opened = {t}
        BY <1>1, <2>2, <3>1 DEF UsbAlone
      <4> QED BY <1>1, <2>2, <3>1, <4>1
    <3>2. CASE u # t
      <4>1. opened = {}
        BY <1>1, <2>2, <3>2 DEF UsbAlone
      <4> QED BY <1>1, <4>1
    <3> QED BY <3>1, <3>2
  <2> QED BY <2>1, <2>2 DEF UsbAlone, AtPort
<1>2. ASSUME NEW t \in UsbThreads, NEW o \in {"cmd", "numrec"}, StartUsb(t, o) PROVE UsbAlone'
  <2>1. /\ usbpc'[t] \in {"open", "idle"} /\ opof'[t] = o /\ opened' = opened
        /\ \A u \in UsbThreads \ {t} : usbpc'[u] = usbpc[u] /\ shared'[u] = shared[u] /\ opof'[u] = opof[u]
    BY <1>2 DEF StartUsb, UsbTypes
  <2> QED BY <1>1, <2>1 DEF AtPort
<1>3. ASSUME NEW t \in UsbThreads, serial_open(t) PROVE UsbAlone'
  <2>1. CASE usbpc' = [usbpc EXCEPT ![t] = "idle"] /\ opened' = opened /\ shared' = shared
    <3>1. /\ usbpc'[t] = "idle" /\ opof' = opof
          /\ \A u \in UsbThreads \ {t} : usbpc'[u] = usbpc[u] /\ shared'[u] = shared[u] /\ opof'[u] = opof[u]
      BY <1>3, <2>1 DEF serial_open, UsbTypes
    <3> QED BY <1>1, <2>1, <3>1 DEF AtPort
  <2>2. CASE /\ usbpc' = [usbpc EXCEPT ![t] = "setup"] /\ opened' = opened \cup {t}
             /\ shared' = [s \in UsbThreads |-> shared[s] \/ (IF s = t THEN opened # {} ELSE usbpc[s] # "idle")]
    <3>1. ASSUME NEW u \in UsbThreads, ~shared'[u]
          PROVE  IF u = t THEN opened = {} ELSE usbpc[u] = "idle" /\ usbpc'[u] = "idle"
      <4>1. ~(shared[u] \/ (IF u = t THEN opened # {} ELSE usbpc[u] # "idle"))
        BY <2>2, <3>1, Zenon
      <4> QED BY <2>2, <4>1 DEF UsbTypes
    <3>2. usbpc'[t] = "setup"
      BY <2>2 DEF UsbTypes
    <3> QED BY <2>2, <3>1, <3>2 DEF UsbAlone, AtPort
  <2> QED BY <1>3, <2>1, <2>2 DEF serial_open
<1>4. ASSUME NEW t \in UsbThreads, SetExclusive(t) \/ serial_read_line(t) \/ ReadDownload(t) \/ ReadNothing(t) PROVE UsbAlone'
  <2>1. opof' = opof /\ shared' = shared /\ opened' = opened
    BY <1>4 DEF SetExclusive, serial_read_line, ReadDownload, ReadNothing
  <2>2. /\ usbpc[t] \in AtPort /\ usbpc'[t] \in AtPort
        /\ \A u \in UsbThreads \ {t} : usbpc'[u] = usbpc[u]
    BY <1>4 DEF SetExclusive, serial_read_line, ReadDownload, ReadNothing, serial_read_timeout, AtPort, UsbTypes
  <2> QED BY <1>1, <2>1, <2>2 DEF AtPort
<1>5. ASSUME NEW t \in UsbThreads, FailUsb(t), usbpc[t] \in AtPort PROVE UsbAlone'
  <2>1. /\ usbpc'[t] = "idle" /\ opened' = opened \ {t}
        /\ \A u \in UsbThreads \ {t} : usbpc'[u] = usbpc[u] /\ shared'[u] = shared[u] /\ opof'[u] = opof[u]
    BY <1>5 DEF FailUsb, Closed, UsbTypes
  <2> QED BY <1>1, <1>5, <2>1 DEF AtPort
<1>6. ASSUME NEW t \in UsbThreads, serial_write(t) PROVE UsbAlone'
  <2>1. CASE plugged
    <3>1. /\ usbpc[t] = "write" /\ usbpc'[t] = "read" /\ opof' = opof /\ shared' = shared /\ opened' = opened
          /\ \A u \in UsbThreads \ {t} : usbpc'[u] = usbpc[u]
      BY <1>6, <2>1 DEF serial_write, UsbTypes
    <3> QED BY <1>1, <3>1 DEF AtPort
  <2>2. CASE ~plugged
    <3>1. FailUsb(t) /\ usbpc[t] = "write"
      BY <1>6, <2>2 DEF serial_write
    <3> QED BY <1>5, <3>1 DEF AtPort
  <2> QED BY <2>1, <2>2
<1>7. ASSUME NEW t \in UsbThreads, UsbTimeout(t) PROVE UsbAlone'
  <2>1. FailUsb(t) /\ usbpc[t] = "read"
    BY <1>7 DEF UsbTimeout
  <2> QED BY <1>5, <2>1 DEF AtPort
<1>8. ASSUME NEW t \in UsbThreads, handle_usb_reply(t) PROVE UsbAlone'
  <2>1. PICK n \in BOOLEAN : n = get_numrec(t)
    BY Zenon DEF get_numrec
  <2>2. /\ usbpc[t] = "reply" /\ usbpc'[t] \in {"open", "idle"} /\ shared' = shared /\ opened' = opened \ {t}
        /\ \A u \in UsbThreads \ {t} : usbpc'[u] = usbpc[u] /\ opof'[u] = opof[u]
    BY <1>8, <2>1 DEF handle_usb_reply, Closed, UsbTypes
  <2> QED BY <1>1, <2>2 DEF AtPort
<1>9. ASSUME NEW t \in UsbThreads, StopDownload(t) PROVE UsbAlone'
  <2>1. CASE FailUsb(t)
    BY <1>5, <1>9, <2>1 DEF StopDownload, AtPort
  <2>2. CASE Closed(t) /\ usbpc' = [usbpc EXCEPT ![t] = "store"] /\ opof' = opof /\ shared' = shared
    <3>1. /\ usbpc[t] = "stop" /\ usbpc'[t] = "store" /\ opened' = opened \ {t}
          /\ \A u \in UsbThreads \ {t} : usbpc'[u] = usbpc[u]
      BY <1>9, <2>2 DEF StopDownload, Closed, UsbTypes
    <3> QED BY <1>1, <2>2, <3>1 DEF AtPort
  <2> QED BY <1>9, <2>1, <2>2 DEF StopDownload
<1>10. ASSUME NEW t \in UsbThreads, StoreDownload(t) PROVE UsbAlone'
  <2>1. /\ usbpc'[t] = "idle" /\ opof' = opof /\ shared' = shared /\ opened' = opened
        /\ \A u \in UsbThreads \ {t} : usbpc'[u] = usbpc[u]
    BY <1>10 DEF StoreDownload, UsbTypes
  <2> QED BY <1>1, <2>1 DEF AtPort
<1>11. CASE DeviceTakes \/ DeviceSendsPiece \/ DeviceRecords \/ Unplug \/ UNCHANGED usbVars
  <2>1. UNCHANGED <<usbpc, opof, opened, shared>>
    BY <1>11 DEF DeviceTakes, DeviceSendsPiece, DeviceRecords, Unplug, usbVars
  <2> QED BY <2>1 DEF UsbAlone
<1> QED BY <1>2, <1>3, <1>4, <1>6, <1>7, <1>8, <1>9, <1>10, <1>11 DEF UsbNext

-----------------------------------------------------------------------------
(* Where the answers are.                                                  *)

\* Beside a thread that has the port open and met no other, the others are not at the port.
LEMMA UsbBeside ==
    ASSUME UsbPlaces, UsbAlone, NEW t \in UsbThreads, usbpc[t] \in AtPort, NEW u \in UsbThreads, u # t, ~shared[u]
    PROVE  usbpc[u] \notin AtPort /\ ~(usbpc[u] = "open" /\ opof[u] = "dlrec")
<1>1. t \in opened
  BY DEF UsbPlaces
<1> QED BY <1>1 DEF UsbAlone

\* What a step of another thread at the port leaves to thread u.
LEMMA UsbOther ==
    ASSUME UsbTypes, UsbPlaces, UsbAlone, UsbAnswers,
           NEW t \in UsbThreads, usbpc[t] \in AtPort, NEW u \in UsbThreads, u # t,
           usbpc'[u] = usbpc[u] /\ opof'[u] = opof[u] /\ rbuff'[u] = rbuff[u] /\ wanted_loc'[u] = wanted_loc[u]
              /\ urc'[u] = urc[u] /\ shared'[u] = shared[u] /\ track' = track
    PROVE  UsbAnswersOf(u)'
<1> SUFFICES ASSUME ~shared'[u] PROVE UsbAnswersOf(u)'
  BY DEF UsbAnswersOf
<1>1. ~shared[u]
  OBVIOUS
<1>2. usbpc[u] \notin AtPort /\ ~(usbpc[u] = "open" /\ opof[u] = "dlrec")
  BY <1>1, UsbBeside
<1>3. /\ usbpc[u] \in {"stop", "store"} => wanted_loc[u] \subseteq ToSet(rbuff[u])
      /\ urc[u] = "imported" => \A l \in wanted_loc[u] : HasTime(track, l)
  BY <1>1 DEF UsbAnswers, UsbAnswersOf
<1> QED BY <1>2, <1>3 DEF UsbAnswersOf, AtPort, HasTime

\* What a step that does not touch the port leaves to thread u.
LEMMA UsbSame ==
    ASSUME UsbAnswers, NEW u \in UsbThreads,
           usbpc'[u] = usbpc[u] /\ opof'[u] = opof[u] /\ rbuff'[u] = rbuff[u] /\ wanted_loc'[u] = wanted_loc[u]
              /\ urc'[u] = urc[u] /\ utag'[u] = utag[u] /\ (shared[u] => shared'[u]),
           devq' = devq /\ sending' = sending /\ tty' = tty /\ plugged' = plugged /\ memory' = memory,
           \A l : HasTime(track, l) => HasTime(track', l)
    PROVE  UsbAnswersOf(u)'
<1> SUFFICES ASSUME ~shared'[u] PROVE UsbAnswersOf(u)'
  BY DEF UsbAnswersOf
<1>1. ~shared[u] /\ UsbAnswersOf(u)
  BY DEF UsbAnswers
<1>2. Asked(u)' <=> Asked(u)
  BY DEF Asked, NoHead
<1>3. Sent(u)' <=> Sent(u)
  BY DEF Sent, NoEndLine
<1>4. urc'[u] = "imported" => \A l \in wanted_loc'[u] : HasTime(track', l)
  BY <1>1 DEF UsbAnswersOf
<1>5. NoHead(rbuff[u], utag[u]) <=> NoHead(rbuff'[u], utag'[u])
  OBVIOUS
<1> QED BY <1>1, <1>2, <1>3, <1>4, <1>5 DEF UsbAnswersOf, NoHead, HasTime

\* A thread that fails wants nothing any more.
LEMMA UsbFailAnswers ==
    ASSUME UsbTypes, UsbPlaces, UsbAlone, UsbAnswers,
           NEW t \in UsbThreads, usbpc[t] \in AtPort, FailUsb(t), track' = track
    PROVE  UsbAnswers'
<1> SUFFICES ASSUME NEW u \in UsbThreads PROVE UsbAnswersOf(u)'
  BY DEF UsbAnswers
<1>1. CASE u = t
  <2>1. usbpc'[t] = "idle" /\ urc'[t] = "error"
    BY DEF FailUsb, UsbGoto, UsbTypes
  <2> QED BY <1>1, <2>1 DEF UsbAnswersOf
<1>2. CASE u # t
  <2>1. /\ usbpc'[u] = usbpc[u] /\ opof'[u] = opof[u] /\ rbuff'[u] = rbuff[u] /\ wanted_loc'[u] = wanted_loc[u]
        /\ urc'[u] = urc[u] /\ shared'[u] = shared[u]
    BY <1>2 DEF FailUsb, UsbGoto, UsbTypes
  <2> QED BY <1>2, <2>1, UsbOther
<1> QED BY <1>1, <1>2

\* A thread that begins has asked for nothing yet.
LEMMA UsbStartAnswers ==
    ASSUME UsbTypes, UsbAnswers, NEW t \in UsbThreads, NEW o \in {"cmd", "numrec"}, StartUsb(t, o)
    PROVE  UsbAnswers'
<1> SUFFICES ASSUME NEW u \in UsbThreads PROVE UsbAnswersOf(u)'
  BY DEF UsbAnswers
<1>1. CASE u = t
  <2>1. usbpc'[t] \in {"open", "idle"} /\ opof'[t] # "dlrec" /\ urc'[t] # "imported"
    BY DEF StartUsb, UsbGoto, UsbTypes
  <2> QED BY <1>1, <2>1 DEF UsbAnswersOf
<1>2. CASE u # t
  <2>1. /\ usbpc'[u] = usbpc[u] /\ opof'[u] = opof[u] /\ rbuff'[u] = rbuff[u] /\ wanted_loc'[u] = wanted_loc[u]
        /\ urc'[u] = urc[u] /\ utag'[u] = utag[u] /\ shared'[u] = shared[u]
    BY <1>2 DEF StartUsb, UsbGoto, UsbTypes, UsbDevice
  <2>2. devq' = devq /\ sending' = sending /\ tty' = tty /\ plugged' = plugged /\ memory' = memory /\ track' = track
    BY DEF StartUsb, UsbDevice
  <2> QED BY <2>1, <2>2, UsbSame
<1> QED BY <1>1, <1>2

\* serial_open: the port may be shared from now on.
LEMMA UsbOpenAnswers ==
    ASSUME UsbTypes, UsbPlaces, UsbAnswers, NEW t \in UsbThreads, serial_open(t)
    PROVE  UsbAnswers'
<1> SUFFICES ASSUME NEW u \in UsbThreads PROVE UsbAnswersOf(u)'
  BY DEF UsbAnswers
<1>0. /\ usbpc[t] = "open" /\ opof' = opof /\ rbuff' = rbuff /\ wanted_loc' = wanted_loc /\ utag' = utag
      /\ devq' = devq /\ sending' = sending /\ tty' = tty /\ plugged' = plugged /\ memory' = memory /\ track' = track
  BY DEF serial_open, UsbDevice
<1>1. CASE usbpc' = [usbpc EXCEPT ![t] = "idle"] /\ urc' = [urc EXCEPT ![t] = "error"] /\ shared' = shared
  <2>1. CASE u = t
    <3>1. usbpc'[t] = "idle" /\ urc'[t] = "error"
      BY <1>1 DEF UsbTypes
    <3> QED BY <2>1, <3>1 DEF UsbAnswersOf
  <2>2. CASE u # t
    <3>1. usbpc'[u] = usbpc[u] /\ urc'[u] = urc[u] /\ shared'[u] = shared[u]
      BY <1>1, <2>2 DEF UsbTypes
    <3> QED BY <1>0, <3>1, UsbSame
  <2> QED BY <2>1, <2>2
<1>2. CASE /\ usbpc' = [usbpc EXCEPT ![t] = "setup"] /\ urc' = urc
           /\ shared' = [s \in UsbThreads |-> shared[s] \/ (IF s = t THEN opened # {} ELSE usbpc[s] # "idle")]
  <2>0. shared'[u] <=> shared[u] \/ (IF u = t THEN opened # {} ELSE usbpc[u] # "idle")
    BY <1>2, Zenon
  <2>1. CASE u = t
    <3>1. usbpc'[t] = "setup" /\ urc'[t] = "none"
      BY <1>0, <1>2 DEF UsbTypes, UsbPlaces
    <3>2. ~shared[t] /\ opof[t] = "dlrec" => devq = <<>> /\ sending = <<>>
      BY <1>0 DEF UsbAnswers, UsbAnswersOf
    <3> QED BY <1>0, <2>0, <2>1, <3>1, <3>2 DEF UsbAnswersOf
  <2>2. CASE u # t
    <3>1. usbpc'[u] = usbpc[u] /\ urc'[u] = urc[u] /\ (shared[u] => shared'[u])
      BY <1>2, <2>0, <2>2 DEF UsbTypes
    <3> QED BY <1>0, <3>1, UsbSame
  <2> QED BY <2>1, <2>2
<1> QED BY <1>1, <1>2 DEF serial_open, UsbGoto

\* The port becomes exclusive, or the thread fails.
LEMMA UsbExclusiveAnswers ==
    ASSUME UsbTypes, UsbPlaces, UsbAlone, UsbAnswers, NEW t \in UsbThreads, SetExclusive(t)
    PROVE  UsbAnswers'
<1> SUFFICES ASSUME NEW u \in UsbThreads PROVE UsbAnswersOf(u)'
  BY DEF UsbAnswers
<1>1. /\ usbpc[t] = "setup" /\ usbpc' = [usbpc EXCEPT ![t] = "write"]
      /\ opof' = opof /\ rbuff' = rbuff /\ wanted_loc' = wanted_loc /\ urc' = urc /\ shared' = shared
      /\ devq' = devq /\ sending' = sending /\ track' = track
  BY DEF SetExclusive, UsbGoto, UsbThread, UsbDevice
<1>2. CASE u = t
  <2>1. usbpc'[t] = "write" /\ urc'[t] = "none"
    BY <1>1 DEF UsbTypes, UsbPlaces
  <2>2. ~shared[t] /\ opof[t] = "dlrec" => devq = <<>> /\ sending = <<>>
    BY <1>1 DEF UsbAnswers, UsbAnswersOf
  <2> QED BY <1>1, <1>2, <2>1, <2>2 DEF UsbAnswersOf
<1>3. CASE u # t
  <2>1. usbpc'[u] = usbpc[u]
    BY <1>1, <1>3 DEF UsbTypes
  <2> QED BY <1>1, <1>3, <2>1, UsbOther DEF AtPort
<1> QED BY <1>2, <1>3

\* serial_write: the command is the last one in the device, under a fresh tag.
LEMMA UsbWriteAnswers ==
    ASSUME UsbTypes, UsbPlaces, UsbTags, UsbAlone, UsbAnswers, NEW t \in UsbThreads, serial_write(t)
    PROVE  UsbAnswers'
<1>1. CASE ~plugged
  <2>1. FailUsb(t) /\ track' = track /\ usbpc[t] \in AtPort
    BY <1>1 DEF serial_write, AtPort
  <2> QED BY <2>1, UsbFailAnswers
<1>2. CASE plugged
  <2> SUFFICES ASSUME NEW u \in UsbThreads PROVE UsbAnswersOf(u)'
    BY DEF UsbAnswers
  <2> DEFINE c == [op |-> opof[t], tag |-> utag[t]]
  <2>1. /\ usbpc[t] = "write" /\ usbpc' = [usbpc EXCEPT ![t] = "read"]
        /\ opof' = opof /\ rbuff' = rbuff /\ urc' = urc /\ shared' = shared /\ utag' = utag
        /\ devq' = Append(devq, c) /\ sending' = sending /\ track' = track /\ tty' = <<>> /\ memory' = memory
        /\ wanted_loc' = [wanted_loc EXCEPT ![t] = IF opof[t] = "dlrec" THEN ToSet(memory) ELSE wanted_loc[t]]
    BY <1>2 DEF serial_write, UsbGoto, UsbTypes
  <2>2. CASE u # t
    <3>1. usbpc'[u] = usbpc[u] /\ wanted_loc'[u] = wanted_loc[u]
      BY <2>1, <2>2 DEF UsbTypes
    <3> QED BY <2>1, <2>2, <3>1, UsbOther DEF AtPort
  <2>3. CASE u = t
    <3>1. usbpc'[t] = "read" /\ urc'[t] = "none" /\ rbuff'[t] = <<>>
      BY <2>1 DEF UsbTypes, UsbPlaces
    <3>2. NoCommand(devq, utag[t]) /\ NoHead(sending, utag[t])
      BY <2>1 DEF UsbTags
    <3>3. c \in UsbCommands /\ devq \in Seq(UsbCommands)
      BY DEF UsbTypes, UsbCommands
    <3>4. devq' # <<>> /\ Last(devq') = c
      <4> HIDE DEF c
      <4> QED BY <2>1, <3>3, UsbAppend
    <3>5. \A i \in 1..(Len(devq') - 1) : devq'[i].tag # utag[t]
      <4> HIDE DEF c
      <4>1. Len(devq') - 1 = Len(devq) /\ \A i \in 1..Len(devq) : devq'[i] = devq[i] /\ devq[i] \in ToSet(devq)
        BY <2>1, <3>3 DEF ToSet
      <4> QED BY <3>2, <4>1 DEF NoCommand
    <3>6. opof[t] # "dlrec" => Asked(t)'
      BY <2>1, <3>1, <3>2, <3>4, <3>5, UsbEmpty DEF Asked, NoHead
    <3>7. ~shared[t] /\ opof[t] = "dlrec" => Sent(t)'
      <4> SUFFICES ASSUME ~shared[t], opof[t] = "dlrec" PROVE Sent(t)'
        OBVIOUS
      <4>1. devq = <<>> /\ sending = <<>>
        BY <2>1 DEF UsbAnswers, UsbAnswersOf
      <4>2. devq' = <<c>>
        BY <2>1, <4>1
      <4>3. wanted_loc'[t] = ToSet(memory)
        BY <2>1 DEF UsbTypes
      <4> QED BY <2>1, <4>1, <4>2, <4>3, UsbEmpty DEF Sent, NoEndLine
    <3> QED BY <2>1, <2>3, <3>1, <3>6, <3>7 DEF UsbAnswersOf
  <2> QED BY <2>2, <2>3
<1> QED BY <1>1, <1>2

\* A step of the device changes nothing of a thread; what it changes at the port matters to the
\* thread that reads.
LEMMA UsbDeviceAnswers ==
    ASSUME UsbAnswers, UNCHANGED <<usbpc, opof, utag, rbuff, urc, shared, wanted_loc, track>>,
           \A u \in UsbThreads : ~shared[u] =>
               /\ usbpc[u] = "read" /\ opof[u] # "dlrec" /\ Asked(u) => Asked(u)'
               /\ usbpc[u] = "read" /\ opof[u] = "dlrec" /\ Sent(u) => Sent(u)',
           devq = <<>> /\ sending = <<>> => devq' = <<>> /\ sending' = <<>>
    PROVE  UsbAnswers'
<1> SUFFICES ASSUME NEW u \in UsbThreads, ~shared[u] PROVE UsbAnswersOf(u)'
  BY DEF UsbAnswers, UsbAnswersOf
<1>1. UsbAnswersOf(u)
  BY DEF UsbAnswers
<1>2. /\ usbpc'[u] = "read" /\ opof'[u] # "dlrec" => Asked(u)'
      /\ usbpc'[u] = "read" /\ opof'[u] = "dlrec" => Sent(u)'
  BY <1>1 DEF UsbAnswersOf
<1>3. usbpc'[u] = "reply" => (devq' = <<>> /\ sending' = <<>>) \/ NoHead(rbuff'[u], utag'[u])
  BY <1>1 DEF UsbAnswersOf
<1>4. usbpc'[u] \in {"open", "setup", "write"} /\ opof'[u] = "dlrec" => devq' = <<>> /\ sending' = <<>>
  BY <1>1 DEF UsbAnswersOf
<1>5. /\ usbpc'[u] \in {"stop", "store"} => wanted_loc'[u] \subseteq ToSet(rbuff'[u])
      /\ urc'[u] = "imported" => \A l \in wanted_loc'[u] : HasTime(track', l)
  BY <1>1 DEF UsbAnswersOf
<1> QED BY <1>2, <1>3, <1>4, <1>5 DEF UsbAnswersOf, NoHead, HasTime

\* The device takes a command up, and its whole answer is on its way.
LEMMA UsbTakesAnswers ==
    ASSUME UsbTypes, UsbAnswers, DeviceTakes
    PROVE  UsbAnswers'
<1>1. /\ sending = <<>> /\ devq # <<>> /\ sending' = AnswerTo(Head(devq)) /\ devq' = Tail(devq)
      /\ UNCHANGED <<usbpc, opof, utag, rbuff, urc, shared, wanted_loc, track>>
      /\ plugged' = plugged /\ tty' = tty /\ memory' = memory /\ plugged
  BY DEF DeviceTakes, UsbThread
<1>2. devq \in Seq(UsbCommands) /\ memory \in Seq(UsbPieces) /\ \A p \in ToSet(memory) : p.kind = "loc"
  BY DEF UsbTypes
<1>3. Head(devq) \in UsbCommands /\ Tail(devq) \in Seq(UsbCommands)
  BY <1>1, <1>2
<1> DEFINE c == Head(devq)
<1>4. /\ \A p \in ToSet(AnswerTo(c)) : p.kind = "head" => p.tag = c.tag
      /\ c.op # "dlrec" => AnswerTo(c) = <<Piece("head", c.tag), Piece("eol", c.tag)>>
      /\ c.op = "dlrec" => ToSet(memory) \subseteq ToSet(AnswerTo(c)) /\ NoEndLine(SubSeq(AnswerTo(c), 1, Len(AnswerTo(c)) - 1))
  BY <1>2, <1>3, UsbAnswer
<1>5. ASSUME NEW u \in UsbThreads, Asked(u), opof[u] # "dlrec" PROVE Asked(u)'
  <2>1. /\ NoHead(rbuff[u], utag[u]) /\ NoHead(tty, utag[u])
        /\ Last(devq) = [op |-> opof[u], tag |-> utag[u]]
        /\ \A i \in 1..(Len(devq) - 1) : devq[i].tag # utag[u]
    BY <1>1, <1>5 DEF Asked
  <2>2. CASE Len(devq) = 1
    <3>1. Tail(devq) = <<>> /\ Head(devq) = devq[1] /\ Last(devq) = devq[1]
      <4>1. Len(Tail(devq)) = 0 /\ Head(devq) = devq[1]
        BY <1>1, <1>2, <2>2, UsbTail
      <4>2. \A s \in Seq(UsbCommands) : Len(s) = 0 => s = <<>>
        OBVIOUS
      <4>3. Tail(devq) = <<>>
        BY ONLY <1>3, <4>1, <4>2
      <4> QED BY <2>2, <4>1, <4>3 DEF Last
    <3>2. c.op # "dlrec" /\ c.tag = utag[u]
      BY <1>5, <2>1, <3>1
    <3>3. sending' = <<Piece("head", utag'[u]), Piece("eol", utag'[u])>> /\ devq' = <<>>
      BY <1>1, <1>4, <3>1, <3>2
    <3> QED BY <1>1, <2>1, <3>3 DEF Asked, NoHead
  <2>3. CASE Len(devq) # 1
    <3>1. /\ Len(devq) \in Nat /\ Len(devq) > 1 /\ Head(devq) = devq[1] /\ Len(Tail(devq)) = Len(devq) - 1
          /\ \A i \in 1..(Len(devq) - 1) : Tail(devq)[i] = devq[i + 1]
      <4>1. /\ Len(devq) \in Nat /\ Len(devq) >= 1 /\ Len(Tail(devq)) = Len(devq) - 1 /\ Head(devq) = devq[1]
            /\ \A i \in 1..(Len(devq) - 1) : Tail(devq)[i] = devq[i + 1]
        BY <1>1, <1>2, UsbTail
      <4>2. Len(devq) > 1
        <5>1. \A n \in Nat : n >= 1 /\ n # 1 => n > 1
          OBVIOUS
        <5>2. Len(devq) \in Nat /\ Len(devq) >= 1
          BY <4>1
        <5> QED BY <2>3, <5>1, <5>2, Zenon
      <4> QED BY <4>1, <4>2, Zenon
    <3>2. Last(Tail(devq)) = Last(devq)
      <4>1. Len(devq) - 1 \in 1..(Len(devq) - 1) /\ Len(devq) - 1 + 1 = Len(devq)
        BY <3>1
      <4> QED BY <3>1, <4>1 DEF Last
    <3>3. \A i \in 1..(Len(Tail(devq)) - 1) : Tail(devq)[i].tag # utag[u]
      <4> SUFFICES ASSUME NEW i \in 1..(Len(Tail(devq)) - 1) PROVE Tail(devq)[i].tag # utag[u]
        OBVIOUS
      <4>1. i \in 1..(Len(devq) - 1) /\ i + 1 \in 1..(Len(devq) - 1)
        BY <3>1
      <4> QED BY <2>1, <3>1, <4>1
    <3>4. c.tag # utag[u]
      <4>1. 1 \in 1..(Len(devq) - 1)
        BY <3>1
      <4> QED BY <2>1, <3>1, <4>1
    <3>5. NoHead(sending', utag[u])
      BY <1>1, <1>4, <3>4 DEF NoHead
    <3>6. Tail(devq) # <<>>
      BY <3>1
    <3> QED BY <1>1, <2>1, <3>2, <3>3, <3>5, <3>6 DEF Asked, NoHead
  <2> QED BY <2>2, <2>3
<1>6. ASSUME NEW u \in UsbThreads, Sent(u) PROVE Sent(u)'
  <2>1. /\ devq = <<[op |-> "dlrec", tag |-> utag[u]]>> /\ wanted_loc[u] \subseteq ToSet(memory) /\ NoEndLine(tty)
    BY <1>1, <1>6 DEF Sent
  <2>2. c.op = "dlrec" /\ Tail(devq) = <<>>
    BY <2>1
  <2>3. ToSet(memory) \subseteq ToSet(sending') /\ NoEndLine(SubSeq(sending', 1, Len(sending') - 1))
    BY <1>1, <1>4, <2>2
  <2>4. wanted_loc'[u] \subseteq ToSet(rbuff'[u]) \cup ToSet(tty') \cup ToSet(sending')
    BY <1>1, <2>1, <2>3
  <2>5. devq' = <<>> /\ NoEndLine(tty')
    BY <1>1, <2>1, <2>2
  <2> QED BY <2>3, <2>4, <2>5 DEF Sent, NoEndLine
<1> QED BY <1>1, <1>5, <1>6, UsbDeviceAnswers

\* The device sends a piece of it.
LEMMA UsbSendsAnswers ==
    ASSUME UsbTypes, UsbAnswers, DeviceSendsPiece
    PROVE  UsbAnswers'
<1>1. /\ sending # <<>> /\ sending' = Tail(sending) /\ tty' = Append(tty, Head(sending)) /\ devq' = devq
      /\ UNCHANGED <<usbpc, opof, utag, rbuff, urc, shared, wanted_loc, track>>
      /\ plugged' = plugged /\ memory' = memory /\ plugged
  BY DEF DeviceSendsPiece, UsbThread
<1>2. sending \in Seq(UsbPieces) /\ tty \in Seq(UsbPieces)
  BY DEF UsbTypes
<1>3. Head(sending) \in UsbPieces /\ Tail(sending) \in Seq(UsbPieces) /\ ToSet(sending) = {Head(sending)} \cup ToSet(Tail(sending))
  BY <1>1, <1>2, UsbTail
<1>4. ToSet(tty') = ToSet(tty) \cup {Head(sending)} /\ Last(tty') = Head(sending)
  BY <1>1, <1>2, <1>3, UsbAppend
<1>5. ASSUME NEW u \in UsbThreads, Asked(u) PROVE Asked(u)'
  <2>1. CASE devq = <<>> /\ sending = <<Piece("eol", utag[u])>>
    <3>1. Tail(sending) = <<>>
      BY <2>1
    <3> QED BY <1>1, <2>1, <3>1 DEF Asked
  <2>2. CASE devq = <<>> /\ sending = <<Piece("head", utag[u]), Piece("eol", utag[u])>>
    <3>1. Tail(sending) = <<Piece("eol", utag[u])>> /\ Head(sending) = Piece("head", utag[u])
      BY <2>2
    <3>2. Last(tty').kind = "head"
      BY <1>4, <3>1 DEF Piece
    <3> QED BY <1>1, <2>2, <3>1, <3>2 DEF Asked
  <2>3. CASE /\ NoHead(rbuff[u], utag[u]) /\ NoHead(tty, utag[u]) /\ NoHead(sending, utag[u])
             /\ devq # <<>> /\ Last(devq) = [op |-> opof[u], tag |-> utag[u]]
             /\ \A i \in 1..(Len(devq) - 1) : devq[i].tag # utag[u]
    <3>1. NoHead(tty', utag[u]) /\ NoHead(sending', utag[u])
      BY <1>1, <1>3, <1>4, <2>3 DEF NoHead
    <3> QED BY <1>1, <2>3, <3>1 DEF Asked, NoHead
  <2> QED BY <1>1, <1>5, <2>1, <2>2, <2>3 DEF Asked
<1>6. ASSUME NEW u \in UsbThreads, Sent(u) PROVE Sent(u)'
  <2>1. /\ devq = <<>> /\ wanted_loc[u] \subseteq ToSet(rbuff[u]) \cup ToSet(tty) \cup ToSet(sending)
        /\ NoEndLine(tty) /\ NoEndLine(SubSeq(sending, 1, Len(sending) - 1))
    BY <1>1, <1>6 DEF Sent
  <2>2. wanted_loc'[u] \subseteq ToSet(rbuff'[u]) \cup ToSet(tty') \cup ToSet(sending')
    BY <1>1, <1>3, <1>4, <2>1
  <2>3. ASSUME sending' # <<>> PROVE NoEndLine(tty') /\ NoEndLine(SubSeq(sending', 1, Len(sending') - 1))
    <3> DEFINE n == Len(sending)
    <3>1. /\ n \in Nat /\ n > 1 /\ Head(sending) = sending[1] /\ Len(Tail(sending)) = n - 1
          /\ \A i \in 1..(n - 1) : Tail(sending)[i] = sending[i + 1]
      BY <1>1, <1>2, <2>3
    <3>2. /\ DOMAIN SubSeq(sending, 1, n - 1) = 1..(n - 1)
          /\ \A i \in 1..(n - 1) : SubSeq(sending, 1, n - 1)[i] = sending[i]
      BY <1>2, <3>1
    <3>3. /\ DOMAIN SubSeq(Tail(sending), 1, n - 2) = 1..(n - 2)
          /\ \A i \in 1..(n - 2) : SubSeq(Tail(sending), 1, n - 2)[i] = Tail(sending)[i]
      BY <1>3, <3>1
    <3>4. \A i \in 1..(n - 1) : sending[i].kind # "end2"
      BY <2>1, <3>2 DEF NoEndLine, ToSet
    <3>5. Head(sending).kind # "end2"
      <4>1. 1 \in 1..(n - 1)
        BY <3>1
      <4> QED BY <3>1, <3>4, <4>1
    <3>6. \A i \in 1..(n - 2) : Tail(sending)[i].kind # "end2"
      <4> SUFFICES ASSUME NEW i \in 1..(n - 2) PROVE Tail(sending)[i].kind # "end2"
        OBVIOUS
      <4>1. i \in 1..(n - 1) /\ i + 1 \in 1..(n - 1)
        BY <3>1
      <4> QED BY <3>1, <3>4, <4>1
    <3>7. NoEndLine(SubSeq(Tail(sending), 1, n - 2))
      BY <3>3, <3>6 DEF NoEndLine, ToSet
    <3>8. Len(Tail(sending)) - 1 = n - 2
      BY <3>1
    <3>9. NoEndLine(tty')
      BY <1>4, <2>1, <3>5 DEF NoEndLine
    <3> QED BY <1>1, <3>7, <3>8, <3>9
  <2> QED BY <1>1, <2>1, <2>2, <2>3 DEF Sent, NoEndLine
<1> QED BY <1>1, <1>5, <1>6, UsbDeviceAnswers

\* The device records a location: the memory only grows.
LEMMA UsbRecordsAnswers ==
    ASSUME UsbTypes, UsbAnswers, DeviceRecords
    PROVE  UsbAnswers'
<1>1. /\ memory' = Append(memory, Loc(2, 1)) /\ devq' = devq /\ sending' = sending
      /\ tty' = tty \/ (sending = <<>> /\ tty' = Append(tty, Loc(2, 1)))
      /\ UNCHANGED <<usbpc, opof, utag, rbuff, urc, shared, wanted_loc, track>>
      /\ plugged' = plugged /\ plugged
  BY DEF DeviceRecords, UsbThread
<1>2. memory \in Seq(UsbPieces) /\ tty \in Seq(UsbPieces)
  BY DEF UsbTypes
<1>3. ToSet(memory') = ToSet(memory) \cup {Loc(2, 1)}
  BY <1>1, <1>2, UsbAppend, UsbLocs
<1>4. ToSet(Append(tty, Loc(2, 1))) = ToSet(tty) \cup {Loc(2, 1)}
  BY <1>2, UsbAppend, UsbLocs
<1>5. ToSet(tty) \subseteq ToSet(tty') /\ ToSet(tty') \subseteq ToSet(tty) \cup {Loc(2, 1)}
  BY <1>1, <1>4
<1>6. ASSUME NEW u \in UsbThreads, Asked(u) PROVE Asked(u)'
  <2>1. \A g : NoHead(tty, g) => NoHead(tty', g)
    BY <1>5, UsbLocs DEF NoHead
  <2>2. sending # <<>> => tty' = tty
    BY <1>1
  <2> QED BY <1>1, <1>6, <2>1, <2>2 DEF Asked, NoHead
<1>7. ASSUME NEW u \in UsbThreads, Sent(u) PROVE Sent(u)'
  <2>1. NoEndLine(tty) => NoEndLine(tty')
    BY <1>5, UsbLocs DEF NoEndLine
  <2> QED BY <1>1, <1>3, <1>5, <1>7, <2>1 DEF Sent, NoEndLine
<1> QED BY <1>1, <1>6, <1>7, UsbDeviceAnswers

\* The device is unplugged: nothing is promised.
LEMMA UsbUnplugAnswers ==
    ASSUME UsbTypes, UsbAnswers, Unplug
    PROVE  UsbAnswers'
<1>1. /\ devq' = <<>> /\ sending' = <<>> /\ ~plugged'
      /\ UNCHANGED <<usbpc, opof, utag, rbuff, urc, shared, wanted_loc, track>>
  BY DEF Unplug, UsbThread
<1>2. ASSUME NEW u \in UsbThreads PROVE Asked(u)' /\ Sent(u)'
  BY <1>1 DEF Asked, Sent
<1> QED BY <1>1, <1>2, UsbDeviceAnswers

\* A line arrives: what leaves the port is in the buffer of the reader.
LEMMA UsbReadAnswers ==
    ASSUME UsbTypes, UsbPlaces, UsbAlone, UsbAnswers, NEW t \in UsbThreads, serial_read_line(t) \/ ReadDownload(t)
    PROVE  UsbAnswers'
<1> SUFFICES ASSUME NEW u \in UsbThreads PROVE UsbAnswersOf(u)'
  BY DEF UsbAnswers
<1>1. /\ usbpc[t] = "read" /\ tty # <<>> /\ tty' = <<>> /\ rbuff' = [rbuff EXCEPT ![t] = rbuff[t] \o tty]
      /\ opof' = opof /\ wanted_loc' = wanted_loc /\ urc' = urc /\ shared' = shared /\ utag' = utag
      /\ devq' = devq /\ sending' = sending /\ track' = track /\ plugged' = plugged /\ memory' = memory
  BY DEF serial_read_line, ReadDownload, serial_read_timeout, UsbThread, UsbDevice, UsbTypes
<1>2. CASE u # t
  <2>1. usbpc'[u] = usbpc[u] /\ rbuff'[u] = rbuff[u]
    BY <1>1, <1>2 DEF serial_read_line, ReadDownload, UsbGoto, UsbTypes
  <2> QED BY <1>1, <1>2, <2>1, UsbOther DEF AtPort
<1>3. CASE u = t
  <2> SUFFICES ASSUME ~shared[t] PROVE UsbAnswersOf(t)'
    BY <1>1, <1>3 DEF UsbAnswersOf
  <2>1. rbuff[t] \in Seq(UsbPieces) /\ tty \in Seq(UsbPieces)
    BY DEF UsbTypes
  <2>2. ToSet(rbuff[t] \o tty) = ToSet(rbuff[t]) \cup ToSet(tty)
    BY <2>1, UsbConcat
  <2>3. rbuff'[t] = rbuff[t] \o tty
    BY <1>1 DEF UsbTypes
  <2>4. ToSet(rbuff'[t]) = ToSet(rbuff[t]) \cup ToSet(tty) /\ ToSet(tty') = {}
    BY <1>1, <2>2, <2>3, UsbEmpty
  <2>5. urc'[t] = "none"
    BY <1>1 DEF UsbPlaces
  <2>6. ASSUME serial_read_line(t) PROVE UsbAnswersOf(t)'
    <3>1. /\ opof[t] # "dlrec" /\ usbpc'[t] = IF Last(tty).kind \in {"eol", "loc", "end2"} THEN "reply" ELSE "read"
      BY <2>6 DEF serial_read_line, UsbGoto, UsbTypes
    <3>2. Asked(t)
      BY <1>1, <3>1 DEF UsbAnswers, UsbAnswersOf
    <3>3. \A g : NoHead(rbuff[t], g) /\ NoHead(tty, g) => NoHead(rbuff'[t], g) /\ NoHead(tty', g)
      BY <2>4 DEF NoHead
    <3>4. usbpc'[t] = "read" => Asked(t)'
      BY <1>1, <3>2, <3>3 DEF Asked, NoHead
    <3>5. usbpc'[t] = "reply" => (devq' = <<>> /\ sending' = <<>>) \/ NoHead(rbuff'[t], utag'[t])
      BY <1>1, <3>1, <3>2, <3>3 DEF Asked
    <3>6. usbpc'[t] \in {"read", "reply"}
      BY <3>1
    <3> QED BY <1>1, <2>5, <3>1, <3>4, <3>5, <3>6 DEF UsbAnswersOf, NoHead
  <2>7. ASSUME ReadDownload(t) PROVE UsbAnswersOf(t)'
    <3>1. opof[t] = "dlrec" /\ usbpc'[t] = IF EndsDownload(tty) THEN "stop" ELSE "read"
      BY <2>7 DEF ReadDownload, UsbGoto, UsbTypes
    <3>2. Sent(t) /\ plugged
      BY <1>1, <3>1 DEF UsbAnswers, UsbAnswersOf, UsbPlaces
    <3>3. NoEndLine(tty) => ~EndsDownload(tty)
      <4>1. Last(tty) \in ToSet(tty)
        <5>1. Len(tty) \in DOMAIN tty
          BY <1>1, <2>1
        <5> QED BY <5>1 DEF Last, ToSet
      <4> QED BY <4>1 DEF NoEndLine, EndsDownload
    <3>4. NoEndLine(tty')
      BY <2>4 DEF NoEndLine
    <3>5. CASE devq = <<[op |-> "dlrec", tag |-> utag[t]]>> /\ sending = <<>>
               /\ wanted_loc[t] \subseteq ToSet(memory) /\ NoEndLine(tty)
      <4>1. usbpc'[t] = "read"
        BY <3>1, <3>3, <3>5
      <4>2. Sent(t)'
        BY <1>1, <3>4, <3>5 DEF Sent, NoEndLine
      <4> QED BY <1>1, <2>5, <3>1, <4>1, <4>2 DEF UsbAnswersOf
    <3>6. CASE /\ devq = <<>>
               /\ wanted_loc[t] \subseteq ToSet(rbuff[t]) \cup ToSet(tty) \cup ToSet(sending)
               /\ sending # <<>> => NoEndLine(tty) /\ NoEndLine(SubSeq(sending, 1, Len(sending) - 1))
      <4>1. Sent(t)'
        <5>1. wanted_loc'[t] \subseteq ToSet(rbuff'[t]) \cup ToSet(tty') \cup ToSet(sending')
          BY <1>1, <2>4, <3>6
        <5> QED BY <1>1, <3>4, <3>6, <5>1 DEF Sent, NoEndLine
      <4>2. usbpc'[t] = "stop" => wanted_loc'[t] \subseteq ToSet(rbuff'[t])
        <5> SUFFICES ASSUME usbpc'[t] = "stop" PROVE wanted_loc'[t] \subseteq ToSet(rbuff'[t])
          OBVIOUS
        <5>1. sending = <<>>
          BY <3>1, <3>3, <3>6
        <5> QED BY <1>1, <2>4, <3>6, <5>1, UsbEmpty
      <4>3. usbpc'[t] \in {"read", "stop"}
        BY <3>1
      <4> QED BY <1>1, <2>5, <3>1, <4>1, <4>2, <4>3 DEF UsbAnswersOf
    <3> QED BY <3>2, <3>5, <3>6 DEF Sent
  <2> QED BY <2>6, <2>7
<1> QED BY <1>2, <1>3

\* handle_usb_reply: an answer is taken only under the tag of the command.
LEMMA UsbReplyAnswers ==
    ASSUME UsbTypes, UsbPlaces, UsbAlone, UsbAnswers, NEW t \in UsbThreads, handle_usb_reply(t)
    PROVE  UsbAnswers'
<1> SUFFICES ASSUME NEW u \in UsbThreads PROVE UsbAnswersOf(u)'
  BY DEF UsbAnswers
<1>1. PICK n \in BOOLEAN : n = get_numrec(t)
  BY Zenon DEF get_numrec
<1>2. /\ usbpc[t] = "reply" /\ usbpc' = [usbpc EXCEPT ![t] = IF n /\ plugged THEN "open" ELSE "idle"]
      /\ opof' = [opof EXCEPT ![t] = IF n THEN "dlrec" ELSE opof[t]]
      /\ wanted_loc' = wanted_loc /\ shared' = shared /\ devq' = devq /\ sending' = sending /\ track' = track
  BY <1>1 DEF handle_usb_reply, UsbGoto, UsbDevice, UsbTypes
<1>3. \E x \in {"none", "ok", "error"} : urc' = [urc EXCEPT ![t] = x]
  BY DEF handle_usb_reply
<1>4. \E x : rbuff' = [rbuff EXCEPT ![t] = x]
  BY DEF handle_usb_reply
<1>5. CASE u # t
  <2>1. usbpc'[u] = usbpc[u] /\ opof'[u] = opof[u] /\ urc'[u] = urc[u] /\ rbuff'[u] = rbuff[u]
    BY <1>2, <1>3, <1>4, <1>5 DEF UsbTypes
  <2> QED BY <1>2, <1>5, <2>1, UsbOther DEF AtPort
<1>6. CASE u = t
  <2> SUFFICES ASSUME ~shared[t] PROVE UsbAnswersOf(t)'
    BY <1>2, <1>6 DEF UsbAnswersOf
  <2>1. usbpc'[t] \in {"open", "idle"} /\ urc'[t] # "imported" /\ (usbpc'[t] = "open" => n = TRUE)
    BY <1>2, <1>3 DEF UsbTypes
  <2>2. n = TRUE => devq = <<>> /\ sending = <<>>
    <3> SUFFICES ASSUME n = TRUE PROVE devq = <<>> /\ sending = <<>>
      OBVIOUS
    <3>1. rbuff[t][1].kind = "head" /\ rbuff[t][1].tag = utag[t]
      BY <1>1 DEF get_numrec, OwnTag, extract_devcmd_reply
    <3>2. rbuff[t][1] \in ToSet(rbuff[t])
      <4>1. rbuff[t] \in Seq(UsbPieces) /\ rbuff[t] # <<>>
        BY <1>2 DEF UsbTypes, UsbPlaces
      <4>2. 1 \in DOMAIN rbuff[t]
        BY <4>1
      <4> QED BY <4>2 DEF ToSet
    <3>3. ~NoHead(rbuff[t], utag[t])
      BY <3>1, <3>2 DEF NoHead
    <3> QED BY <1>2, <3>3 DEF UsbAnswers, UsbAnswersOf
  <2> QED BY <1>2, <2>1, <2>2 DEF UsbAnswersOf
<1> QED BY <1>5, <1>6

\* SPDLREC ends a download, and its locations are in the buffer.
LEMMA UsbStopAnswers ==
    ASSUME UsbTypes, UsbPlaces, UsbAlone, UsbAnswers, NEW t \in UsbThreads, StopDownload(t)
    PROVE  UsbAnswers'
<1>1. usbpc[t] = "stop" /\ track' = track
  BY DEF StopDownload
<1>2. CASE FailUsb(t)
  BY <1>1, <1>2, UsbFailAnswers DEF AtPort
<1>3. CASE /\ usbpc' = [usbpc EXCEPT ![t] = "store"]
           /\ UNCHANGED <<opof, utag, urc, rbuff, usbtries, shared, wanted_loc>>
  <2> SUFFICES ASSUME NEW u \in UsbThreads PROVE UsbAnswersOf(u)'
    BY DEF UsbAnswers
  <2>1. CASE u # t
    <3>1. usbpc'[u] = usbpc[u]
      BY <1>3, <2>1 DEF UsbTypes
    <3> QED BY <1>1, <1>3, <2>1, <3>1, UsbOther DEF AtPort
  <2>2. CASE u = t
    <3>1. usbpc'[t] = "store" /\ urc'[t] = "none"
      BY <1>1, <1>3 DEF UsbTypes, UsbPlaces
    <3>2. ~shared[t] => wanted_loc[t] \subseteq ToSet(rbuff[t])
      BY <1>1 DEF UsbAnswers, UsbAnswersOf
    <3> QED BY <1>3, <2>2, <3>1, <3>2 DEF UsbAnswersOf
  <2> QED BY <2>1, <2>2
<1> QED BY <1>2, <1>3 DEF StopDownload, UsbGoto

\* The locations in the buffer are stored, each time once.
LEMMA UsbStoreAnswers ==
    ASSUME UsbTypes, UsbAnswers, NEW t \in UsbThreads, StoreDownload(t)
    PROVE  UsbAnswers'
<1> SUFFICES ASSUME NEW u \in UsbThreads PROVE UsbAnswersOf(u)'
  BY DEF UsbAnswers
<1> DEFINE rest == track \o Locations(rbuff[t])
<1>1. /\ usbpc[t] = "store" /\ usbpc' = [usbpc EXCEPT ![t] = "idle"] /\ rbuff' = [rbuff EXCEPT ![t] = <<>>]
      /\ plugged' = plugged /\ tty' = tty /\ UNCHANGED <<opof, utag, shared, devq, sending, memory, wanted_loc>>
  BY DEF StoreDownload, UsbGoto, UsbThread, UsbDevice
<1>2. \/ track' = Distinct(rest) /\ urc' = [urc EXCEPT ![t] = "imported"]
      \/ track' \in {track, rest} /\ urc' = [urc EXCEPT ![t] = "error"]
  BY DEF StoreDownload
<1>3. track \in Seq(UsbPieces) /\ rbuff[t] \in Seq(UsbPieces)
  BY DEF UsbTypes
<1>4. /\ \A l : HasTime(track, l) => HasTime(rest, l) /\ HasTime(Distinct(rest), l)
      /\ \A l \in ToSet(rbuff[t]) : l.kind = "loc" => HasTime(Distinct(rest), l)
  BY <1>3, UsbStored
<1> HIDE DEF rest
<1>5. CASE u # t
  <2>1. usbpc'[u] = usbpc[u] /\ rbuff'[u] = rbuff[u] /\ urc'[u] = urc[u]
    BY <1>1, <1>2, <1>5 DEF UsbTypes
  <2>2. \A l : HasTime(track, l) => HasTime(track', l)
    BY <1>2, <1>4
  <2> QED BY <1>1, <2>1, <2>2, UsbSame
<1>6. CASE u = t
  <2> SUFFICES ASSUME ~shared[t], urc'[t] = "imported" PROVE \A l \in wanted_loc[t] : HasTime(track', l)
    <3>1. usbpc'[t] = "idle"
      BY <1>1 DEF UsbTypes
    <3> QED BY <1>1, <1>6, <3>1 DEF UsbAnswersOf, HasTime
  <2>1. track' = Distinct(rest)
    BY <1>2 DEF UsbTypes
  <2>2. wanted_loc[t] \subseteq ToSet(rbuff[t])
    BY <1>1 DEF UsbAnswers, UsbAnswersOf
  <2>3. \A l \in wanted_loc[t] : l.kind = "loc"
    BY DEF UsbTypes
  <2> QED BY <1>4, <2>1, <2>2, <2>3
<1> QED BY <1>5, <1>6

\* Every step keeps what is on its way.
LEMMA UsbAnswersNext ==
    ASSUME UsbTypes, UsbPlaces, UsbTags, UsbAlone, UsbAnswers, [UsbNext]_usbVars
    PROVE  UsbAnswers'
<1>1. ASSUME NEW t \in UsbThreads, UsbTimeout(t) PROVE UsbAnswers'
  <2>1. FailUsb(t) /\ track' = track /\ usbpc[t] \in AtPort
    BY <1>1 DEF UsbTimeout, AtPort
  <2> QED BY <2>1, UsbFailAnswers
<1>2. ASSUME UNCHANGED usbVars \/ \E t \in UsbThreads : ReadNothing(t) PROVE UsbAnswers'
  <2>1. UNCHANGED <<usbpc, opof, rbuff, wanted_loc, urc, utag, shared, devq, sending, tty, plugged, memory, track>>
    BY <1>2 DEF usbVars, ReadNothing, UsbThread, UsbDevice
  <2> SUFFICES ASSUME NEW u \in UsbThreads PROVE UsbAnswersOf(u)'
    BY DEF UsbAnswers
  <2> QED BY <2>1, UsbSame
<1> QED BY <1>1, <1>2, UsbStartAnswers, UsbOpenAnswers, UsbExclusiveAnswers, UsbWriteAnswers, UsbReadAnswers, UsbReplyAnswers,
        UsbStopAnswers, UsbStoreAnswers, UsbTakesAnswers, UsbSendsAnswers, UsbRecordsAnswers, UsbUnplugAnswers DEF UsbNext

\* The invariant holds in every state.
LEMMA UsbInvariant == UsbSpec => []UsbInv
<1>1. UsbInv /\ [UsbNext]_usbVars => UsbInv'
  BY UsbTypesNext, UsbPlacesNext, UsbTagsNext, UsbAloneNext, UsbAnswersNext DEF UsbInv
<1> QED BY UsbInitInv, <1>1, PTL DEF UsbSpec

\* A download that reports success, and during which no other thread got the port open, has a row
\* for the time of every location that was in the device; a command that reports success was
\* answered by its own answer or by a location, even when threads shared the port; and the port is
\* open for those that use it: for any number of threads, locations and downloads, whatever the
\* device and the plug do (get_dlrec_to_db, handle_device_reply, serial_open, serial_close).
THEOREM DownloadsAreWhole == UsbSpec => []DownloadIsWhole
<1>1. UsbInv => DownloadIsWhole
  BY DEF UsbInv, UsbPlaces, UsbAnswers, UsbAnswersOf, HasTime, DownloadIsWhole, AtPort
<1> QED BY UsbInvariant, <1>1, PTL

\* Every variable of the port keeps its type.
THEOREM UsbTypeCorrect == UsbSpec => []UsbTypeOK
<1>1. UsbInv => UsbTypeOK
  BY DEF UsbInv, UsbTypes, UsbTypeOK
<1> QED BY UsbInvariant, <1>1, PTL

-----------------------------------------------------------------------------
(* The database: operations that are not part of a store                   *)

\* What any other operation of thread t does to the rows and to the stores: nothing, unless
\* it drops the table.
Apart(t) ==
    /\ ~Storing(t) /\ ~Storing(t)'
    /\ \A u \in DbThreads \ {t} : /\ dpc'[u] = dpc[u] /\ job'[u] = job[u]
                                  /\ row'[u] = row[u] /\ pend'[u] = pend[u]
    /\ JobsAreSorted' /\ pend'[t] = <<>>
    /\ loc' \in {loc, <<>>}
    /\ UNCHANGED <<told, bulk, stored, failed, fresh>>

\* A store of another thread does not notice it.
LEMMA ApartKeeps ==
    ASSUME StoreInv, NEW t \in DbThreads, Apart(t)
    PROVE  StoreInv'
<1>1. RowsAreNumbered' /\ ToSet(loc)' \subseteq ToSet(loc)
  <2>1. CASE loc' = loc
    BY <2>1 DEF StoreInv, RowsAreNumbered, Apart, ToSet
  <2>2. CASE loc' = <<>>
    <3>1. ToSet(loc)' = {} /\ DOMAIN loc' = {}
      BY <2>2 DEF ToSet
    <3> QED BY <3>1, <2>2 DEF StoreInv, RowsAreNumbered, Apart
  <2> QED BY <2>1, <2>2 DEF Apart
<1>2. ASSUME NEW u \in DbThreads, Storing(u)'
      PROVE  u # t /\ Storing(u) /\ Lines(u)' = Lines(u) /\ Through(u)' = Through(u)
  BY <1>2 DEF Apart, Storing, Lines, ToSet, Through
<1>3. ASSUME NEW u \in DbThreads, Storing(u)'
      PROVE  BatchIsOwn(u)' /\ RowsAreTried(u)'
  <2>1. BatchIsOwn(u) /\ RowsAreTried(u)
    BY <1>2, <1>3 DEF StoreInv
  <2>2. job'[u] = job[u] /\ row'[u] = row[u] /\ pend'[u] = pend[u] /\ dpc'[u] = dpc[u]
    BY <1>2, <1>3 DEF Apart
  <2>3. BatchIsOwn(u)'
    BY <1>1, <1>2, <1>3, <2>1, <2>2 DEF BatchIsOwn, Apart
  <2>4. RowsAreTried(u)'
    BY <1>2, <1>3, <2>1, <2>2 DEF RowsAreTried, Apart
  <2> QED BY <2>3, <2>4
<1>4. ASSUME NEW u \in DbThreads, ~Storing(u)'
      PROVE  pend'[u] = <<>>
  BY <1>4 DEF Apart, StoreInv, Storing
<1> QED BY <1>1, <1>3, <1>4 DEF StoreInv, Apart

\* An operation that begins and is no store.
LEMMA BeginsApart ==
    ASSUME StoreInv, NEW t \in DbThreads, NEW j, NEW l, db_setup(t, j), DbGoto(t, l),
           l \notin {"refused", "row", "callback", "commit"},
           row' = row \/ row' = [row EXCEPT ![t] = 1],
           UNCHANGED <<loc, pend, told, bulk, stored, failed, fresh>>
    PROVE  Apart(t)
<1>1. ~Storing(t) /\ ~Storing(t)' /\ pend[t] = <<>>
  BY DEF db_setup, DbGoto, Storing, StoreInv, JobsAreSorted
<1>2. JobsAreSorted'
  BY DEF db_setup, DbGoto, StoreInv, JobsAreSorted
<1> QED BY <1>1, <1>2 DEF Apart, StoreInv, JobsAreSorted, db_setup, DbGoto

\* An operation that ends leaves every thread its entries.
LEMMA CloseSorts ==
    ASSUME JobsAreSorted, NEW t \in DbThreads, NEW a, db_close(t, a)
    PROVE  JobsAreSorted'
<1>1. dpc' = [u \in DbThreads |-> dpc'[u]] /\ job' = [u \in DbThreads |-> job'[u]]
  BY DEF db_close, DbGoto, JobsAreSorted
<1>2. row' = [u \in DbThreads |-> row'[u]]
  BY DEF db_close, JobsAreSorted
<1>3. pend' \in [DbThreads -> Seq(Nat)]
  BY DEF db_close, JobsAreSorted
<1> QED BY <1>1, <1>2, <1>3 DEF JobsAreSorted

\* An operation that ends and is no store.
LEMMA EndsApart ==
    ASSUME StoreInv, NEW t \in DbThreads, NEW a, db_close(t, a), ~Storing(t),
           UNCHANGED <<loc, told, bulk, stored, failed, fresh>>
    PROVE  Apart(t)
<1>1. ~Storing(t)' /\ pend'[t] = <<>>
  BY DEF db_close, DbGoto, Storing, StoreInv, JobsAreSorted
<1>2. JobsAreSorted'
  BY CloseSorts DEF StoreInv
<1> QED BY <1>1, <1>2 DEF Apart, StoreInv, JobsAreSorted, db_close, DbGoto

\* An operation that goes on and is no store.
LEMMA GoesOnApart ==
    ASSUME StoreInv, NEW t \in DbThreads, ~Storing(t),
           dpc' = dpc \/ \E l : DbGoto(t, l) /\ l \notin {"refused", "row", "callback", "commit"},
           row' = row \/ row' = [row EXCEPT ![t] = @ + 1],
           loc' \in {loc, <<>>},
           UNCHANGED <<job, pend, told, bulk, stored, failed, fresh>>
    PROVE  Apart(t)
<1>1. ~Storing(t)' /\ pend[t] = <<>>
  BY DEF DbGoto, Storing, StoreInv, JobsAreSorted
<1>2. JobsAreSorted'
  BY DEF DbGoto, StoreInv, JobsAreSorted
<1> QED BY <1>1, <1>2 DEF Apart, StoreInv, JobsAreSorted, DbGoto

\* Every operation that is not one of a store.
LEMMA DeletesApart ==
    ASSUME StoreInv, NEW t \in DbThreads
    PROVE  /\ StartEmpty(t) => Apart(t)
           /\ ExecSql(t) => Apart(t)
           /\ DropTable(t) => Apart(t)
           /\ Vacuum(t) => Apart(t)
           /\ CreateTable(t) => Apart(t)
           /\ EndExecSql(t) => Apart(t)
<1> USE DEF rowVars, lockVars, pastVars
<1>1. StartEmpty(t) => Apart(t)
  BY BeginsApart DEF StartEmpty
<1>2. ExecSql(t) => Apart(t)
  BY BeginsApart DEF ExecSql
<1>3. DropTable(t) => Apart(t)
  BY EndsApart, GoesOnApart DEF DropTable, Storing
<1>4. Vacuum(t) => Apart(t)
  BY EndsApart, GoesOnApart DEF Vacuum, Storing
<1>5. CreateTable(t) => Apart(t)
  BY EndsApart DEF CreateTable, Storing
<1>6. EndExecSql(t) => Apart(t)
  BY EndsApart DEF EndExecSql, Storing
<1> QED BY <1>1, <1>2, <1>3, <1>4, <1>5, <1>6

\* Lists.
LEMMA ListsApart ==
    ASSUME StoreInv, NEW t \in DbThreads
    PROVE  /\ \A op, head, n : db_loclist(t, op, head, n) => Apart(t)
           /\ sql_reslist_callback(t) => Apart(t)
           /\ EndSelect(t) => Apart(t)
           /\ ListError(t) => Apart(t)
           /\ ShowList(t) => Apart(t)
           /\ mail_lastloc(t) => Apart(t)
<1> USE DEF rowVars, lockVars, pastVars
<1>1. \A op, head, n : db_loclist(t, op, head, n) => Apart(t)
  BY BeginsApart DEF db_loclist
<1>2. sql_reslist_callback(t) => Apart(t)
  BY GoesOnApart DEF sql_reslist_callback, Storing
<1>3. EndSelect(t) => Apart(t)
  BY GoesOnApart DEF EndSelect, Storing
<1>4. ListError(t) => Apart(t)
  BY EndsApart DEF ListError, Storing
<1>5. ShowList(t) => Apart(t)
  BY EndsApart DEF ShowList, Storing
<1>6. mail_lastloc(t) => Apart(t)
  BY EndsApart DEF mail_lastloc, Storing
<1> QED BY <1>1, <1>2, <1>3, <1>4, <1>5, <1>6

\* Exports and distances.
LEMMA ExportsApart ==
    ASSUME StoreInv, NEW t \in DbThreads
    PROVE  /\ \A op, range, format, file : export_to_internal_set(t, op, range, format, file) => Apart(t)
           /\ sqres_export_callback(t) => Apart(t)
           /\ EndFill(t) => Apart(t)
           /\ exportdb_to_external_format(t) => Apart(t)
           /\ db_calc_distance(t) => Apart(t)
           /\ free_internal_set(t) => Apart(t)
           /\ Compress(t) => Apart(t)
           /\ mail_as_attachment(t) => Apart(t)
<1> USE DEF rowVars, lockVars, pastVars
<1>1. \A op, range, format, file : export_to_internal_set(t, op, range, format, file) => Apart(t)
  BY BeginsApart DEF export_to_internal_set
<1>2. sqres_export_callback(t) => Apart(t)
  BY GoesOnApart DEF sqres_export_callback, Storing
<1>3. EndFill(t) => Apart(t)
  BY GoesOnApart DEF EndFill, Storing
<1>4. exportdb_to_external_format(t) => Apart(t)
  BY GoesOnApart DEF exportdb_to_external_format, Storing
<1>5. db_calc_distance(t) => Apart(t)
  BY GoesOnApart DEF db_calc_distance, Storing
<1>6. free_internal_set(t) => Apart(t)
  BY EndsApart, GoesOnApart DEF free_internal_set, Storing
<1>7. Compress(t) => Apart(t)
  BY EndsApart, GoesOnApart DEF Compress, Storing
<1>8. mail_as_attachment(t) => Apart(t)
  BY EndsApart DEF mail_as_attachment, Storing
<1> QED BY <1>1, <1>2, <1>3, <1>4, <1>5, <1>6, <1>7, <1>8

\* Nicknames.
LEMMA NicksApart ==
    ASSUME StoreInv, NEW t \in DbThreads
    PROVE  /\ \A op, by, nick, devid, imei : SelectNick(t, op, by, nick, devid, imei) => Apart(t)
           /\ \A nick : db_delete_nick(t, nick) => Apart(t)
           /\ update_nick_callback(t) => Apart(t)
           /\ EndNicks(t) => Apart(t)
           /\ db_update_nick(t) => Apart(t)
           /\ db_get_nick(t) => Apart(t)
           /\ db_get_nick_list(t) => Apart(t)
           /\ EndDelete(t) => Apart(t)
<1> USE DEF rowVars, lockVars, pastVars
<1>1. \A op, by, nick, devid, imei : SelectNick(t, op, by, nick, devid, imei) => Apart(t)
  BY BeginsApart DEF SelectNick
<1>2. \A nick : db_delete_nick(t, nick) => Apart(t)
  BY BeginsApart DEF db_delete_nick
<1>3. update_nick_callback(t) => Apart(t)
  BY GoesOnApart DEF update_nick_callback, Storing
<1>4. EndNicks(t) => Apart(t)
  BY GoesOnApart DEF EndNicks, Storing
<1>5. db_update_nick(t) => Apart(t)
  BY EndsApart DEF db_update_nick, Storing
<1>6. db_get_nick(t) => Apart(t)
  BY EndsApart DEF db_get_nick, Storing
<1>7. db_get_nick_list(t) => Apart(t)
  BY EndsApart DEF db_get_nick_list, Storing
<1>8. EndDelete(t) => Apart(t)
  BY EndsApart DEF EndDelete, Storing
<1> QED BY <1>1, <1>2, <1>3, <1>4, <1>5, <1>6, <1>7, <1>8

-----------------------------------------------------------------------------
(* Stores                                                                  *)

Taken == ToSet(loc) \cup failed \cup stored   \* numbers that have had their store

\* What a step of the store of thread t means to the other stores.
StoreStep(t) ==
    /\ \A u \in DbThreads \ {t} : /\ dpc'[u] = dpc[u] /\ job'[u] = job[u]
                                  /\ row'[u] = row[u] /\ pend'[u] = pend[u]
    /\ fresh' \in Nat /\ fresh <= fresh' /\ told \subseteq told' /\ bulk \subseteq bulk'
    /\ Taken' \subseteq Taken \cup (IF Storing(t) THEN Lines(t) ELSE {})
    /\ Storing(t)' => Lines(t)' \subseteq IF Storing(t) THEN Lines(t) ELSE fresh..(fresh' - 1)

\* The numbers below the next number, when that grows.
LEMMA NumbersGrow ==
    ASSUME NEW a \in Nat, NEW b \in Nat, a <= b
    PROVE  /\ 0..(a - 1) \subseteq 0..(b - 1) /\ 1..(a - 1) \subseteq 1..(b - 1)
           /\ (0..(a - 1)) \cap (a..(b - 1)) = {}
OBVIOUS

\* The elements of a sequence.
LEMMA SeqElements ==
    ASSUME NEW S, NEW s \in Seq(S)
    PROVE  \A i \in DOMAIN s : s[i] \in S
BY LenProperties

\* The numbers of a running store are below the next number.
LEMMA LinesAreOld ==
    ASSUME NEW t \in DbThreads, BatchIsOwn(t)
    PROVE  Lines(t) \subseteq 0..(fresh - 1)
<1>1. \A i \in DOMAIN job[t].lines : job[t].lines[i] \in 0..(fresh - 1)
  BY SeqElements DEF BatchIsOwn
<1> QED BY <1>1 DEF Lines, ToSet

\* The store of another thread goes on as before.
LEMMA OthersKeep ==
    ASSUME StoreInv, NEW t \in DbThreads, StoreStep(t),
           NEW u \in DbThreads \ {t}
    PROVE  IF Storing(u)' THEN BatchIsOwn(u)' /\ RowsAreTried(u)' ELSE pend'[u] = <<>>
<1>0. fresh \in Nat /\ fresh' \in Nat /\ fresh <= fresh'
  BY DEF StoreInv, RowsAreNumbered, StoreStep
<1>1. /\ dpc'[u] = dpc[u] /\ job'[u] = job[u] /\ row'[u] = row[u] /\ pend'[u] = pend[u]
      /\ Storing(u)' = Storing(u) /\ Lines(u)' = Lines(u) /\ Through(u)' = Through(u)
  BY DEF StoreStep, Storing, Lines, Through, ToSet
<1>2. CASE ~Storing(u)
  BY <1>1, <1>2 DEF StoreInv
<1>3. CASE Storing(u)
  <2>1. BatchIsOwn(u) /\ RowsAreTried(u)
    BY <1>3 DEF StoreInv
  <2>2. job'[u].lines \in Seq(0..(fresh' - 1))
    <3>1. 0..(fresh - 1) \subseteq 0..(fresh' - 1)
      BY <1>0, NumbersGrow
    <3>2. job[u].lines \in Seq(0..(fresh - 1))
      BY <2>1 DEF BatchIsOwn
    <3> QED BY <1>1, <3>1, <3>2, SeqMonotonic
  <2>3. Lines(u) \cap Taken' = {}
    <3>1. Lines(u) \cap Taken = {}
      BY <2>1 DEF BatchIsOwn, Taken
    <3>2. Storing(t) => Lines(u) \cap Lines(t) = {}
      BY <2>1 DEF BatchIsOwn
    <3> QED BY <3>1, <3>2 DEF StoreStep
  <2>4. ASSUME NEW w \in DbThreads \ {u}, Storing(w)'
        PROVE  Lines(u) \cap Lines(w)' = {}
    <3>1. CASE w = t
      <4>1. Lines(u) \subseteq 0..(fresh - 1)
        BY <2>1, LinesAreOld
      <4>2. CASE Storing(t)
        BY <2>1, <2>4, <3>1, <4>2 DEF BatchIsOwn, StoreStep
      <4>3. CASE ~Storing(t)
        <5>1. Lines(w)' \subseteq fresh..(fresh' - 1)
          BY <2>4, <3>1, <4>3 DEF StoreStep
        <5>2. (0..(fresh - 1)) \cap (fresh..(fresh' - 1)) = {}
          BY <1>0, NumbersGrow
        <5> QED BY <4>1, <5>1, <5>2
      <4> QED BY <4>2, <4>3
    <3>2. CASE w # t
      <4>1. Storing(w) /\ Lines(w)' = Lines(w)
        BY <2>4, <3>2 DEF StoreStep, Storing, Lines, ToSet
      <4> QED BY <2>1, <4>1 DEF BatchIsOwn
    <3> QED BY <3>1, <3>2
  <2>5. BatchIsOwn(u)'
    BY <1>1, <2>1, <2>2, <2>3, <2>4 DEF BatchIsOwn, Taken
  <2>6. RowsAreTried(u)'
    BY <1>1, <2>1 DEF RowsAreTried, StoreStep
  <2> QED BY <1>1, <1>3, <2>5, <2>6
<1> QED BY <1>1, <1>2, <1>3

\* A step of a store that goes on.
LEMMA StoreGoesOn ==
    ASSUME StoreInv, NEW t \in DbThreads, StoreStep(t), JobsAreSorted', RowsAreNumbered',
           job'[t].lines \in Seq(0..(fresh' - 1)),
           \A i, k \in DOMAIN job'[t].lines :
               job'[t].lines[i] = job'[t].lines[k] /\ i # k => job'[t].lines[i] = 0,
           Storing(t)', Lines(t)' \cap Taken' = {}, RowsAreTried(t)'
    PROVE  StoreInv'
<1>1. ASSUME NEW u \in DbThreads \ {t}, Storing(u)'
      PROVE  Lines(t)' \cap Lines(u)' = {}
  <2>1. BatchIsOwn(u)'
    BY <1>1, OthersKeep
  <2> QED BY <2>1 DEF BatchIsOwn
<1>2. BatchIsOwn(t)'
  BY <1>1 DEF BatchIsOwn, Taken
<1> QED BY <1>2, OthersKeep DEF StoreInv

\* The batches that are stored: numbers that nobody has had, the malformed line apart.
LEMMA BatchShape ==
    ASSUME NEW n \in Nat \ {0}, NEW b \in {<<n>>, <<n, n + 1>>, <<n, 0>>}
    PROVE  \E m \in Nat :
              /\ m = n + Cardinality(ToSet(b) \ {0}) /\ n <= m
              /\ b \in Seq(0..(m - 1)) /\ Len(b) >= 1
              /\ ToSet(b) \ {0} \subseteq n..(m - 1)
              /\ \A i, k \in DOMAIN b : b[i] = b[k] /\ i # k => b[i] = 0
<1>1. CASE b = <<n>>
  <2>1. DOMAIN b = {1} /\ ToSet(b) = {n}
    BY <1>1 DEF ToSet
  <2>2. Cardinality(ToSet(b) \ {0}) = 1
    <3>1. ToSet(b) \ {0} = {n}
      BY <2>1
    <3> QED BY <3>1, FS_Singleton
  <2>3. b \in Seq(0..n)
    BY <1>1
  <2> WITNESS n + 1 \in Nat
  <2> QED BY <1>1, <2>1, <2>2, <2>3
<1>2. CASE b = <<n, n + 1>>
  <2>1. DOMAIN b = {1, 2} /\ b[1] = n /\ b[2] = n + 1 /\ ToSet(b) = {n, n + 1}
    BY <1>2 DEF ToSet
  <2>2. Cardinality(ToSet(b) \ {0}) = 2
    <3>1. ToSet(b) \ {0} = {n} \cup {n + 1} /\ n + 1 \notin {n}
      BY <2>1
    <3>2. IsFiniteSet({n}) /\ Cardinality({n}) = 1
      BY FS_Singleton
    <3> QED BY <3>1, <3>2, FS_AddElement
  <2>3. b \in Seq(0..(n + 1))
    BY <1>2
  <2> WITNESS n + 2 \in Nat
  <2> QED BY <1>2, <2>1, <2>2, <2>3
<1>3. CASE b = <<n, 0>>
  <2>1. DOMAIN b = {1, 2} /\ b[1] = n /\ b[2] = 0 /\ ToSet(b) = {n, 0}
    BY <1>3 DEF ToSet
  <2>2. Cardinality(ToSet(b) \ {0}) = 1
    <3>1. ToSet(b) \ {0} = {n}
      BY <2>1
    <3> QED BY <3>1, FS_Singleton
  <2>3. b \in Seq(0..n)
    BY <1>3
  <2> WITNESS n + 1 \in Nat
  <2> QED BY <1>3, <2>1, <2>2, <2>3
<1> QED BY <1>1, <1>2, <1>3

\* A store begins with numbers that nobody has.
LEMMA StartKeeps ==
    ASSUME StoreInv, NEW t \in DbThreads, NEW b \in Batches, NEW cb \in BOOLEAN, StartStore(t, b, cb)
    PROVE  StoreInv'
<1> USE DEF rowVars, lockVars
<1>1. PICK m \in Nat :
        /\ m = fresh + Cardinality(ToSet(b) \ {0}) /\ fresh <= m
        /\ b \in Seq(0..(m - 1)) /\ Len(b) >= 1
        /\ ToSet(b) \ {0} \subseteq fresh..(m - 1)
        /\ \A i, k \in DOMAIN b : b[i] = b[k] /\ i # k => b[i] = 0
  BY BatchShape DEF Batches, StoreInv, RowsAreNumbered
<1>2. /\ fresh' = m /\ fresh \in Nat /\ ~Storing(t)
      /\ job'[t] = [op |-> "store", lines |-> b, cb |-> cb] /\ row'[t] = 1
      /\ dpc'[t] \in {"row", "refused"} /\ Storing(t)'
      /\ JobsAreSorted'
      /\ pend[t] = <<>> /\ pend' = pend /\ loc' = loc /\ failed' = failed /\ stored' = stored
      /\ told' = told /\ bulk' = IF cb THEN bulk ELSE bulk \cup (ToSet(b) \ {0})
  BY <1>1 DEF StartStore, db_setup, DbGoto, StoreInv, JobsAreSorted, RowsAreNumbered, Storing
<1>3. Lines(t)' = ToSet(b) \ {0}
  BY <1>2 DEF Lines, ToSet
<1>4. StoreStep(t)
  <2>1. \A u \in DbThreads \ {t} : /\ dpc'[u] = dpc[u] /\ job'[u] = job[u]
                                   /\ row'[u] = row[u] /\ pend'[u] = pend[u]
    BY DEF StartStore, db_setup, DbGoto, StoreInv, JobsAreSorted
  <2>2. Taken' = Taken
    BY <1>2 DEF Taken, ToSet
  <2> QED BY <1>1, <1>2, <1>3, <2>1, <2>2 DEF StoreStep
<1>5. RowsAreNumbered'
  <2>1. /\ loc \in Seq(1..(fresh - 1)) /\ failed \cup stored \subseteq 1..(fresh - 1)
        /\ 1..(fresh - 1) \subseteq 1..(m - 1)
    BY <1>1, <1>2, NumbersGrow DEF StoreInv, RowsAreNumbered
  <2>2. loc' \in Seq(1..(m - 1))
    BY <1>2, <2>1, SeqMonotonic
  <2>3. ToSet(loc)' = ToSet(loc)
    BY <1>2 DEF ToSet
  <2>4. m \in Nat \ {0}
    BY <1>1 DEF StoreInv, RowsAreNumbered
  <2>5. failed' \cup stored' \subseteq 1..(m - 1)
    BY <1>2, <2>1
  <2>6. \A i, k \in DOMAIN loc' : loc'[i] = loc'[k] => i = k
    BY <1>2 DEF StoreInv, RowsAreNumbered
  <2>7. ToSet(loc)' \cap failed' = {} /\ stored' \subseteq told' \cup bulk'
    BY <1>2, <2>3 DEF StoreInv, RowsAreNumbered
  <2>8. fresh' = m
    BY <1>2
  <2> QED BY <2>2, <2>4, <2>5, <2>6, <2>7, <2>8 DEF RowsAreNumbered
<1>6. Taken' \subseteq 0..(fresh - 1)
  <2>1. \A i \in DOMAIN loc : loc[i] \in 1..(fresh - 1)
    BY SeqElements DEF StoreInv, RowsAreNumbered
  <2>2. Taken \subseteq 1..(fresh - 1)
    BY <2>1 DEF Taken, ToSet, StoreInv, RowsAreNumbered
  <2>3. Taken' = Taken
    BY <1>2 DEF Taken, ToSet
  <2> QED BY <1>2, <2>2, <2>3
<1>7. Lines(t)' \cap Taken' = {}
  <2>1. (0..(fresh - 1)) \cap (fresh..(m - 1)) = {}
    BY <1>1, <1>2, NumbersGrow
  <2> QED BY <1>1, <1>3, <1>6, <2>1
<1>8. RowsAreTried(t)'
  <2>1. DOMAIN pend'[t] = {}
    BY <1>2
  <2>2. Len(job'[t].lines) >= 1 /\ DOMAIN job'[t].lines = 1..Len(job'[t].lines)
    BY <1>1, <1>2
  <2>3. job'[t].cb = cb
    BY <1>2
  <2> QED BY <1>2, <1>3, <2>1, <2>2, <2>3 DEF RowsAreTried
<1>9. /\ job'[t].lines \in Seq(0..(fresh' - 1))
      /\ \A i, k \in DOMAIN job'[t].lines :
             job'[t].lines[i] = job'[t].lines[k] /\ i # k => job'[t].lines[i] = 0
  <2>1. job'[t].lines = b /\ fresh' = m
    BY <1>2
  <2> QED BY <1>1, <2>1
<1> QED BY <1>2, <1>4, <1>5, <1>7, <1>8, <1>9, StoreGoesOn

\* A row is inserted, or it is not and nobody notices.
LEMMA InsertKeeps ==
    ASSUME StoreInv, NEW t \in DbThreads, InsertRow(t)
    PROVE  StoreInv'
<1> USE DEF rowVars, pastVars
<1> DEFINE lines == job[t].lines
<1>1. /\ Storing(t) /\ BatchIsOwn(t) /\ RowsAreTried(t) /\ dpc[t] = "row"
      /\ lines[row[t]] # 0 /\ Through(t) = row[t] - 1
  BY DEF InsertRow, StoreInv, Storing, Through
<1>2. /\ row' = row /\ job' = job /\ dpc'[t] = "callback" /\ Storing(t)' /\ Through(t)' = row[t]
      /\ loc' = loc /\ failed' = failed /\ stored' = stored /\ told' = told /\ bulk' = bulk /\ fresh' = fresh
      /\ Lines(t)' = Lines(t) /\ ToSet(loc)' = ToSet(loc)
  BY DEF InsertRow, DbGoto, StoreInv, JobsAreSorted, Storing, Through, Lines, ToSet
<1>3. /\ lines \in Seq(0..(fresh - 1)) /\ DOMAIN lines = 1..Len(lines) /\ Len(lines) \in Nat
      /\ row[t] \in 1..Len(lines) /\ lines[row[t]] \in Nat
      /\ pend[t] \in Seq(Nat)
  <2>1. lines \in Seq(0..(fresh - 1)) /\ DOMAIN lines = 1..Len(lines) /\ Len(lines) \in Nat
    BY <1>1, LenProperties DEF BatchIsOwn
  <2>2. row[t] \in 1..Len(lines)
    BY <1>1, <2>1 DEF RowsAreTried
  <2>3. lines[row[t]] \in 0..(fresh - 1)
    BY <2>1, <2>2, SeqElements
  <2>4. pend[t] \in Seq(Nat)
    BY DEF StoreInv, JobsAreSorted
  <2> QED BY <2>1, <2>2, <2>3, <2>4
<1>4. pend'[t] \in {pend[t], Append(pend[t], lines[row[t]])}
  BY DEF InsertRow, StoreInv, JobsAreSorted
<1>5. /\ JobsAreSorted'
      /\ \A u \in DbThreads \ {t} : dpc'[u] = dpc[u] /\ pend'[u] = pend[u]
  <2>1. Append(pend[t], lines[row[t]]) \in Seq(Nat)
    BY <1>3
  <2>2. pend' \in [DbThreads -> Seq(Nat)] /\ \A u \in DbThreads \ {t} : pend'[u] = pend[u]
    BY <2>1 DEF InsertRow, StoreInv, JobsAreSorted
  <2>3. dpc' = [u \in DbThreads |-> dpc'[u]] /\ \A u \in DbThreads \ {t} : dpc'[u] = dpc[u]
    BY DEF InsertRow, DbGoto, StoreInv, JobsAreSorted
  <2> QED BY <1>2, <2>2, <2>3 DEF StoreInv, JobsAreSorted
<1>6. fresh \in Nat /\ Taken' = Taken
  BY <1>2 DEF StoreInv, RowsAreNumbered, Taken
<1>7. StoreStep(t)
  BY <1>1, <1>2, <1>5, <1>6 DEF StoreStep
<1>8. RowsAreNumbered'
  BY <1>2 DEF StoreInv, RowsAreNumbered
<1>9. RowsAreTried(t)'
  <2>1. /\ \A i \in DOMAIN pend'[t] : \E k \in 1..row[t] : k \in DOMAIN lines /\ pend'[t][i] = lines[k]
        /\ \A i, k \in DOMAIN pend'[t] : pend'[t][i] = pend'[t][k] => i = k
        /\ \A i \in DOMAIN pend'[t] : pend'[t][i] # 0
    <3>1. /\ \A i \in DOMAIN pend[t] : \E k \in 1..(row[t] - 1) : k \in DOMAIN lines /\ pend[t][i] = lines[k]
          /\ \A i, k \in DOMAIN pend[t] : pend[t][i] = pend[t][k] => i = k
          /\ \A i \in DOMAIN pend[t] : pend[t][i] # 0
      BY <1>1 DEF RowsAreTried
    <3>2. CASE pend'[t] = pend[t]
      BY <1>3, <3>1, <3>2
    <3>3. CASE pend'[t] = Append(pend[t], lines[row[t]])
      <4>1. \A i \in DOMAIN pend[t] : pend[t][i] # lines[row[t]]
        <5> SUFFICES ASSUME NEW i \in DOMAIN pend[t] PROVE pend[t][i] # lines[row[t]]
          OBVIOUS
        <5>1. PICK k \in 1..(row[t] - 1) : k \in DOMAIN lines /\ pend[t][i] = lines[k]
          BY <3>1
        <5>2. k # row[t] /\ row[t] \in DOMAIN lines
          BY <1>3
        <5>3. lines[k] # lines[row[t]]
          BY <1>1, <5>1, <5>2 DEF BatchIsOwn
        <5> QED BY <5>1, <5>3
      <4>2. /\ DOMAIN pend'[t] = 1..(Len(pend[t]) + 1) /\ DOMAIN pend[t] = 1..Len(pend[t]) /\ Len(pend[t]) \in Nat
            /\ \A i \in 1..Len(pend[t]) : pend'[t][i] = pend[t][i]
            /\ pend'[t][Len(pend[t]) + 1] = lines[row[t]]
        BY <1>3, <3>3
      <4>3. \A i \in DOMAIN pend'[t] : i \in DOMAIN pend[t] \/ i = Len(pend[t]) + 1
        BY <4>2
      <4>4. \A i \in DOMAIN pend'[t] : \E k \in 1..row[t] : k \in DOMAIN lines /\ pend'[t][i] = lines[k]
        <5> SUFFICES ASSUME NEW i \in DOMAIN pend'[t]
                     PROVE  \E k \in 1..row[t] : k \in DOMAIN lines /\ pend'[t][i] = lines[k]
          OBVIOUS
        <5>1. CASE i \in DOMAIN pend[t]
          <6>1. PICK k \in 1..(row[t] - 1) : k \in DOMAIN lines /\ pend[t][i] = lines[k]
            BY <3>1, <5>1
          <6>2. k \in 1..row[t]
            BY <1>3
          <6>3. pend'[t][i] = pend[t][i]
            BY <4>2, <5>1
          <6> QED BY <6>1, <6>2, <6>3
        <5>2. CASE i = Len(pend[t]) + 1
          <6>1. row[t] \in 1..row[t] /\ row[t] \in DOMAIN lines
            BY <1>3
          <6> QED BY <4>2, <5>2, <6>1
        <5> QED BY <4>3, <5>1, <5>2
      <4>5. \A i, k \in DOMAIN pend'[t] : pend'[t][i] = pend'[t][k] => i = k
        BY <3>1, <4>1, <4>2, <4>3
      <4>6. \A i \in DOMAIN pend'[t] : pend'[t][i] # 0
        BY <1>1, <3>1, <4>2, <4>3
      <4> QED BY <4>4, <4>5, <4>6
    <3> QED BY <1>4, <3>2, <3>3
  <2> QED BY <1>1, <1>2, <2>1 DEF RowsAreTried
<1>10. /\ job'[t].lines \in Seq(0..(fresh' - 1))
       /\ \A i, k \in DOMAIN job'[t].lines :
              job'[t].lines[i] = job'[t].lines[k] /\ i # k => job'[t].lines[i] = 0
       /\ Lines(t)' \cap Taken' = {}
  BY <1>1, <1>2, <1>6 DEF BatchIsOwn, Taken
<1> QED BY <1>2, <1>5, <1>7, <1>8, <1>9, <1>10, StoreGoesOn

\* The callback of a row is told of its line.
LEMMA CallbackKeeps ==
    ASSUME StoreInv, NEW t \in DbThreads, RowCallback(t)
    PROVE  StoreInv'
<1> USE DEF rowVars, lockVars
<1> DEFINE lines == job[t].lines
<1>1. /\ Storing(t) /\ BatchIsOwn(t) /\ RowsAreTried(t) /\ dpc[t] = "callback" /\ Through(t) = row[t]
  BY DEF RowCallback, StoreInv, Storing, Through
<1>2. /\ row'[t] = row[t] + 1 /\ job' = job
      /\ dpc'[t] = (IF row[t] < Len(lines) THEN "row" ELSE "commit") /\ Storing(t)'
      /\ pend' = pend /\ loc' = loc /\ failed' = failed /\ stored' = stored
      /\ told' = (IF job[t].cb THEN told \cup {lines[row[t]]} ELSE told)
      /\ bulk' = bulk /\ fresh' = fresh
      /\ Lines(t)' = Lines(t) /\ ToSet(loc)' = ToSet(loc)
  BY DEF RowCallback, DbGoto, StoreInv, JobsAreSorted, Storing, Lines, ToSet
<1>3. /\ Len(lines) \in Nat /\ DOMAIN lines = 1..Len(lines) /\ row[t] \in 1..Len(lines)
      /\ Through(t)' = row[t]
  <2>1. DOMAIN lines = 1..Len(lines) /\ Len(lines) \in Nat
    BY <1>1, LenProperties DEF BatchIsOwn
  <2>2. row[t] \in 1..Len(lines)
    BY <1>1, <2>1 DEF RowsAreTried
  <2> QED BY <1>2, <2>1, <2>2 DEF Through
<1>4. /\ JobsAreSorted'
      /\ \A u \in DbThreads \ {t} : dpc'[u] = dpc[u] /\ row'[u] = row[u]
  BY DEF RowCallback, DbGoto, StoreInv, JobsAreSorted
<1>5. fresh \in Nat /\ Taken' = Taken
  BY <1>2 DEF StoreInv, RowsAreNumbered, Taken
<1>6. StoreStep(t)
  BY <1>1, <1>2, <1>4, <1>5 DEF StoreStep
<1>7. RowsAreNumbered'
  BY <1>2 DEF StoreInv, RowsAreNumbered
<1>8. RowsAreTried(t)'
  <2>1. job'[t].cb => \A k \in DOMAIN lines : k < row'[t] => lines[k] \in told' \cup {0}
    <3> SUFFICES ASSUME job[t].cb, NEW k \in DOMAIN lines, k < row[t] + 1
                 PROVE  lines[k] \in told' \cup {0}
      BY <1>2
    <3>1. k = row[t] \/ k < row[t]
      BY <1>3
    <3> QED BY <1>1, <1>2, <3>1 DEF RowsAreTried
  <2>2. /\ row'[t] \in Nat \ {0}
        /\ dpc'[t] \in {"row", "callback"} => row'[t] <= Len(lines)
        /\ dpc'[t] # "callback"
        /\ dpc'[t] = "commit" => row'[t] = Len(lines) + 1
    BY <1>2, <1>3
  <2> QED BY <1>1, <1>2, <1>3, <2>1, <2>2 DEF RowsAreTried
<1>9. /\ job'[t].lines \in Seq(0..(fresh' - 1))
      /\ \A i, k \in DOMAIN job'[t].lines :
             job'[t].lines[i] = job'[t].lines[k] /\ i # k => job'[t].lines[i] = 0
      /\ Lines(t)' \cap Taken' = {}
  BY <1>1, <1>2, <1>5 DEF BatchIsOwn, Taken
<1> QED BY <1>2, <1>4, <1>6, <1>7, <1>8, <1>9, StoreGoesOn

\* What a store has inserted are numbers of its own, each once.
LEMMA InsertedAreOwn ==
    ASSUME StoreInv, NEW t \in DbThreads, Storing(t)
    PROVE  /\ pend[t] \in Seq(1..(fresh - 1)) /\ ToSet(pend[t]) \subseteq Lines(t)
           /\ \A i, k \in DOMAIN pend[t] : pend[t][i] = pend[t][k] => i = k
           /\ Lines(t) \subseteq 1..(fresh - 1)
<1>1. BatchIsOwn(t) /\ RowsAreTried(t) /\ pend[t] \in Seq(Nat) /\ fresh \in Nat
  BY DEF StoreInv, JobsAreSorted, RowsAreNumbered
<1>2. Lines(t) \subseteq 1..(fresh - 1)
  <2>1. Lines(t) \subseteq 0..(fresh - 1) /\ 0 \notin Lines(t)
    BY <1>1, LinesAreOld DEF Lines
  <2> QED BY <1>1, <2>1
<1>3. \A i \in DOMAIN pend[t] : pend[t][i] \in Lines(t)
  BY <1>1 DEF RowsAreTried, Lines, ToSet
<1>4. pend[t] \in Seq(1..(fresh - 1))
  <2>1. \A i \in 1..Len(pend[t]) : pend[t][i] \in 1..(fresh - 1)
    BY <1>1, <1>2, <1>3
  <2> QED BY <1>1, <2>1
<1> QED BY <1>1, <1>2, <1>3, <1>4 DEF RowsAreTried, ToSet

\* The rows of a store are added at its end.
LEMMA RowsAdded ==
    ASSUME NEW S, NEW a \in Seq(S), NEW b \in Seq(S), ToSet(a) \cap ToSet(b) = {},
           \A i, k \in DOMAIN a : a[i] = a[k] => i = k,
           \A i, k \in DOMAIN b : b[i] = b[k] => i = k
    PROVE  /\ a \o b \in Seq(S) /\ ToSet(a \o b) = ToSet(a) \cup ToSet(b)
           /\ \A i, k \in DOMAIN (a \o b) : (a \o b)[i] = (a \o b)[k] => i = k
<1> DEFINE c == a \o b
<1>1. /\ Len(a) \in Nat /\ Len(b) \in Nat /\ DOMAIN a = 1..Len(a) /\ DOMAIN b = 1..Len(b)
      /\ c \in Seq(S) /\ DOMAIN c = 1..(Len(a) + Len(b))
      /\ \A i \in 1..(Len(a) + Len(b)) : c[i] = IF i <= Len(a) THEN a[i] ELSE b[i - Len(a)]
  BY ConcatProperties, LenProperties
<1> HIDE DEF c
<1>2. \A i \in DOMAIN c : \/ i \in DOMAIN a /\ c[i] = a[i]
                          \/ i - Len(a) \in DOMAIN b /\ c[i] = b[i - Len(a)] /\ i \in Int
  BY <1>1
<1>3. \A i \in DOMAIN a : i \in DOMAIN c /\ c[i] = a[i]
  BY <1>1
<1>4. \A i \in DOMAIN b : i + Len(a) \in DOMAIN c /\ c[i + Len(a)] = b[i]
  BY <1>1
<1>5. ToSet(c) = ToSet(a) \cup ToSet(b)
  <2>1. ToSet(c) \subseteq ToSet(a) \cup ToSet(b)
    BY <1>2 DEF ToSet
  <2>2. ToSet(a) \subseteq ToSet(c)
    BY <1>3 DEF ToSet
  <2>3. ToSet(b) \subseteq ToSet(c)
    BY <1>4 DEF ToSet
  <2> QED BY <2>1, <2>2, <2>3
<1>6. ASSUME NEW i \in DOMAIN c, NEW k \in DOMAIN c, c[i] = c[k]
      PROVE  i = k
  <2>1. \A x \in DOMAIN a, y \in DOMAIN b : a[x] # b[y]
    BY DEF ToSet
  <2>2. CASE i \in DOMAIN a /\ c[i] = a[i]
    BY <1>2, <1>6, <2>1, <2>2
  <2>3. CASE i - Len(a) \in DOMAIN b /\ c[i] = b[i - Len(a)] /\ i \in Int
    <3>1. ~(k \in DOMAIN a /\ c[k] = a[k])
      BY <1>6, <2>1, <2>3
    <3>2. k - Len(a) \in DOMAIN b /\ c[k] = b[k - Len(a)] /\ k \in Int
      BY <1>2, <3>1
    <3>3. i - Len(a) = k - Len(a)
      BY <1>6, <2>3, <3>2
    <3> QED BY <1>1, <2>3, <3>2, <3>3
  <2> QED BY <1>2, <2>2, <2>3
<1> QED BY <1>1, <1>5, <1>6 DEF c

\* A store ends: its rows are all in the table and it has told of them, or none is.
LEMMA StoreEnds ==
    ASSUME StoreInv, NEW t \in DbThreads, Storing(t), NEW rc \in Int, EndStore(t, rc),
           UNCHANGED <<told, bulk, fresh>>,
           loc' = IF rc < 0 THEN loc ELSE loc \o pend[t],
           rc < 0 \/ dpc[t] = "commit"
    PROVE  StoreInv'
<1>1. BatchIsOwn(t) /\ RowsAreTried(t) /\ fresh \in Nat
  BY DEF StoreInv, RowsAreNumbered
<1>2. /\ JobsAreSorted' /\ ~Storing(t)' /\ pend'[t] = <<>>
      /\ \A u \in DbThreads \ {t} : /\ dpc'[u] = dpc[u] /\ job'[u] = job[u]
                                    /\ row'[u] = row[u] /\ pend'[u] = pend[u]
  <2>1. ~Storing(t)' /\ pend'[t] = <<>>
    BY DEF EndStore, db_close, DbGoto, StoreInv, JobsAreSorted, Storing
  <2>2. JobsAreSorted'
    BY CloseSorts DEF EndStore, StoreInv
  <2>3. \A u \in DbThreads \ {t} : /\ dpc'[u] = dpc[u] /\ job'[u] = job[u]
                                   /\ row'[u] = row[u] /\ pend'[u] = pend[u]
    BY DEF EndStore, db_close, DbGoto, StoreInv, JobsAreSorted
  <2> QED BY <2>1, <2>2, <2>3
<1>3. /\ loc' \in Seq(1..(fresh - 1))
      /\ ToSet(loc)' \subseteq ToSet(loc) \cup (IF rc < 0 THEN {} ELSE Lines(t))
      /\ \A i, k \in DOMAIN loc' : loc'[i] = loc'[k] => i = k
  <2>1. /\ loc \in Seq(1..(fresh - 1)) /\ \A i, k \in DOMAIN loc : loc[i] = loc[k] => i = k
    BY DEF StoreInv, RowsAreNumbered
  <2>2. CASE rc < 0
    BY <2>1, <2>2 DEF ToSet
  <2>3. CASE ~(rc < 0)
    <3>1. ToSet(loc) \cap ToSet(pend[t]) = {}
      BY <1>1, InsertedAreOwn DEF BatchIsOwn
    <3>2. /\ loc \o pend[t] \in Seq(1..(fresh - 1))
          /\ ToSet(loc \o pend[t]) = ToSet(loc) \cup ToSet(pend[t])
          /\ \A i, k \in DOMAIN (loc \o pend[t]) : (loc \o pend[t])[i] = (loc \o pend[t])[k] => i = k
      <4> DEFINE S == 1..(fresh - 1)
      <4>1. /\ \A i, k \in DOMAIN loc : loc[i] = loc[k] => i = k
            /\ \A i, k \in DOMAIN pend[t] : pend[t][i] = pend[t][k] => i = k
        BY <2>1, InsertedAreOwn
      <4>2. loc \in Seq(S) /\ pend[t] \in Seq(S)
        BY <2>1, InsertedAreOwn
      <4> HIDE DEF S
      <4> DEFINE p == pend[t]
      <4>3. /\ ToSet(loc) \cap ToSet(p) = {} /\ p \in Seq(S) /\ loc \in Seq(S)
            /\ \A i, k \in DOMAIN loc : loc[i] = loc[k] => i = k
            /\ \A i, k \in DOMAIN p : p[i] = p[k] => i = k
        BY <3>1, <4>1, <4>2
      <4> HIDE DEF p
      <4>4. /\ loc \o p \in Seq(S) /\ ToSet(loc \o p) = ToSet(loc) \cup ToSet(p)
            /\ \A i, k \in DOMAIN (loc \o p) : (loc \o p)[i] = (loc \o p)[k] => i = k
        BY <4>3, RowsAdded
      <4> QED BY <4>4 DEF S, p
    <3>3. loc' = loc \o pend[t] /\ ToSet(loc)' = ToSet(loc \o pend[t])
      BY <2>3 DEF ToSet
    <3> QED BY <2>3, <3>2, <3>3, InsertedAreOwn
  <2> QED BY <2>2, <2>3
<1>4. /\ failed' = (IF rc < 0 THEN failed \cup Lines(t) ELSE failed)
      /\ stored' = (IF rc < 0 THEN stored ELSE stored \cup Lines(t))
  BY DEF EndStore
<1>5. ~(rc < 0) => Lines(t) \subseteq told \cup bulk
  <2> SUFFICES ASSUME dpc[t] = "commit" PROVE Lines(t) \subseteq told \cup bulk
    OBVIOUS
  <2>1. CASE job[t].cb
    <3>1. \A k \in DOMAIN job[t].lines : k < row[t]
      <4>1. DOMAIN job[t].lines = 1..Len(job[t].lines) /\ Len(job[t].lines) \in Nat
        BY <1>1, LenProperties DEF BatchIsOwn
      <4> QED BY <1>1, <4>1 DEF RowsAreTried
    <3> QED BY <1>1, <2>1, <3>1 DEF RowsAreTried, Lines, ToSet
  <2>2. CASE ~job[t].cb
    BY <1>1, <2>2 DEF RowsAreTried
  <2> QED BY <2>1, <2>2
<1>6. RowsAreNumbered'
  <2>1. Lines(t) \subseteq 1..(fresh - 1) /\ Lines(t) \cap (ToSet(loc) \cup failed \cup stored) = {}
    BY <1>1, InsertedAreOwn DEF BatchIsOwn
  <2>2. /\ failed' \cup stored' \subseteq 1..(fresh - 1)
        /\ ToSet(loc)' \cap failed' = {} /\ stored' \subseteq told' \cup bulk'
    BY <1>3, <1>4, <1>5, <2>1 DEF StoreInv, RowsAreNumbered
  <2>3. fresh' = fresh /\ fresh \in Nat \ {0}
    BY DEF StoreInv, RowsAreNumbered
  <2> QED BY <1>3, <2>2, <2>3 DEF RowsAreNumbered
<1>7. StoreStep(t)
  BY <1>1, <1>2, <1>3, <1>4 DEF StoreStep, Taken
<1> QED BY <1>2, <1>6, <1>7, OthersKeep DEF StoreInv

\* The ways a store ends.
LEMMA EndsKeep ==
    ASSUME StoreInv, NEW t \in DbThreads
    PROVE  /\ CannotPrepare(t) => StoreInv'
           /\ MalformedLine(t) => StoreInv'
           /\ Commit(t) => StoreInv'
<1> USE DEF rowVars
<1>1. CannotPrepare(t) => StoreInv'
  BY StoreEnds DEF CannotPrepare, Storing
<1>2. MalformedLine(t) => StoreInv'
  BY StoreEnds DEF MalformedLine, Storing
<1>3. ASSUME Commit(t) PROVE StoreInv'
  <2>1. Storing(t) /\ dpc[t] = "commit" /\ Len(job[t].lines) \in Nat
    <3>1. Storing(t) /\ dpc[t] = "commit"
      BY <1>3 DEF Commit, Storing
    <3> QED BY <3>1, LenProperties DEF StoreInv, BatchIsOwn
  <2>2. CASE loc' = loc \o pend[t] /\ EndStore(t, Len(job[t].lines))
    <3>1. ~(Len(job[t].lines) < 0) /\ Len(job[t].lines) \in Int
      BY <2>1
    <3>2. UNCHANGED <<told, bulk, fresh>>
      BY <1>3 DEF Commit
    <3> HIDE DEF StoreInv
    <3> QED BY <2>1, <2>2, <3>1, <3>2, StoreEnds
  <2>3. CASE EndStore(t, -1) /\ UNCHANGED loc
    BY <1>3, <2>1, <2>3, StoreEnds DEF Commit
  <2> QED BY <1>3, <2>2, <2>3 DEF Commit
<1> QED BY <1>1, <1>2, <1>3

-----------------------------------------------------------------------------
(* The theorem                                                             *)

\* The database of an earlier run is in order.
LEMMA StoreInitial ==
    ASSUME DbInit
    PROVE  StoreInv
<1>1. JobsAreSorted /\ \A t \in DbThreads : ~Storing(t) /\ pend[t] = <<>>
  BY DEF DbInit, JobsAreSorted, Storing
<1>2. RowsAreNumbered
  <2>1. loc = <<2, 1>> /\ DOMAIN loc = {1, 2} /\ loc[1] = 2 /\ loc[2] = 1 /\ fresh = 3
    BY DEF DbInit
  <2>2. loc \in Seq(1..2)
    BY <2>1
  <2> QED BY <2>1, <2>2 DEF DbInit, RowsAreNumbered
<1> QED BY <1>1, <1>2 DEF StoreInv

\* Nothing but these variables matters to the invariant.
LEMMA StoreFrame ==
    ASSUME StoreInv, UNCHANGED <<loc, pend, dpc, job, row, told, bulk, stored, failed, fresh>>
    PROVE  StoreInv'
<1>1. JobsAreSorted' /\ RowsAreNumbered'
  BY DEF StoreInv, JobsAreSorted, RowsAreNumbered, ToSet
<1>2. ASSUME NEW t \in DbThreads
      PROVE  /\ Storing(t)' = Storing(t) /\ Through(t)' = Through(t)
             /\ Lines(t)' = Lines(t) /\ ToSet(loc)' = ToSet(loc)
  BY DEF Storing, Through, Lines, ToSet
<1>3. ASSUME NEW t \in DbThreads, Storing(t)
      PROVE  BatchIsOwn(t)' /\ RowsAreTried(t)'
  <2>1. BatchIsOwn(t) /\ RowsAreTried(t)
    BY <1>3 DEF StoreInv
  <2>2. BatchIsOwn(t)'
    BY <1>2, <2>1 DEF BatchIsOwn
  <2>3. RowsAreTried(t)'
    BY <1>2, <2>1 DEF RowsAreTried
  <2> QED BY <2>2, <2>3
<1> QED BY <1>1, <1>2, <1>3 DEF StoreInv

\* Every step of the database keeps the invariant.
LEMMA StoreKept ==
    ASSUME StoreInv, [DbNext]_dbVars
    PROVE  StoreInv'
<1>1. CASE UNCHANGED dbVars
  <2>1. UNCHANGED <<loc, pend, dpc, job, row, told, bulk, stored, failed, fresh>>
    BY <1>1 DEF dbVars, rowVars, lockVars, pcVars, pastVars
  <2> QED BY <2>1, StoreFrame
<1>2. ASSUME NEW t \in DbThreads, DbStart(t)
      PROVE  StoreInv'
  <2>1. ASSUME NEW b \in Batches, StartStore(t, b, Len(b) = 1)
        PROVE  StoreInv'
    BY <2>1, StartKeeps
  <2>2. CASE \E b \in Batches : StartStore(t, b, Len(b) = 1)
    BY <2>1, <2>2
  <2>3. CASE Apart(t)
    BY <2>3, ApartKeeps
  <2> QED BY <1>2, <2>2, <2>3, DeletesApart, ListsApart, ExportsApart, NicksApart DEF DbStart
<1>3. ASSUME NEW t \in DbThreads, DbStep(t)
      PROVE  StoreInv'
  <2>1. CASE Apart(t)
    BY <2>1, ApartKeeps
  <2>2. CASE CannotPrepare(t) \/ MalformedLine(t) \/ InsertRow(t) \/ RowCallback(t) \/ Commit(t)
    BY <2>2, EndsKeep, InsertKeeps, CallbackKeeps
  <2> QED BY <1>3, <2>1, <2>2, DeletesApart, ListsApart, ExportsApart, NicksApart DEF DbStep
<1>4. ASSUME NEW o, db_set_sortorder(o)
      PROVE  StoreInv'
  BY <1>4, StoreFrame DEF db_set_sortorder, rowVars, lockVars, pastVars
<1> QED BY <1>1, <1>2, <1>3, <1>4 DEF DbNext

\* A sequence that repeats nothing has as many elements as places.
LEMMA CountDistinct ==
    ASSUME NEW S, NEW s \in Seq(S), \A i, k \in DOMAIN s : s[i] = s[k] => i = k
    PROVE  Cardinality(ToSet(s)) = Len(s)
<1>1. Len(s) \in Nat /\ DOMAIN s = 1..Len(s) /\ s \in [1..Len(s) -> S]
  BY LenProperties
<1>2. s \in Bijection(1..Len(s), ToSet(s))
  <2>1. s \in [1..Len(s) -> ToSet(s)]
    BY <1>1 DEF ToSet
  <2>2. \A x \in ToSet(s) : \E i \in 1..Len(s) : s[i] = x
    BY <1>1 DEF ToSet
  <2> QED BY <1>1, <2>1, <2>2 DEF Bijection, Injection, Surjection, IsInjective
<1>3. ExistsBijection(1..Len(s), ToSet(s))
  BY <1>2 DEF ExistsBijection
<1>4. IsFiniteSet(1..Len(s)) /\ Cardinality(1..Len(s)) = Len(s)
  BY <1>1, FS_Interval
<1> QED BY <1>3, <1>4, FS_Bijection

\* A store that fails leaves no row of its batch, a row that a tracker sent has had its
\* callback, and no report is in the table twice, for any number of threads that store, empty,
\* list and export at once (db_store_locations, db_empty_loc).
THEOREM HonestStores == DbSpec => []StoreIsHonest
<1>1. DbInit => StoreInv
  BY StoreInitial
<1>2. StoreInv /\ [DbNext]_dbVars => StoreInv'
  BY StoreKept
<1>3. StoreInv => StoreIsHonest
  <2> SUFFICES ASSUME StoreInv PROVE StoreIsHonest
    OBVIOUS
  <2>1. Cardinality(ToSet(loc)) = Len(loc)
    BY CountDistinct DEF StoreInv, RowsAreNumbered
  <2> QED BY <2>1 DEF StoreInv, RowsAreNumbered, StoreIsHonest
<1> QED BY <1>1, <1>2, <1>3, PTL DEF DbSpec

-----------------------------------------------------------------------------
(* The database: types                                                     *)

\* The types of the variables that StoreInv leaves aside: who holds a lock is a thread, counters
\* count, and flags are flags.
LocksTyped == reserved \in DbThreads \cup {Nobody} /\ reading \subseteq DbThreads
CountsTyped == num_cb \in Nat /\ max_num_cb \in Nat /\ nick_cb_cnt \in Nat /\ resSetLength \in Nat
FlagsTyped == table \in BOOLEAN /\ met \in BOOLEAN /\ corrupt \in BOOLEAN /\ sort_order \in {"arrival", "device"}

\* An operation that begins leaves the locks to the operation (db_setup), and one that ends gives
\* up its own (db_close).
LEMMA SetupTypes ==
    ASSUME FlagsTyped, NEW t \in DbThreads, NEW j, db_setup(t, j)
    PROVE  met' \in BOOLEAN
<1>1. met \in BOOLEAN /\ met' = (met \/ \E u \in DbThreads \ {t} : dpc[u] # "idle")
  BY DEF FlagsTyped, db_setup
<1> QED BY ONLY <1>1, Zenon

LEMMA CloseTypes ==
    ASSUME LocksTyped, NEW t \in DbThreads, NEW a, db_close(t, a)
    PROVE  LocksTyped'
<1>1. reserved' \in {reserved, Nobody} /\ reading' \subseteq reading
  BY DEF db_close
<1> QED BY <1>1 DEF LocksTyped

\* Starting an operation keeps the types: it may begin to read, and resets its counter.
LEMMA StartsTyped ==
    ASSUME LocksTyped, CountsTyped, FlagsTyped, NEW t \in DbThreads, DbStart(t)
    PROVE  LocksTyped' /\ CountsTyped' /\ FlagsTyped'
<1> DEFINE Begun == /\ reserved' = reserved /\ reading' \subseteq reading \cup {t}
                    /\ num_cb' \in Nat /\ max_num_cb' \in Nat /\ nick_cb_cnt' \in Nat /\ resSetLength' \in Nat
                    /\ UNCHANGED <<table, corrupt, sort_order>> /\ met' \in BOOLEAN
<1>0. num_cb \in Nat /\ max_num_cb \in Nat /\ nick_cb_cnt \in Nat /\ resSetLength \in Nat
  BY DEF CountsTyped
<1>1. ASSUME NEW b, NEW cb, StartStore(t, b, cb) PROVE Begun
  <2>1. met' \in BOOLEAN
    BY <1>1, SetupTypes DEF StartStore
  <2> QED BY <1>0, <1>1, <2>1 DEF StartStore, rowVars, lockVars, cbVars, nickVars, expVars
<1>2. ASSUME StartEmpty(t) PROVE Begun
  <2>1. met' \in BOOLEAN
    BY <1>2, SetupTypes DEF StartEmpty
  <2> QED BY <1>0, <1>2, <2>1 DEF StartEmpty, rowVars, lockVars, cbVars, nickVars, expVars
<1>3. ASSUME ExecSql(t) PROVE Begun
  <2>1. met' \in BOOLEAN
    BY <1>3, SetupTypes DEF ExecSql
  <2> QED BY <1>0, <1>3, <2>1 DEF ExecSql, rowVars, lockVars, cbVars, nickVars, expVars
<1>4. ASSUME NEW op, NEW head, NEW n \in Nat, db_loclist(t, op, head, n) PROVE Begun
  <2>1. met' \in BOOLEAN
    BY <1>4, SetupTypes DEF db_loclist
  <2>2. num_cb' = 0 /\ max_num_cb' = n /\ reserved' = reserved /\ UNCHANGED <<nick_cb_cnt, resSetLength, table, corrupt, sort_order>>
    BY <1>4 DEF db_loclist, rowVars, nickVars, expVars
  <2>3. reading' \subseteq reading \cup {t}
    BY <1>4 DEF db_loclist
  <2> QED BY <1>0, <2>1, <2>2, <2>3
<1>5. ASSUME NEW op, NEW range, NEW format, NEW file, export_to_internal_set(t, op, range, format, file)
      PROVE  Begun
  <2>1. met' \in BOOLEAN
    BY <1>5, SetupTypes DEF export_to_internal_set
  <2>2. /\ reserved' = reserved /\ resSetLength' \in {resSetLength, 0}
        /\ UNCHANGED <<num_cb, max_num_cb, nick_cb_cnt, table, corrupt, sort_order>>
    BY <1>5 DEF export_to_internal_set, rowVars, cbVars, nickVars, expVars
  <2>3. reading' \subseteq reading \cup {t}
    BY <1>5 DEF export_to_internal_set
  <2> QED BY <1>0, <2>1, <2>2, <2>3
<1>6. ASSUME NEW op, NEW by, NEW nick, NEW devid, NEW imei, SelectNick(t, op, by, nick, devid, imei)
      PROVE  Begun
  <2>1. met' \in BOOLEAN
    BY <1>6, SetupTypes DEF SelectNick
  <2>2. /\ reserved' = reserved /\ nick_cb_cnt' = 0 /\ reading' = reading \cup {t}
        /\ UNCHANGED <<num_cb, max_num_cb, resSetLength, table, corrupt, sort_order>>
    BY <1>6 DEF SelectNick, rowVars, cbVars, expVars
  <2> QED BY <1>0, <2>1, <2>2
<1>7. ASSUME NEW nick, db_delete_nick(t, nick) PROVE Begun
  <2>1. met' \in BOOLEAN
    BY <1>7, SetupTypes DEF db_delete_nick
  <2> QED BY <1>0, <1>7, <2>1 DEF db_delete_nick, rowVars, lockVars, cbVars, nickVars, expVars
<1>8. Begun
  <2>1. 1 \in Nat /\ 3 \in Nat
    OBVIOUS
  <2> HIDE DEF Begun
  <2>2. CASE \/ \E b \in Batches : StartStore(t, b, Len(b) = 1)
             \/ StartEmpty(t) \/ ExecSql(t)
             \/ \E n \in 1..2 : db_delete_nick(t, n)
    BY <1>1, <1>2, <1>3, <1>7, <2>2
  <2>3. CASE \/ \E head \in BOOLEAN, n \in {1, 3} : db_loclist(t, "list", head, n)
             \/ db_loclist(t, "mailloc", TRUE, 1)
    BY <1>4, <2>1, <2>3
  <2>4. CASE \E op, range, format, file : export_to_internal_set(t, op, range, format, file)
    BY <1>5, <2>4
  <2>5. CASE \E op, by, nick, devid, imei : SelectNick(t, op, by, nick, devid, imei)
    BY <1>6, <2>5
  <2> QED BY <2>2, <2>3, <2>4, <2>5, ZenonT(60) DEF DbStart
<1> QED BY <1>8 DEF LocksTyped, CountsTyped, FlagsTyped

\* So do the steps of a store and of deleting.
LEMMA StoresTyped ==
    ASSUME LocksTyped, CountsTyped, FlagsTyped, NEW t \in DbThreads,
           \/ CannotPrepare(t) \/ MalformedLine(t) \/ InsertRow(t) \/ RowCallback(t) \/ Commit(t)
           \/ DropTable(t) \/ Vacuum(t) \/ CreateTable(t) \/ EndExecSql(t) \/ EndDelete(t)
    PROVE  LocksTyped' /\ CountsTyped' /\ FlagsTyped'
<1>1. UNCHANGED <<num_cb, max_num_cb, nick_cb_cnt, resSetLength, met, corrupt, sort_order>> /\ table' \in {table, TRUE, FALSE}
  BY DEF CannotPrepare, MalformedLine, InsertRow, RowCallback, Commit, DropTable, Vacuum, CreateTable, EndExecSql,
         EndDelete, pastVars, rowVars, cbVars, nickVars, expVars
<1>2. \/ reserved' \in {reserved, t} /\ reading' = reading
      \/ \E a : db_close(t, a)
  <2>1. CASE CannotPrepare(t) \/ MalformedLine(t) \/ InsertRow(t) \/ RowCallback(t) \/ Commit(t)
    BY <2>1 DEF CannotPrepare, MalformedLine, InsertRow, RowCallback, Commit, EndStore, lockVars
  <2>2. CASE DropTable(t) \/ Vacuum(t) \/ CreateTable(t) \/ EndExecSql(t) \/ EndDelete(t)
    BY <2>2 DEF DropTable, Vacuum, CreateTable, EndExecSql, EndDelete, lockVars
  <2> QED BY <2>1, <2>2
<1>3. LocksTyped'
  BY <1>2, CloseTypes DEF LocksTyped
<1> QED BY <1>1, <1>3 DEF CountsTyped, FlagsTyped

\* And those of lists, exports and mails, which may use memory that is not theirs.
LEMMA ReadersTyped ==
    ASSUME LocksTyped, CountsTyped, FlagsTyped, NEW t \in DbThreads,
           \/ sql_reslist_callback(t) \/ EndSelect(t) \/ ListError(t) \/ ShowList(t) \/ mail_lastloc(t)
           \/ sqres_export_callback(t) \/ EndFill(t) \/ exportdb_to_external_format(t) \/ db_calc_distance(t)
           \/ free_internal_set(t) \/ Compress(t) \/ mail_as_attachment(t)
           \/ update_nick_callback(t) \/ EndNicks(t) \/ db_update_nick(t) \/ db_get_nick(t) \/ db_get_nick_list(t)
    PROVE  LocksTyped' /\ CountsTyped' /\ FlagsTyped'
<1>1. UNCHANGED <<table, met, sort_order>>
  <2>1. CASE sql_reslist_callback(t) \/ EndSelect(t) \/ ListError(t) \/ ShowList(t) \/ mail_lastloc(t)
    BY <2>1 DEF sql_reslist_callback, EndSelect, ListError, ShowList, mail_lastloc, rowVars
  <2>2. CASE \/ sqres_export_callback(t) \/ EndFill(t) \/ exportdb_to_external_format(t) \/ db_calc_distance(t)
             \/ free_internal_set(t) \/ Compress(t) \/ mail_as_attachment(t)
    BY <2>2 DEF sqres_export_callback, EndFill, exportdb_to_external_format, db_calc_distance, free_internal_set,
                Compress, mail_as_attachment, rowVars
  <2>3. CASE update_nick_callback(t) \/ EndNicks(t) \/ db_update_nick(t) \/ db_get_nick(t) \/ db_get_nick_list(t)
    BY <2>3 DEF update_nick_callback, EndNicks, db_update_nick, db_get_nick, db_get_nick_list, rowVars
  <2> QED BY <2>1, <2>2, <2>3
<1>2. \/ reserved' = reserved /\ reading' \subseteq reading
      \/ \E a : db_close(t, a)
  <2>1. CASE sql_reslist_callback(t) \/ EndSelect(t) \/ ListError(t) \/ ShowList(t) \/ mail_lastloc(t)
    BY <2>1 DEF sql_reslist_callback, EndSelect, ListError, ShowList, mail_lastloc
  <2>2. CASE \/ sqres_export_callback(t) \/ EndFill(t) \/ exportdb_to_external_format(t) \/ db_calc_distance(t)
             \/ free_internal_set(t) \/ Compress(t) \/ mail_as_attachment(t)
    BY <2>2 DEF sqres_export_callback, EndFill, exportdb_to_external_format, db_calc_distance, free_internal_set,
                Compress, mail_as_attachment, lockVars
  <2>3. CASE update_nick_callback(t) \/ EndNicks(t) \/ db_update_nick(t) \/ db_get_nick(t) \/ db_get_nick_list(t)
    BY <2>3 DEF update_nick_callback, EndNicks, db_update_nick, db_get_nick, db_get_nick_list, lockVars
  <2> QED BY <2>1, <2>2, <2>3
<1>3. LocksTyped'
  BY <1>2, CloseTypes DEF LocksTyped
<1>4. /\ num_cb' \in {num_cb, num_cb + 1} /\ max_num_cb' = max_num_cb
      /\ nick_cb_cnt' \in {nick_cb_cnt, nick_cb_cnt + 1} /\ resSetLength' \in {resSetLength, resSetLength + 1}
  <2>1. CASE sql_reslist_callback(t) \/ EndSelect(t) \/ ListError(t) \/ ShowList(t) \/ mail_lastloc(t)
    BY <2>1 DEF sql_reslist_callback, EndSelect, ListError, ShowList, mail_lastloc, cbVars, nickVars, expVars
  <2>2. CASE \/ sqres_export_callback(t) \/ EndFill(t) \/ exportdb_to_external_format(t) \/ db_calc_distance(t)
             \/ free_internal_set(t) \/ Compress(t) \/ mail_as_attachment(t)
    BY <2>2 DEF sqres_export_callback, EndFill, exportdb_to_external_format, db_calc_distance, free_internal_set,
                Compress, mail_as_attachment, cbVars, nickVars, expVars
  <2>3. CASE update_nick_callback(t) \/ EndNicks(t) \/ db_update_nick(t) \/ db_get_nick(t) \/ db_get_nick_list(t)
    BY <2>3 DEF update_nick_callback, EndNicks, db_update_nick, db_get_nick, db_get_nick_list, cbVars, nickVars, expVars
  <2> QED BY <2>1, <2>2, <2>3
<1>5. CountsTyped'
  BY <1>4 DEF CountsTyped
<1>6. corrupt' \in BOOLEAN
  <2>1. corrupt \in BOOLEAN
    BY DEF FlagsTyped
  <2>2. CASE \/ sql_reslist_callback(t) \/ EndSelect(t) \/ ListError(t) \/ ShowList(t) \/ sqres_export_callback(t)
             \/ EndFill(t) \/ free_internal_set(t) \/ Compress(t) \/ mail_as_attachment(t)
             \/ update_nick_callback(t) \/ EndNicks(t) \/ db_update_nick(t) \/ db_get_nick(t) \/ db_get_nick_list(t)
    <3>1. corrupt' = corrupt \/ corrupt' = TRUE
      BY <2>2 DEF sql_reslist_callback, EndSelect, ListError, ShowList, sqres_export_callback, EndFill, free_internal_set,
                  Compress, mail_as_attachment, update_nick_callback, EndNicks, db_update_nick, db_get_nick,
                  db_get_nick_list
    <3> QED BY ONLY <2>1, <3>1, Zenon
  <2>3. CASE mail_lastloc(t)
    <3>1. corrupt' = (corrupt \/ got[t][1] = 0)
      BY <2>3 DEF mail_lastloc
    <3> QED BY ONLY <2>1, <3>1, Zenon
  <2>4. CASE exportdb_to_external_format(t)
    <3>1. corrupt' = corrupt \/ corrupt' = (corrupt \/ resSetLength > 0)
      BY <2>4, Zenon DEF exportdb_to_external_format
    <3> QED BY ONLY <2>1, <3>1, Zenon
  <2>5. CASE db_calc_distance(t)
    <3>1. corrupt' = (corrupt \/ (g7loc_list = Null /\ resSetLength > 1))
      BY <2>5 DEF db_calc_distance
    <3> QED BY ONLY <2>1, <3>1, Zenon
  <2> QED BY <2>2, <2>3, <2>4, <2>5
<1> QED BY <1>1, <1>3, <1>5, <1>6 DEF FlagsTyped

\* Every step keeps the types.
LEMMA DbTypesKept ==
    ASSUME LocksTyped, CountsTyped, FlagsTyped, [DbNext]_dbVars
    PROVE  LocksTyped' /\ CountsTyped' /\ FlagsTyped'
<1>1. CASE UNCHANGED dbVars
  BY <1>1 DEF dbVars, rowVars, lockVars, cbVars, nickVars, expVars, LocksTyped, CountsTyped, FlagsTyped
<1>2. ASSUME NEW t \in DbThreads, DbStart(t) PROVE LocksTyped' /\ CountsTyped' /\ FlagsTyped'
  BY <1>2, StartsTyped
<1>3. ASSUME NEW t \in DbThreads, DbStep(t) PROVE LocksTyped' /\ CountsTyped' /\ FlagsTyped'
  BY <1>3, StoresTyped, ReadersTyped DEF DbStep
<1>4. ASSUME NEW o \in {"arrival", "device"}, db_set_sortorder(o) PROVE LocksTyped' /\ CountsTyped' /\ FlagsTyped'
  BY <1>4 DEF db_set_sortorder, rowVars, lockVars, cbVars, nickVars, expVars, LocksTyped, CountsTyped, FlagsTyped
<1> QED BY <1>1, <1>2, <1>3, <1>4 DEF DbNext

\* Every variable of the database keeps its type: a lock belongs to a thread or to nobody, and the
\* counters that all threads share never become negative (dbcmd.c, nicks.c, export.c).
THEOREM DatabaseTypes == DbSpec => []DbTypeOK
<1> DEFINE DbInv == StoreInv /\ LocksTyped /\ CountsTyped /\ FlagsTyped
<1>1. DbInit => DbInv
  <2> SUFFICES ASSUME DbInit PROVE LocksTyped /\ CountsTyped /\ FlagsTyped
    BY StoreInitial
  <2> QED BY DEF DbInit, LocksTyped, CountsTyped, FlagsTyped
<1>2. DbInv /\ [DbNext]_dbVars => DbInv'
  BY StoreKept, DbTypesKept
<1>3. DbInv => DbTypeOK
  <2> SUFFICES ASSUME StoreInv, LocksTyped, CountsTyped, FlagsTyped PROVE DbTypeOK
    OBVIOUS
  <2>1. {loc[i] : i \in DOMAIN loc} \subseteq Nat
    BY DEF StoreInv, RowsAreNumbered
  <2> QED BY <2>1 DEF LocksTyped, CountsTyped, FlagsTyped, DbTypeOK
<1> QED BY <1>1, <1>2, <1>3, PTL DEF DbSpec

-----------------------------------------------------------------------------
(* One operation at a time: what a list and an export show.                *)

\* Rows in their order or turned.
Turned(turn, s)  == IF turn THEN Reverse(s) ELSE s
\* At most the first n of them.
FirstRows(s, n) == SubSeq(s, 1, IF n < Len(s) THEN n ELSE Len(s))

\* What a list of n rows gets of the rows in ascending order.
ListGot(asc, n, head)  == FirstRows(Turned(head, asc), n)
\* What it shows of them.
ListOut(asc, n, head) == Turned(~head, ListGot(asc, n, head))

\* The first rows of a table that is sorted, turned so that the newest comes first: as many as
\* were asked for, or all; in order; and the rest is older, or newer when it is a tail.
LEMMA RowsShown ==
    ASSUME NEW asc \in Seq(Nat), NEW age, NEW n \in Nat \ {0}, NEW head \in BOOLEAN,
           \A i \in DOMAIN asc : age[asc[i]] \in Nat,
           \A i, k \in DOMAIN asc : i < k => age[asc[i]] < age[asc[k]]
    PROVE  /\ Len(ListGot(asc, n, head)) = (IF n < Len(asc) THEN n ELSE Len(asc))
           /\ ListGot(asc, n, head) \in Seq(ToSet(asc))
           /\ Len(ListOut(asc, n, head)) # n => ToSet(ListOut(asc, n, head)) = ToSet(asc)
           /\ Len(ListOut(asc, n, head)) = (IF n < Len(asc) THEN n ELSE Len(asc))
           /\ \A i, k \in DOMAIN ListOut(asc, n, head) :
                i < k => age[ListOut(asc, n, head)[i]] > age[ListOut(asc, n, head)[k]]
           /\ \A x \in ToSet(asc) \ ToSet(ListOut(asc, n, head)) : \A i \in DOMAIN ListOut(asc, n, head) :
                (age[x] < age[ListOut(asc, n, head)[i]]) = head
<1>00. PICK sel, out : sel = ListGot(asc, n, head) /\ out = ListOut(asc, n, head)
  OBVIOUS
<1>0. PICK s, m : /\ s = IF head THEN Reverse(asc) ELSE asc
                  /\ m = IF n < Len(s) THEN n ELSE Len(s)
                  /\ sel = SubSeq(s, 1, m)
                  /\ out = IF head THEN sel ELSE Reverse(sel)
  BY <1>00 DEF Turned, FirstRows, ListGot, ListOut
<1>1. PICK L \in Nat : L = Len(asc) /\ DOMAIN asc = 1..L
  OBVIOUS
<1>2. s \in Seq(Nat) /\ Len(s) = L /\ \A i \in 1..L : s[i] = IF head THEN asc[L + 1 - i] ELSE asc[i]
  <2>1. CASE head
    <3>1. s = [i \in 1..L |-> asc[(L - i) + 1]]
      BY ONLY <1>0, <1>1, <2>1 DEF Reverse
    <3>2. \A i \in 1..L : (L - i) + 1 = L + 1 - i /\ L + 1 - i \in 1..L
      BY <1>1
    <3>3. \A i \in 1..L : s[i] = asc[L + 1 - i] /\ s[i] \in Nat
      <4>1. ASSUME NEW i \in 1..L PROVE s[i] = asc[L + 1 - i] /\ s[i] \in Nat
        <5>1. s[i] = asc[(L - i) + 1]
          BY ONLY <3>1, i \in 1..L
        <5>2. asc[L + 1 - i] \in Nat
          BY ONLY <1>1, <3>2, asc \in Seq(Nat), i \in 1..L
        <5> QED BY ONLY <3>2, <5>1, <5>2, i \in 1..L
      <4> QED BY ONLY <4>1
    <3>4. s \in Seq(Nat) /\ Len(s) = L
      <4>1. s \in [1..L -> Nat]
        BY ONLY <3>1, <3>3
      <4> QED BY ONLY <4>1, L \in Nat
    <3> QED BY <2>1, <3>3, <3>4
  <2>2. CASE ~head
    BY <1>0, <1>1, <2>2
  <2> QED BY <2>1, <2>2
<1>3. m \in 0..L /\ (m = n \/ (m = L /\ L < n)) /\ m = IF n < L THEN n ELSE L
  BY ONLY <1>0, <1>1, <1>2, L \in Nat, n \in Nat \ {0}
<1>4. sel \in Seq(Nat) /\ Len(sel) = m /\ DOMAIN sel = 1..m /\ \A i \in 1..m : sel[i] = s[i]
  <2>1. \A i \in 1..m : i \in 1..L
    BY ONLY <1>1, <1>3
  <2>2. s \in Seq(Nat) /\ Len(s) = L /\ L \in Nat /\ m \in 0..L
    BY ONLY <1>1, <1>2, <1>3
  <2>3. SubSeq(s, 1, m) \in Seq(Nat) /\ Len(SubSeq(s, 1, m)) = m /\ \A i \in 1..m : SubSeq(s, 1, m)[i] = s[i]
    BY ONLY <2>2
  <2>4. DOMAIN SubSeq(s, 1, m) = 1..m
    BY ONLY <2>3
  <2> QED BY ONLY <2>3, <2>4, <1>0
<1>5. Len(out) = m /\ DOMAIN out = 1..m /\ \A i \in 1..m : out[i] = IF head THEN asc[L + 1 - i] ELSE asc[m + 1 - i]
  <2>1. CASE head
    BY ONLY <1>0, <1>2, <1>3, <1>4, <2>1
  <2>2. CASE ~head
    <3>1. out = [i \in 1..m |-> sel[(m - i) + 1]]
      BY ONLY <1>0, <1>4, <2>2 DEF Reverse
    <3>2. \A i \in 1..m : (m - i) + 1 = m + 1 - i /\ m + 1 - i \in 1..m /\ m + 1 - i \in 1..L
      BY <1>1, <1>3
    <3>3. \A i \in 1..m : out[i] = asc[m + 1 - i]
      <4>1. ASSUME NEW i \in 1..m PROVE out[i] = asc[m + 1 - i]
        <5>1. out[i] = sel[m + 1 - i]
          BY ONLY <3>1, <3>2, i \in 1..m
        <5>2. sel[m + 1 - i] = s[m + 1 - i]
          BY ONLY <1>4, <3>2, i \in 1..m
        <5>3. s[m + 1 - i] = asc[m + 1 - i]
          BY ONLY <1>2, <2>2, <3>2, i \in 1..m
        <5> QED BY ONLY <5>1, <5>2, <5>3
      <4> QED BY ONLY <4>1
    <3>4. Len(out) = m /\ DOMAIN out = 1..m
      BY <1>3, <3>1
    <3> QED BY <2>2, <3>3, <3>4
  <2> QED BY <2>1, <2>2
<1>6. PICK c \in Nat : /\ c = IF head THEN L + 1 ELSE m + 1
                       /\ \A i \in 1..m : out[i] = asc[c - i] /\ c - i \in 1..L
  <2>1. CASE head
    <3>1. \A i \in 1..m : (L + 1) - i \in 1..L
      BY ONLY <1>1, <1>3
    <3>2. \A i \in 1..m : out[i] = asc[(L + 1) - i]
      BY ONLY <1>5, <2>1
    <3>3. L + 1 \in Nat
      BY ONLY <1>1
    <3> QED BY ONLY <2>1, <3>1, <3>2, <3>3
  <2>2. CASE ~head
    <3>1. \A i \in 1..m : (m + 1) - i \in 1..L
      BY ONLY <1>1, <1>3
    <3>2. \A i \in 1..m : out[i] = asc[(m + 1) - i]
      BY ONLY <1>5, <2>2
    <3>3. m + 1 \in Nat
      BY ONLY <1>1, <1>3
    <3> QED BY ONLY <2>2, <3>1, <3>2, <3>3
  <2> QED BY <2>1, <2>2
<1>7. \A i, k \in DOMAIN out : i < k => age[out[i]] > age[out[k]]
  <2> SUFFICES ASSUME NEW i \in DOMAIN out, NEW k \in DOMAIN out, i < k PROVE age[out[i]] > age[out[k]]
    OBVIOUS
  <2>0. i \in 1..m /\ k \in 1..m
    BY <1>5
  <2>1. c - k < c - i /\ c - k \in 1..L /\ c - i \in 1..L /\ out[i] = asc[c - i] /\ out[k] = asc[c - k]
    <3>1. c - k \in 1..L /\ c - i \in 1..L /\ out[i] = asc[c - i] /\ out[k] = asc[c - k]
      BY ONLY <1>6, <2>0
    <3>2. c - k < c - i
      BY ONLY <1>3, <2>0, c \in Nat, i < k, L \in Nat
    <3> QED BY ONLY <3>1, <3>2
  <2>2. age[asc[c - k]] < age[asc[c - i]] /\ age[asc[c - k]] \in Nat /\ age[asc[c - i]] \in Nat
    BY <1>1, <2>1
  <2> QED BY <2>1, <2>2
<1>8. ASSUME NEW x \in ToSet(asc) \ ToSet(out), NEW i \in DOMAIN out PROVE (age[x] < age[out[i]]) = head
  <2>1. PICK k \in 1..L : x = asc[k]
    BY <1>1 DEF ToSet
  <2>2. \A j \in 1..m : out[j] # asc[k]
    BY <1>5, <2>1 DEF ToSet
  <2>3. ~(c - k \in 1..m)
    <3>1. ASSUME c - k \in 1..m PROVE FALSE
      <4>1. c - (c - k) = k
        BY <1>1
      <4>2. out[c - k] = asc[c - (c - k)]
        BY <1>6, <3>1
      <4> QED BY <2>2, <3>1, <4>1, <4>2
    <3> QED BY <3>1
  <2>4. i \in 1..m /\ out[i] = asc[c - i] /\ c - i \in 1..L
    BY <1>5, <1>6
  <2>5. IF head THEN k < c - i ELSE c - i < k
    <3>1. CASE head
      <4>1. c = L + 1
        BY <1>6, <3>1
      <4>2. k < c - i
        BY ONLY <1>1, <1>3, <2>3, <2>4, <4>1, k \in 1..L
      <4> QED BY ONLY <3>1, <4>2
    <3>2. CASE ~head
      <4>1. c = m + 1
        BY <1>6, <3>2
      <4>2. c - i < k
        BY ONLY <1>1, <1>3, <2>3, <2>4, <4>1, k \in 1..L
      <4> QED BY ONLY <3>2, <4>2
    <3> QED BY <3>1, <3>2
  <2>6. age[asc[k]] \in Nat /\ age[asc[c - i]] \in Nat
    BY <1>1, <2>4
  <2>7. CASE head
    <3>1. age[asc[k]] < age[asc[c - i]]
      BY <1>1, <2>4, <2>5, <2>7
    <3> QED BY ONLY <2>1, <2>4, <2>7, <3>1, Zenon
  <2>8. CASE ~head
    <3>1. age[asc[c - i]] < age[asc[k]]
      BY <1>1, <2>4, <2>5, <2>8
    <3>2. ~(age[asc[k]] < age[asc[c - i]])
      BY <2>6, <3>1
    <3>3. ~(age[x] < age[out[i]])
      BY ONLY <2>1, <2>4, <3>2, Zenon
    <3> QED BY ONLY <2>8, <3>3, head \in BOOLEAN
  <2> QED BY <2>7, <2>8
<1>9. Len(out) = n \/ (Len(out) < n /\ ToSet(out) = ToSet(asc))
  <2> SUFFICES ASSUME m = L, L < n PROVE ToSet(out) = ToSet(asc)
    BY <1>3, <1>5
  <2>1. c = L + 1
    BY <1>6
  <2>2. \A k \in 1..L : c - k \in 1..m /\ out[c - k] = asc[k]
    <3> SUFFICES ASSUME NEW k \in 1..L PROVE c - k \in 1..m /\ out[c - k] = asc[k]
      OBVIOUS
    <3>1. c - k \in 1..m /\ c - (c - k) = k
      BY <1>1, <2>1
    <3> QED BY <1>6, <3>1
  <2>3. \A i \in 1..m : out[i] \in ToSet(asc)
    BY <1>1, <1>6 DEF ToSet
  <2>4. \A k \in 1..L : asc[k] \in ToSet(out)
    BY <1>5, <2>2 DEF ToSet
  <2>5. ToSet(out) = {out[i] : i \in 1..m} /\ ToSet(asc) = {asc[k] : k \in 1..L}
    BY ONLY <1>1, <1>5 DEF ToSet
  <2> QED BY ONLY <2>3, <2>4, <2>5
<1>10. sel \in Seq(ToSet(asc))
  <2>1. \A i \in 1..m : sel[i] \in ToSet(asc)
    <3> SUFFICES ASSUME NEW i \in 1..m PROVE sel[i] \in ToSet(asc)
      OBVIOUS
    <3>1. i \in 1..L /\ L + 1 - i \in 1..L
      BY <1>3
    <3>2. s[i] \in {asc[i], asc[L + 1 - i]}
      BY <1>2, <3>1
    <3> QED BY <1>1, <1>4, <3>1, <3>2 DEF ToSet
  <2> QED BY <1>4, <2>1
<1> QED BY ONLY <1>00, <1>1, <1>3, <1>4, <1>5, <1>7, <1>8, <1>9, <1>10

\* The table, oldest report first.
Asc == IF sort_order = "arrival" THEN loc ELSE Ranked(ToSet(loc))

\* The rows of the table are numbers, each is there once, and sorting keeps them.
LEMMA AscHas ==
    ASSUME StoreInv
    PROVE  /\ Asc \in Seq(Nat \ {0}) /\ Len(Asc) = Len(loc) /\ ToSet(Asc) = ToSet(loc)
           /\ \A i \in DOMAIN Asc : Age(Asc[i]) \in Nat
           /\ \A i, k \in DOMAIN Asc : i < k => Age(Asc[i]) < Age(Asc[k])
<1>1. loc \in Seq(Nat \ {0}) /\ \A i, k \in DOMAIN loc : loc[i] = loc[k] => i = k
  <2>1. loc \in Seq(1..(fresh - 1)) /\ fresh \in Nat \ {0}
    BY DEF StoreInv, RowsAreNumbered
  <2>2. \A i \in 1..Len(loc) : loc[i] \in Nat \ {0}
    BY <2>1
  <2>3. loc \in Seq(Nat \ {0})
    BY <2>1, <2>2
  <2> QED BY <2>3 DEF StoreInv, RowsAreNumbered
<1>2. PICK L \in Nat : L = Len(loc) /\ DOMAIN loc = 1..L
  BY <1>1
<1>3. CASE sort_order = "arrival"
  <2>1. Asc = loc
    BY <1>3 DEF Asc
  <2>2. \A i \in DOMAIN loc : Age(loc[i]) = i
    BY <1>1, <1>3 DEF Age
  <2>3. \A i, k \in DOMAIN loc : i < k => Age(loc[i]) < Age(loc[k])
    BY <2>2
  <2>4. \A i \in DOMAIN loc : Age(loc[i]) \in Nat
    BY <1>2, <2>2
  <2> QED BY <1>1, <2>1, <2>3, <2>4
<1>4. CASE sort_order # "arrival"
  <2>1. PICK K : K = ToSet(loc)
    OBVIOUS
  <2>2. K \in SUBSET (Nat \ {0}) /\ K \in SUBSET Nat
    BY <1>1, <2>1 DEF ToSet
  <2>3. IsFiniteSet(K) /\ Cardinality(K) = L
    <3>1. K = {loc[i] : i \in 1..L} /\ IsFiniteSet(1..L)
      BY <1>2, <2>1, FS_Interval DEF ToSet
    <3>2. IsFiniteSet(K)
      <4>1. loc \in Surjection(1..L, K)
        BY ONLY <1>1, <1>2, <3>1 DEF Surjection
      <4> QED BY ONLY <3>1, <4>1, FS_Surjection, Zenon
    <3> QED BY <1>1, <1>2, <2>1, <3>2, CountDistinct
  <2>4. PICK r : r = Ranked(K)
    OBVIOUS
  <2>5. /\ r \in [1..L -> K]
        /\ \A i \in K : \E j \in 1..L : r[j] = i
        /\ \A j, k \in 1..L : j < k => r[j] < r[k]
    BY ONLY <2>2, <2>3, <2>4, RankedHas, Zenon
  <2>7. r \in Seq(Nat \ {0}) /\ Len(r) = L
    <3>1. r \in [1..L -> Nat \ {0}]
      BY ONLY <2>2, <2>5
    <3> QED BY ONLY <3>1, L \in Nat
  <2>8. Asc = r /\ \A n : Age(n) = n
    BY <1>4, <2>1, <2>4 DEF Asc, Age
  <2>9. ToSet(r) = K
    BY <2>5 DEF ToSet
  <2>10. \A i \in 1..L : r[i] \in Nat
    BY <2>2, <2>5
  <2>11. /\ \A i \in DOMAIN r : Age(r[i]) \in Nat
         /\ \A i, k \in DOMAIN r : i < k => Age(r[i]) < Age(r[k])
    BY ONLY <2>5, <2>8, <2>10
  <2> QED BY <1>2, <2>1, <2>7, <2>8, <2>9, <2>11
<1> QED BY <1>3, <1>4

\* The rows that a list asks for.
RowsFor(j) == ListGot(Asc, j.n, j.head)

\* They are there, unless the table is empty, and showing them answers right (db head, db tail).
LEMMA ListShown ==
    ASSUME StoreInv, NEW j, j.n \in Nat \ {0}, j.head \in BOOLEAN
    PROVE  /\ RowsFor(j) \in Seq(Nat \ {0}) /\ Len(RowsFor(j)) <= j.n
           /\ RowsFor(j) = <<>> => loc = <<>>
           /\ RowsFor(j) # <<>> => ListIsRight(j, IF j.head THEN RowsFor(j) ELSE Reverse(RowsFor(j)))
<1>1. PICK asc : asc = Asc
  OBVIOUS
<1>2. /\ asc \in Seq(Nat \ {0}) /\ Len(asc) = Len(loc) /\ ToSet(asc) = ToSet(loc) /\ Len(loc) \in Nat /\ loc \in Seq(Nat)
      /\ \A i \in DOMAIN asc : Age(asc[i]) \in Nat
      /\ \A i, k \in DOMAIN asc : i < k => Age(asc[i]) < Age(asc[k])
  <2>1. loc \in Seq(1..(fresh - 1)) /\ fresh \in Nat \ {0}
    BY DEF StoreInv, RowsAreNumbered
  <2>2. Len(loc) \in Nat /\ loc \in Seq(Nat)
    <3>1. \A i \in 1..Len(loc) : loc[i] \in Nat
      BY ONLY <2>1
    <3> QED BY ONLY <2>1, <3>1
  <2> QED BY ONLY <1>1, <2>2, AscHas, StoreInv
<1>3. PICK head \in BOOLEAN, n \in Nat \ {0} : head = j.head /\ n = j.n
  OBVIOUS
<1>4. PICK sel : sel = ListGot(asc, n, head)
  OBVIOUS
<1>5. RowsFor(j) = sel
  BY ONLY <1>1, <1>3, <1>4 DEF RowsFor
<1>6. PICK age : age = [x \in ToSet(loc) |-> Age(x)]
  OBVIOUS
<1>7. \A i \in DOMAIN asc : asc[i] \in ToSet(loc) /\ age[asc[i]] = Age(asc[i])
  <2>1. \A i \in DOMAIN asc : asc[i] \in ToSet(loc)
    BY <1>2 DEF ToSet
  <2> QED BY ONLY <1>6, <2>1
<1>8. PICK out : out = ListOut(asc, n, head) /\ out = Turned(~head, sel)
  BY <1>4 DEF ListOut
<1>9. asc \in Seq(Nat)
  <2>1. \A i \in 1..Len(asc) : asc[i] \in Nat
    BY <1>2
  <2> QED BY <1>2, <2>1
<1>10. /\ \A i \in DOMAIN asc : age[asc[i]] \in Nat
       /\ \A i, k \in DOMAIN asc : i < k => age[asc[i]] < age[asc[k]]
  BY ONLY <1>2, <1>7
<1>11. /\ Len(sel) = (IF n < Len(asc) THEN n ELSE Len(asc)) /\ sel \in Seq(ToSet(asc))
       /\ Len(out) = n \/ (Len(out) < n /\ ToSet(out) = ToSet(asc))
       /\ \A i, k \in DOMAIN out : i < k => age[out[i]] > age[out[k]]
       /\ \A x \in ToSet(asc) \ ToSet(out) : \A i \in DOMAIN out : (age[x] < age[out[i]]) = head
  <2>1. head \in BOOLEAN /\ n \in Nat \ {0}
    OBVIOUS
  <2>2. Len(ListGot(asc, n, head)) = (IF n < Len(asc) THEN n ELSE Len(asc)) /\ ListGot(asc, n, head) \in Seq(ToSet(asc))
    BY ONLY <1>9, <1>10, <2>1, RowsShown
  <2>3. Len(ListOut(asc, n, head)) # n => ToSet(ListOut(asc, n, head)) = ToSet(asc)
    BY ONLY <1>9, <1>10, <2>1, RowsShown
  <2>6. Len(ListOut(asc, n, head)) = (IF n < Len(asc) THEN n ELSE Len(asc))
    BY ONLY <1>9, <1>10, <2>1, RowsShown
  <2>7. Len(asc) \in Nat
    BY ONLY <1>9
  <2>4. \A i, k \in DOMAIN ListOut(asc, n, head) :
          i < k => age[ListOut(asc, n, head)[i]] > age[ListOut(asc, n, head)[k]]
    BY ONLY <1>9, <1>10, <2>1, RowsShown
  <2>5. \A x \in ToSet(asc) \ ToSet(ListOut(asc, n, head)) : \A i \in DOMAIN ListOut(asc, n, head) :
          (age[x] < age[ListOut(asc, n, head)[i]]) = head
    BY ONLY <1>9, <1>10, <2>1, RowsShown
  <2> QED BY ONLY <1>4, <1>8, <2>1, <2>2, <2>3, <2>4, <2>5, <2>6, <2>7
<1>12. sel \in Seq(Nat \ {0}) /\ Len(sel) <= n /\ (sel = <<>> => loc = <<>>)
  <2>1. ToSet(asc) \subseteq Nat \ {0}
    BY <1>2 DEF ToSet
  <2>2. \A i \in 1..Len(sel) : sel[i] \in Nat \ {0}
    BY <1>11, <2>1
  <2>3. sel \in Seq(Nat \ {0})
    BY <1>11, <2>2
  <2>5. Len(sel) <= n /\ (Len(sel) = 0 => Len(loc) = 0)
    BY ONLY <1>2, <1>11, n \in Nat \ {0}
  <2>6. Len(loc) = 0 => loc = <<>>
    BY ONLY <1>2
  <2> QED BY ONLY <1>11, <2>3, <2>5, <2>6
<1>13. ASSUME sel # <<>> PROVE ListIsRight(j, out)
  <2>1. loc # <<>>
    <3>1. ASSUME loc = <<>> PROVE FALSE
      <4>1. Len(asc) = 0
        BY <1>2, <3>1
      <4>3. Len(sel) = 0
        BY ONLY <1>11, <4>1, n \in Nat \ {0}
      <4> QED BY ONLY <1>12, <1>13, <4>3
    <3> QED BY <3>1
  <2>2. \A i \in DOMAIN out : out[i] \in ToSet(loc)
    <3>1. \A i \in 1..Len(sel) : sel[i] \in ToSet(loc)
      BY ONLY <1>2, <1>11
    <3>2. Len(sel) \in Nat /\ DOMAIN sel = 1..Len(sel)
      BY ONLY <1>11
    <3>3. CASE head
      BY ONLY <1>8, <3>1, <3>2, <3>3 DEF Turned
    <3>4. CASE ~head
      <4>1. out = [i \in 1..Len(sel) |-> sel[(Len(sel) - i) + 1]]
        BY ONLY <1>8, <3>4 DEF Turned, Reverse
      <4>2. \A i \in 1..Len(sel) : (Len(sel) - i) + 1 \in 1..Len(sel)
        BY ONLY <3>2
      <4> QED BY ONLY <3>1, <4>1, <4>2
    <3> QED BY <3>3, <3>4
  <2>3. \A x \in ToSet(loc) : age[x] = Age(x)
    BY ONLY <1>6
  <2>4. \A i, k \in DOMAIN out : i < k => Age(out[i]) > Age(out[k])
    BY ONLY <1>11, <2>2, <2>3
  <2>5. \A x \in ToSet(loc) \ ToSet(out) : \A i \in DOMAIN out : (Age(x) < Age(out[i])) = head
    <3>1. \A x \in ToSet(loc) \ ToSet(out) : \A i \in DOMAIN out : (age[x] < age[out[i]]) = head
      BY ONLY <1>2, <1>11
    <3> QED BY ONLY <2>2, <2>3, <3>1
  <2>6. Len(out) = n \/ (Len(out) < n /\ ToSet(out) = ToSet(loc))
    BY ONLY <1>2, <1>11
  <2> QED BY ONLY <1>3, <2>1, <2>4, <2>5, <2>6 DEF ListIsRight
<1>14. (IF head THEN sel ELSE Reverse(sel)) = out
  BY ONLY <1>8, head \in BOOLEAN DEF Turned
<1> QED BY ONLY <1>3, <1>5, <1>12, <1>13, <1>14

\* The rows of an export are those of its range in the order of arrival, and all of them are the
\* table itself.
LEMMA ExportHas ==
    ASSUME StoreInv, NEW t \in DbThreads
    PROVE  /\ InRange(t) \in Seq(Nat) /\ Len(InRange(t)) <= Len(loc)
           /\ ToSet(InRange(t)) = {n \in ToSet(loc) : job[t].range = "all" \/ n % 2 = 1}
           /\ \A i, k \in DOMAIN InRange(t) :
                i < k => \E a, b \in DOMAIN loc : a < b /\ loc[a] = InRange(t)[i] /\ loc[b] = InRange(t)[k]
           /\ job[t].range = "all" => InRange(t) = loc
<1>1. PICK K \in SUBSET DOMAIN loc : K = {i \in DOMAIN loc : job[t].range = "all" \/ loc[i] % 2 = 1}
  OBVIOUS
<1>2. loc \in Seq(Nat) /\ Len(loc) \in Nat /\ DOMAIN loc = 1..Len(loc)
  <2>1. loc \in Seq(1..(fresh - 1)) /\ fresh \in Nat \ {0}
    BY DEF StoreInv, RowsAreNumbered
  <2>2. \A i \in 1..Len(loc) : loc[i] \in Nat
    BY <2>1
  <2> QED BY <2>1, <2>2
<1>3. PICK r : r = InRange(t)
  OBVIOUS
<1>4. r = Kept(loc, K)
  BY <1>1, <1>3 DEF InRange
<1>5. /\ r \in Seq(Nat) /\ DOMAIN r = 1..Cardinality(K) /\ Len(r) = Cardinality(K) /\ Cardinality(K) \in Nat
      /\ \A i \in K : \E j \in DOMAIN r : r[j] = loc[i]
      /\ \A j \in DOMAIN r : \E i \in K : r[j] = loc[i]
      /\ \A j, k \in DOMAIN r : j < k => \E a, b \in K : a < b /\ r[j] = loc[a] /\ r[k] = loc[b]
  <2>1. loc \in Seq(Nat) /\ K \in SUBSET DOMAIN loc
    BY <1>2
  <2>2. /\ Kept(loc, K) \in Seq(Nat) /\ DOMAIN Kept(loc, K) = 1..Cardinality(K)
        /\ Len(Kept(loc, K)) = Cardinality(K) /\ Cardinality(K) \in Nat
    <3>1. Kept(loc, K) \in Seq(Nat) /\ DOMAIN Kept(loc, K) = 1..Cardinality(K)
      BY ONLY <2>1, KeptHas, Zenon
    <3>2. Len(Kept(loc, K)) = Cardinality(K) /\ Cardinality(K) \in Nat
      BY ONLY <2>1, KeptHas, Zenon
    <3> QED BY ONLY <3>1, <3>2
  <2>3. \A i \in K : \E j \in DOMAIN Kept(loc, K) : Kept(loc, K)[j] = loc[i]
    BY ONLY <2>1, KeptHas, ZenonT(60)
  <2>4. \A j \in DOMAIN Kept(loc, K) : \E i \in K : Kept(loc, K)[j] = loc[i]
    BY ONLY <2>1, KeptHas, ZenonT(60)
  <2>5. \A j, k \in DOMAIN Kept(loc, K) :
          j < k => \E a, b \in K : a < b /\ Kept(loc, K)[j] = loc[a] /\ Kept(loc, K)[k] = loc[b]
    BY ONLY <2>1, KeptHas, ZenonT(60)
  <2> QED BY ONLY <1>4, <2>2, <2>3, <2>4, <2>5
<1>6. Cardinality(K) <= Len(loc)
  <2>1. K \subseteq 1..Len(loc)
    BY ONLY <1>1, <1>2
  <2>2. IsFiniteSet(1..Len(loc)) /\ Cardinality(1..Len(loc)) = Len(loc)
    <3>1. PICK n \in Nat : n = Len(loc)
      BY ONLY <1>2
    <3>2. Cardinality(1..n) = n /\ IsFiniteSet(1..n)
      BY ONLY n \in Nat, FS_Interval
    <3> QED BY ONLY <3>1, <3>2
  <2> QED BY ONLY <2>1, <2>2, FS_Subset
<1>7. ToSet(r) = {n \in ToSet(loc) : job[t].range = "all" \/ n % 2 = 1}
  <2>1. ASSUME NEW n \in ToSet(r) PROVE n \in ToSet(loc) /\ (job[t].range = "all" \/ n % 2 = 1)
    <3>1. PICK j \in DOMAIN r : n = r[j]
      BY DEF ToSet
    <3>2. PICK i \in K : n = loc[i]
      BY ONLY <1>5, <3>1
    <3> QED BY ONLY <1>1, <3>2 DEF ToSet
  <2>2. ASSUME NEW n \in ToSet(loc), job[t].range = "all" \/ n % 2 = 1 PROVE n \in ToSet(r)
    <3>1. PICK i \in DOMAIN loc : n = loc[i]
      BY DEF ToSet
    <3>2. i \in K
      BY ONLY <1>1, <2>2, <3>1
    <3>3. PICK j \in DOMAIN r : r[j] = loc[i]
      BY ONLY <1>5, <3>2
    <3> QED BY ONLY <3>1, <3>3 DEF ToSet
  <2> QED BY ONLY <2>1, <2>2
<1>8. \A i, k \in DOMAIN r : i < k => \E a, b \in DOMAIN loc : a < b /\ loc[a] = r[i] /\ loc[b] = r[k]
  <2> SUFFICES ASSUME NEW i \in DOMAIN r, NEW k \in DOMAIN r, i < k
               PROVE \E a, b \in DOMAIN loc : a < b /\ loc[a] = r[i] /\ loc[b] = r[k]
    OBVIOUS
  <2>1. PICK a \in K, b \in K : a < b /\ r[i] = loc[a] /\ r[k] = loc[b]
    BY <1>5
  <2>2. a \in DOMAIN loc /\ b \in DOMAIN loc
    BY ONLY K \in SUBSET DOMAIN loc, a \in K, b \in K
  <2> QED BY <2>1, <2>2
<1>9. ASSUME job[t].range = "all" PROVE r = loc
  <2>1. K = DOMAIN loc
    BY ONLY <1>1, <1>9
  <2> QED BY ONLY <1>2, <1>4, <2>1, KeptAll
<1> QED BY ONLY <1>3, <1>5, <1>6, <1>7, <1>8, <1>9

-----------------------------------------------------------------------------
(* One operation at a time: the invariant.                                 *)

\* The operation that a thread works at, by its step.
OpFits(t) ==
    /\ dpc[t] \in {"row", "callback", "commit"} => job[t].op = "store"
    /\ dpc[t] \in {"drop", "vacuum", "create"} => job[t].op = "empty"
    /\ dpc[t] = "exec" => job[t].op = "exec"
    /\ dpc[t] \in {"select", "nolist", "show"} => job[t].op \in {"list", "mailloc"}
    /\ dpc[t] \in {"fill", "file", "free"} => job[t].op \in {"export", "dist", "mail"}
    /\ dpc[t] \in {"compress", "attach"} => job[t].op = "mail"
    /\ dpc[t] = "nicks" => job[t].op \in {"update", "get"}
    /\ dpc[t] = "update" => job[t].op = "update"
    /\ dpc[t] = "nickname" => job[t].op = "get"
    /\ dpc[t] = "delete" => job[t].op = "delete"

\* One operation at most is under way, and locks are held for it alone; while it is under way,
\* nothing has been answered.
OneAtATime ==
    /\ \A t, u \in DbThreads : dpc[t] # "idle" /\ dpc[u] # "idle" => t = u
    /\ reserved # Nobody => reserved \in DbThreads /\ dpc[reserved] # "idle"
    /\ \A t \in reading : t \in DbThreads /\ dpc[t] # "idle"
    /\ \A t \in DbThreads : dpc[t] # "idle" => answer = NoAnswer

\* The table exists but between the steps of db_empty_loc, and what was stored is in it.
TableIsThere ==
    /\ (\A t \in DbThreads : dpc[t] \notin {"vacuum", "create"}) => table
    /\ stored \subseteq ToSet(loc) \cup emptied /\ IsFiniteSet(emptied)
    /\ corrupt => Cardinality(ToSet(loc) \cup emptied) > ChunkSize

\* A device has at most one entry among the nicknames.
NicksAreUnique ==
    /\ nicktab \in Seq(ToSet(nicktab))
    /\ \A i, k \in DOMAIN nicktab : nicktab[i].imei = nicktab[k].imei => i = k

\* What was answered last is right for the table as it is.
AnswerIsRight ==
    /\ answer.job.op = "list" => ListIsRight(answer.job, answer.out)
    /\ answer.job.op = "export" /\ ~corrupt => ExportIsRight(answer.job, answer.out)
    /\ answer.job.op = "mail" /\ ~corrupt => answer.out \in {loc, <<-1>>}

\* A store has inserted every line that it has tried.
StoreGoes(t) ==
    /\ dpc[t] # "refused"
    /\ dpc[t] \in {"row", "callback", "commit"} => \A k \in 1..Through(t) : job[t].lines[k] \in ToSet(pend[t])

\* A list has the rows that its counter says.
ListGoes(t) ==
    /\ dpc[t] \in {"select", "show"} =>
         /\ job[t].n \in Nat \ {0} /\ job[t].head \in BOOLEAN
         /\ got[t] \in Seq(Nat) /\ Len(got[t]) = job[t].n
         /\ num_cb \in 0..Len(Selected(t)) /\ \A i \in 1..num_cb : got[t][i] = Selected(t)[i]
    /\ dpc[t] = "select" => row[t] \in Nat \ {0} /\ num_cb = row[t] - 1 /\ max_num_cb = job[t].n
    /\ dpc[t] = "show" => num_cb = Len(Selected(t)) /\ num_cb # 0
    /\ dpc[t] = "nolist" => loc = <<>>

\* The formats that have a writer.
Formats == {"xml", "gpx", "kml", "csv", "json"}
\* An export has the rows of its range, as long as they fit.
ExportGoes(t) ==
    /\ dpc[t] \in {"fill", "file"} => job[t].range \in {"all", "device"}
    /\ dpc[t] \in {"fill", "file"} /\ job[t].op = "export" => job[t].format \in Formats \cup {"unknown"}
    /\ dpc[t] = "fill" /\ ~corrupt => /\ row[t] \in Nat \ {0} /\ resSetLength = row[t] - 1
                                      /\ resSetLength \in 0..ChunkSize /\ resSetLength <= Len(InRange(t))
                                      /\ g7loc_list = SubSeq(InRange(t), 1, resSetLength)
    /\ dpc[t] = "file" /\ ~corrupt => g7loc_list = InRange(t) /\ resSetLength = Len(InRange(t))
    /\ dpc[t] \in {"fill", "file", "free"} /\ job[t].op = "mail" =>
         job[t].range = "all" /\ job[t].format = "gpx" /\ job[t].file = "tmp"
    /\ dpc[t] = "free" /\ job[t].op = "export" /\ ~corrupt =>
         ExportIsRight(job[t], IF job[t].range = "wrong" THEN <<-1>> ELSE got[t])
    /\ dpc[t] = "free" /\ job[t].op = "mail" /\ ~corrupt => tmpfile = loc
    /\ dpc[t] = "compress" /\ ~corrupt => tmpfile = loc
    /\ dpc[t] = "attach" /\ ~corrupt => gzfile = loc

\* A query for nicknames has counted the rows it got.
NicksGo(t) ==
    /\ dpc[t] \in {"nicks", "update"} /\ job[t].op = "update" => job[t].by = "imei"
    /\ dpc[t] = "nicks" => nick_cb_cnt = row[t] - 1 /\ row[t] \in Nat \ {0}
    /\ dpc[t] = "update" /\ nick_cb_cnt = 0 => NickRows(job[t]) = <<>>

\* A thread's operation is where its data say.
Goes(t) == OpFits(t) /\ StoreGoes(t) /\ ListGoes(t) /\ ExportGoes(t) /\ NicksGo(t)

\* What holds as long as no two operations have overlapped.
Solo == OneAtATime /\ TableIsThere /\ NicksAreUnique /\ AnswerIsRight /\ \A t \in DbThreads : Goes(t)

\* The inductive invariant behind AloneIsExact, together with StoreInv.
SoloInv == got = [t \in DbThreads |-> got[t]] /\ (~met => Solo)

\* An operation that is under way has the database for itself.
LEMMA SoloAt ==
    ASSUME Solo, NEW t \in DbThreads, dpc[t] # "idle"
    PROVE  /\ \A u \in DbThreads : dpc[u] # "idle" => u = t
           /\ ~Busy(t) /\ CanWrite(t) /\ answer = NoAnswer
           /\ dpc[t] \notin {"vacuum", "create"} => table
           /\ Goes(t)
<1>1. \A u \in DbThreads : dpc[u] # "idle" => u = t
  BY DEF Solo, OneAtATime
<1>2. reserved \in {Nobody, t} /\ reading \subseteq {t} /\ answer = NoAnswer
  BY <1>1 DEF Solo, OneAtATime
<1>3. ASSUME dpc[t] \notin {"vacuum", "create"} PROVE table
  <2>1. \A u \in DbThreads : dpc[u] \notin {"vacuum", "create"}
    BY <1>1, <1>3
  <2> QED BY <2>1 DEF Solo, TableIsThere
<1> QED BY <1>1, <1>2, <1>3 DEF Solo, Busy, CanWrite

\* A thread that does nothing has nothing to keep.
LEMMA IdleGoes ==
    ASSUME NEW u \in DbThreads, dpc[u] = "idle"
    PROVE  Goes(u)
BY DEF Goes, OpFits, StoreGoes, ListGoes, ExportGoes, NicksGo

\* The table, and the nicknames, when nothing is said of them.
LEMMA TableSame ==
    ASSUME TableIsThere, table, UNCHANGED <<loc, table, stored, emptied>>, corrupt' => corrupt
    PROVE  TableIsThere'
BY DEF TableIsThere, ToSet

\* So for the nicknames.
LEMMA NicksSame ==
    ASSUME NicksAreUnique, UNCHANGED nicktab
    PROVE  NicksAreUnique'
BY DEF NicksAreUnique, ToSet

\* An operation goes on.
LEMMA SoloGoesOn ==
    ASSUME Solo, NEW t \in DbThreads, dpc[t] # "idle", dpc'[t] # "idle",
           \A u \in DbThreads \ {t} : dpc'[u] = dpc[u],
           reserved' \in {reserved, t}, reading' \subseteq reading \cup {t}, answer' = answer,
           TableIsThere', NicksAreUnique', Goes(t)'
    PROVE  Solo'
<1>1. \A u \in DbThreads \ {t} : dpc'[u] = "idle"
  BY SoloAt
<1>2. answer' = NoAnswer /\ reserved \in {Nobody, t} /\ reading \subseteq {t}
  BY SoloAt DEF CanWrite, Busy
<1>3. OneAtATime'
  BY <1>1, <1>2 DEF OneAtATime
<1>4. AnswerIsRight'
  BY <1>2 DEF AnswerIsRight, NoAnswer, Idle
<1>5. ASSUME NEW u \in DbThreads PROVE Goes(u)'
  <2>1. CASE u = t
    BY <2>1
  <2>2. CASE u # t
    <3>1. dpc'[u] = "idle"
      BY <1>1, <2>2
    <3> QED BY <3>1 DEF Goes, OpFits, StoreGoes, ListGoes, ExportGoes, NicksGo
  <2> QED BY <2>1, <2>2
<1> QED BY <1>3, <1>4, <1>5 DEF Solo

\* An operation ends.
LEMMA SoloEnds ==
    ASSUME Solo, JobsAreSorted, NEW t \in DbThreads, dpc[t] # "idle", NEW a, db_close(t, a),
           TableIsThere', NicksAreUnique', AnswerIsRight'
    PROVE  Solo'
<1>1. \A u \in DbThreads : dpc'[u] = "idle"
  BY SoloAt DEF db_close, DbGoto, JobsAreSorted
<1>2. reserved \in {Nobody, t} /\ reading \subseteq {t}
  BY SoloAt DEF CanWrite, Busy
<1>3. reserved' = Nobody /\ reading' = {}
  BY <1>2 DEF db_close
<1>4. OneAtATime'
  BY <1>1, <1>3 DEF OneAtATime
<1>5. ASSUME NEW u \in DbThreads PROVE Goes(u)'
  BY <1>1 DEF Goes, OpFits, StoreGoes, ListGoes, ExportGoes, NicksGo
<1> QED BY <1>4, <1>5 DEF Solo

\* An operation begins, and no other is under way.
LEMMA SoloBegins ==
    ASSUME NEW t \in DbThreads, NEW j, db_setup(t, j), ~met'
    PROVE  ~met /\ \A u \in DbThreads : dpc[u] = "idle"
<1>1. met' = (met \/ \E u \in DbThreads \ {t} : dpc[u] # "idle") /\ dpc[t] = "idle"
  BY DEF db_setup
<1>2. ~met /\ ~ \E u \in DbThreads \ {t} : dpc[u] # "idle"
  BY ONLY <1>1, ~met', Zenon
<1> QED BY <1>1, <1>2

\* Its first step leaves the rows as they are.
LEMMA SoloStarts ==
    ASSUME Solo, JobsAreSorted, NEW t \in DbThreads, NEW j, db_setup(t, j), ~met', NEW l, DbGoto(t, l), l # "idle",
           reserved' = reserved, reading' \subseteq reading \cup {t},
           UNCHANGED <<loc, table, nicktab, stored, emptied, corrupt>>,
           table => Goes(t)'
    PROVE  Solo'
<1>1. \A u \in DbThreads : dpc[u] = "idle"
  BY SoloBegins
<1>2. dpc' = [dpc EXCEPT ![t] = l] /\ answer' = NoAnswer
  BY DEF DbGoto, db_setup
<1>3. dpc'[t] = l /\ \A u \in DbThreads \ {t} : dpc'[u] = "idle"
  BY <1>1, <1>2 DEF JobsAreSorted
<1>4. reserved = Nobody /\ reading = {}
  BY <1>1 DEF Solo, OneAtATime
<1>5. OneAtATime'
  BY <1>2, <1>3, <1>4 DEF OneAtATime
<1>6. table
  BY <1>1 DEF Solo, TableIsThere
<1>7. TableIsThere' /\ NicksAreUnique'
  BY <1>6, TableSame, NicksSame DEF Solo
<1>8. AnswerIsRight'
  BY <1>2 DEF AnswerIsRight, NoAnswer, Idle
<1>9. ASSUME NEW u \in DbThreads PROVE Goes(u)'
  <2>1. CASE u = t
    BY <1>6, <2>1
  <2>2. CASE u # t
    <3>1. dpc'[u] = "idle"
      BY <1>3, <2>2
    <3> QED BY <3>1 DEF Goes, OpFits, StoreGoes, ListGoes, ExportGoes, NicksGo
  <2> QED BY <2>1, <2>2
<1> QED BY <1>5, <1>7, <1>8, <1>9 DEF Solo

-----------------------------------------------------------------------------
(* One operation at a time: storing and deleting.                          *)

\* The table has finitely many rows, and more rows are no fewer.
LEMMA NumbersAreFinite ==
    ASSUME NEW n \in Nat \ {0}, NEW s \in Seq(1..(n - 1))
    PROVE  IsFiniteSet(ToSet(s))
<1>1. ToSet(s) \subseteq 1..(n - 1)
  BY DEF ToSet
<1>2. IsFiniteSet(1..(n - 1))
  BY FS_Interval
<1> QED BY <1>1, <1>2, FS_Subset

\* The table has as many reports as rows.
LEMMA RowsAreFinite ==
    ASSUME StoreInv
    PROVE  IsFiniteSet(ToSet(loc)) /\ Cardinality(ToSet(loc)) = Len(loc) /\ Len(loc) \in Nat
<1>1. loc \in Seq(1..(fresh - 1)) /\ fresh \in Nat \ {0} /\ \A i, k \in DOMAIN loc : loc[i] = loc[k] => i = k
  BY DEF StoreInv, RowsAreNumbered
<1>2. Cardinality(ToSet(loc)) = Len(loc)
  BY <1>1, CountDistinct
<1> QED BY <1>1, <1>2, NumbersAreFinite

\* A larger set has no fewer elements.
LEMMA ManyRows ==
    ASSUME NEW S, NEW T, IsFiniteSet(T), S \subseteq T, Cardinality(S) > ChunkSize
    PROVE  Cardinality(T) > ChunkSize
<1>1. IsFiniteSet(S) /\ Cardinality(S) <= Cardinality(T)
  BY FS_Subset
<1>2. Cardinality(S) \in Nat /\ Cardinality(T) \in Nat
  BY <1>1, FS_CardinalityType
<1> QED BY <1>1, <1>2, DbAssumption

\* An answer that is no list, no export and no mail.
LEMMA OtherAnswer ==
    ASSUME NEW t \in DbThreads, NEW a, db_close(t, a), job[t].op \notin {"list", "export", "mail"}
    PROVE  AnswerIsRight'
<1>1. answer' = [job |-> job[t], out |-> a]
  BY DEF db_close
<1>2. answer'.job = job[t]
  BY <1>1
<1> QED BY <1>2 DEF AnswerIsRight

\* An operation ends with such an answer and leaves the rows alone.
LEMMA QuietEnd ==
    ASSUME Solo, JobsAreSorted, NEW t \in DbThreads, dpc[t] \notin {"idle", "vacuum", "create"}, NEW a, db_close(t, a),
           job[t].op \notin {"list", "export", "mail"}, UNCHANGED <<loc, table, stored, emptied>>,
           corrupt' => corrupt, NicksAreUnique'
    PROVE  Solo'
<1>1. table /\ TableIsThere
  BY SoloAt DEF Solo
<1>2. TableIsThere'
  BY <1>1, TableSame
<1> QED BY <1>2, OtherAnswer, SoloEnds

\* A store: what it has tried is inserted, since nobody else writes.
LEMMA StartStoreSolo ==
    ASSUME StoreInv, Solo, ~met', NEW t \in DbThreads, NEW b, NEW cb, StartStore(t, b, cb)
    PROVE  Solo'
<1>1. PICK j : j = [op |-> "store", lines |-> b, cb |-> cb]
  OBVIOUS
<1>2. db_setup(t, j) /\ row' = [row EXCEPT ![t] = 1] /\ DbGoto(t, IF table THEN "row" ELSE "refused")
  BY <1>1 DEF StartStore
<1>3. reserved' = reserved /\ reading' = reading /\ UNCHANGED <<loc, table, nicktab, stored, emptied, corrupt>>
  BY DEF StartStore, rowVars, lockVars
<1>4. dpc'[t] = (IF table THEN "row" ELSE "refused") /\ job'[t] = j /\ row'[t] = 1
  BY <1>2 DEF db_setup, DbGoto, StoreInv, JobsAreSorted
<1>5. ASSUME table PROVE Goes(t)'
  <2>1. dpc'[t] = "row" /\ job'[t].op = "store" /\ Through(t)' = 0
    BY <1>1, <1>4, <1>5 DEF Through
  <2> QED BY <2>1 DEF Goes, OpFits, StoreGoes, ListGoes, ExportGoes, NicksGo
<1>6. JobsAreSorted
  BY DEF StoreInv
<1>7. PICK l : l = (IF table THEN "row" ELSE "refused") /\ l # "idle"
  OBVIOUS
<1>8. DbGoto(t, l)
  BY <1>2, <1>7
<1> QED BY ONLY <1>2, <1>3, <1>5, <1>6, <1>7, <1>8, Solo, ~met', t \in DbThreads, SoloStarts

\* A line that is no report: the store ends, and the table is as it was.
LEMMA MalformedSolo ==
    ASSUME StoreInv, Solo, NEW t \in DbThreads, CannotPrepare(t) \/ MalformedLine(t)
    PROVE  Solo'
<1>1. dpc[t] # "idle"
  BY DEF CannotPrepare, MalformedLine
<1>2. Goes(t)
  BY <1>1, SoloAt
<1>3. MalformedLine(t)
  BY <1>2 DEF CannotPrepare, Goes, StoreGoes
<1>4. dpc[t] = "row" /\ db_close(t, <<-1>>) /\ UNCHANGED <<loc, table, nicktab, stored, emptied, corrupt>>
  BY <1>3 DEF MalformedLine, EndStore, rowVars
<1>5. job[t].op = "store" /\ JobsAreSorted /\ NicksAreUnique'
  BY <1>2, <1>4, NicksSame DEF Goes, OpFits, StoreInv, Solo
<1> QED BY <1>4, <1>5, QuietEnd

\* A row is inserted: nobody else has a lock, so it is among the rows to commit.
LEMMA InsertSolo ==
    ASSUME StoreInv, Solo, NEW t \in DbThreads, InsertRow(t)
    PROVE  Solo'
<1>1. dpc[t] = "row" /\ dpc' = [dpc EXCEPT ![t] = "callback"] /\ job' = job /\ row' = row /\ answer' = answer
  BY DEF InsertRow, DbGoto
<1>2. table /\ ~Busy(t) /\ Goes(t)
  BY <1>1, SoloAt
<1>3. reserved' = t /\ pend' = [pend EXCEPT ![t] = Append(@, job[t].lines[row[t]])]
  BY <1>2 DEF InsertRow
<1>4. UNCHANGED <<loc, table, nicktab, reading, stored, emptied, corrupt>>
  BY DEF InsertRow, rowVars, pastVars
<1>5. dpc'[t] = "callback" /\ \A u \in DbThreads \ {t} : dpc'[u] = dpc[u]
  BY <1>1 DEF StoreInv, JobsAreSorted
<1>6. /\ pend \in [DbThreads -> Seq(Nat)] /\ row[t] \in Nat \ {0} /\ row[t] <= Len(job[t].lines)
      /\ job[t].lines \in Seq(0..(fresh - 1)) /\ fresh \in Nat \ {0}
  BY <1>1 DEF StoreInv, JobsAreSorted, Storing, RowsAreTried, BatchIsOwn, RowsAreNumbered
<1>7. PICK x \in Nat : x = job[t].lines[row[t]]
  <2>1. row[t] \in 1..Len(job[t].lines)
    BY <1>6
  <2> QED BY <1>6, <2>1
<1>8. pend'[t] = Append(pend[t], x) /\ pend[t] \in Seq(Nat)
  BY <1>3, <1>6, <1>7
<1>9. ToSet(pend'[t]) = ToSet(pend[t]) \cup {x}
  BY <1>8, UsbAppend
<1>10. \A k \in 1..(row[t] - 1) : job[t].lines[k] \in ToSet(pend[t])
  BY <1>1, <1>2 DEF Goes, StoreGoes, Through
<1>11. \A k \in 1..row[t] : job[t].lines[k] \in ToSet(pend'[t])
  <2> SUFFICES ASSUME NEW k \in 1..row[t] PROVE job[t].lines[k] \in ToSet(pend'[t])
    OBVIOUS
  <2>1. k = row[t] \/ k \in 1..(row[t] - 1)
    BY <1>6
  <2> QED BY <1>7, <1>9, <1>10, <2>1
<1>12. Through(t)' = row[t]
  BY <1>1, <1>5 DEF Through
<1>13. StoreGoes(t)'
  BY <1>1, <1>5, <1>11, <1>12 DEF StoreGoes
<1>14. job'[t].op = "store"
  BY <1>1, <1>2 DEF Goes, OpFits
<1>15. Goes(t)'
  BY <1>5, <1>13, <1>14 DEF Goes, OpFits, ListGoes, ExportGoes, NicksGo
<1>16. TableIsThere' /\ NicksAreUnique'
  BY <1>2, <1>4, TableSame, NicksSame DEF Solo
<1> QED BY <1>1, <1>3, <1>4, <1>5, <1>15, <1>16, SoloGoesOn

\* After its callback the next line is tried.
LEMMA CallbackSolo ==
    ASSUME StoreInv, Solo, NEW t \in DbThreads, RowCallback(t)
    PROVE  Solo'
<1>1. /\ dpc[t] = "callback" /\ job' = job /\ answer' = answer /\ row' = [row EXCEPT ![t] = @ + 1]
      /\ dpc' = [dpc EXCEPT ![t] = IF row[t] < Len(job[t].lines) THEN "row" ELSE "commit"]
      /\ UNCHANGED <<loc, table, nicktab, reserved, reading, pend, stored, emptied, corrupt>>
  BY DEF RowCallback, DbGoto, rowVars, lockVars
<1>2. table /\ Goes(t)
  BY <1>1, SoloAt
<1>3. row[t] \in Nat \ {0}
  BY <1>1 DEF StoreInv, Storing, RowsAreTried
<1>4. dpc'[t] \in {"row", "commit"} /\ row'[t] = row[t] + 1 /\ \A u \in DbThreads \ {t} : dpc'[u] = dpc[u]
  BY <1>1 DEF StoreInv, JobsAreSorted
<1>5. \A k \in 1..row[t] : job[t].lines[k] \in ToSet(pend[t])
  BY <1>1, <1>2 DEF Goes, StoreGoes, Through
<1>6. Through(t)' = row[t]
  BY <1>3, <1>4 DEF Through
<1>7. StoreGoes(t)'
  BY <1>1, <1>4, <1>5, <1>6 DEF StoreGoes, ToSet
<1>8. job'[t].op = "store"
  BY <1>1, <1>2 DEF Goes, OpFits
<1>9. Goes(t)'
  BY <1>4, <1>7, <1>8 DEF Goes, OpFits, ListGoes, ExportGoes, NicksGo
<1>10. TableIsThere' /\ NicksAreUnique'
  BY <1>1, <1>2, TableSame, NicksSame DEF Solo
<1> QED BY <1>1, <1>4, <1>9, <1>10, SoloGoesOn

\* COMMIT puts every report of the batch into the table.
LEMMA CommitSolo ==
    ASSUME StoreInv, StoreInv', Solo, NEW t \in DbThreads, Commit(t)
    PROVE  Solo'
<1>1. dpc[t] = "commit"
  BY DEF Commit
<1>2. table /\ CanWrite(t) /\ Goes(t)
  BY <1>1, SoloAt
<1>3. /\ loc' = loc \o pend[t] /\ EndStore(t, Len(job[t].lines))
      /\ UNCHANGED <<table, nicktab, emptied, corrupt>>
  BY <1>2 DEF Commit
<1>4. /\ pend[t] \in Seq(Nat) /\ job[t].lines \in Seq(0..(fresh - 1)) /\ row[t] = Len(job[t].lines) + 1
      /\ loc \in Seq(1..(fresh - 1)) /\ fresh \in Nat \ {0}
  BY <1>1 DEF StoreInv, JobsAreSorted, Storing, RowsAreTried, BatchIsOwn, RowsAreNumbered
<1>5. Len(job[t].lines) \in Nat /\ DOMAIN job[t].lines = 1..Len(job[t].lines)
  BY <1>4
<1>6. db_close(t, <<Len(job[t].lines)>>) /\ stored' = stored \cup Lines(t)
  BY <1>3, <1>5 DEF EndStore
<1>7. Lines(t) \subseteq ToSet(pend[t])
  <2>1. \A k \in 1..Len(job[t].lines) : job[t].lines[k] \in ToSet(pend[t])
    <3>1. \A k \in 1..(row[t] - 1) : job[t].lines[k] \in ToSet(pend[t])
      BY <1>1, <1>2 DEF Goes, StoreGoes, Through
    <3>2. row[t] - 1 = Len(job[t].lines)
      BY <1>4, <1>5
    <3> QED BY <3>1, <3>2
  <2> QED BY <1>5, <2>1 DEF Lines, ToSet
<1>8. ToSet(loc') = ToSet(loc) \cup ToSet(pend[t])
  <2>1. loc \in Seq(Nat)
    <3>1. \A i \in 1..Len(loc) : loc[i] \in Nat
      BY <1>4
    <3> QED BY <1>4, <3>1
  <2> QED BY <1>3, <1>4, <2>1, UsbConcat
<1>9. TableIsThere'
  <2>1. table' /\ emptied' = emptied /\ corrupt' = corrupt
    BY <1>2, <1>3
  <2>2. stored \subseteq ToSet(loc) \cup emptied /\ IsFiniteSet(emptied)
    BY DEF Solo, TableIsThere
  <2>3. IsFiniteSet(ToSet(loc')) /\ IsFiniteSet(ToSet(loc') \cup emptied)
    <3>1. loc' \in Seq(1..(fresh' - 1)) /\ fresh' \in Nat \ {0}
      BY DEF StoreInv, RowsAreNumbered
    <3>2. IsFiniteSet(ToSet(loc'))
      BY <3>1, NumbersAreFinite
    <3> QED BY <2>2, <3>2, FS_Union
  <2>4. ToSet(loc) \cup emptied \subseteq ToSet(loc') \cup emptied
    BY <1>8
  <2>5. corrupt' => Cardinality(ToSet(loc') \cup emptied) > ChunkSize
    BY <2>1, <2>3, <2>4, ManyRows DEF Solo, TableIsThere
  <2>6. stored' \subseteq ToSet(loc') \cup emptied'
    BY <1>6, <1>7, <1>8, <2>1, <2>2
  <2> QED BY <2>1, <2>2, <2>5, <2>6 DEF TableIsThere
<1>10. job[t].op = "store" /\ JobsAreSorted /\ NicksAreUnique'
  BY <1>1, <1>2, <1>3, NicksSame DEF Goes, OpFits, StoreInv, Solo
<1>11. AnswerIsRight'
  BY <1>6, <1>10, OtherAnswer
<1> QED BY <1>1, <1>6, <1>9, <1>10, <1>11, SoloEnds

\* Emptying the table: it is there again at the end, since nobody else has a lock.
LEMMA EmptySolo ==
    ASSUME StoreInv, Solo, NEW t \in DbThreads
    PROVE  /\ StartEmpty(t) /\ ~met' => Solo'
           /\ DropTable(t) => Solo'
           /\ Vacuum(t) => Solo'
           /\ CreateTable(t) => Solo'
<1>0. JobsAreSorted
  BY DEF StoreInv
<1>1. ASSUME StartEmpty(t), ~met' PROVE Solo'
  <2>1. PICK j : j = [op |-> "empty"]
    OBVIOUS
  <2>2. db_setup(t, j) /\ DbGoto(t, "drop")
    BY <1>1, <2>1 DEF StartEmpty
  <2>3. reserved' = reserved /\ reading' = reading /\ UNCHANGED <<loc, table, nicktab, stored, emptied, corrupt>>
    BY <1>1 DEF StartEmpty, rowVars, lockVars, pastVars
  <2>4. dpc'[t] = "drop" /\ job'[t].op = "empty"
    BY <1>0, <2>1, <2>2 DEF db_setup, DbGoto, JobsAreSorted
  <2>5. Goes(t)'
    BY <2>4 DEF Goes, OpFits, StoreGoes, ListGoes, ExportGoes, NicksGo
  <2> QED BY <1>0, <1>1, <2>2, <2>3, <2>5, SoloStarts
<1>2. ASSUME DropTable(t) PROVE Solo'
  <2>1. dpc[t] = "drop" /\ nicktab' = nicktab /\ stored' = stored /\ corrupt' = corrupt
    BY <1>2 DEF DropTable
  <2>2. table /\ CanWrite(t) /\ Goes(t)
    BY <2>1, SoloAt
  <2>3. /\ table' = FALSE /\ loc' = <<>> /\ emptied' = emptied \cup ToSet(loc)
        /\ DbGoto(t, "vacuum") /\ UNCHANGED <<reserved, reading, job, answer>>
    BY <1>2, <2>2 DEF DropTable, lockVars
  <2>4. dpc'[t] = "vacuum" /\ \A u \in DbThreads \ {t} : dpc'[u] = dpc[u]
    BY <1>0, <2>3 DEF DbGoto, JobsAreSorted
  <2>5. TableIsThere'
    <3>1. ToSet(loc') = {} /\ ToSet(loc)' = {}
      BY <2>3 DEF ToSet
    <3>2. IsFiniteSet(emptied')
      BY <2>3, RowsAreFinite, FS_Union DEF Solo, TableIsThere
    <3>3. ToSet(loc') \cup emptied' = ToSet(loc) \cup emptied
      BY <2>3, <3>1
    <3> QED BY <2>1, <2>4, <3>1, <3>2, <3>3 DEF Solo, TableIsThere
  <2>6. NicksAreUnique'
    BY <2>1, NicksSame DEF Solo
  <2>7. Goes(t)'
    BY <2>1, <2>2, <2>3, <2>4 DEF Goes, OpFits, StoreGoes, ListGoes, ExportGoes, NicksGo
  <2> QED BY <2>1, <2>3, <2>4, <2>5, <2>6, <2>7, SoloGoesOn
<1>3. ASSUME Vacuum(t) PROVE Solo'
  <2>1. dpc[t] = "vacuum" /\ UNCHANGED <<loc, table, nicktab, stored, emptied, corrupt>>
    BY <1>3 DEF Vacuum, rowVars, pastVars
  <2>2. CanWrite(t) /\ Goes(t)
    BY <2>1, SoloAt
  <2>3. DbGoto(t, "create") /\ UNCHANGED <<reserved, reading, job, answer>>
    BY <1>3, <2>2 DEF Vacuum, lockVars
  <2>4. dpc'[t] = "create" /\ \A u \in DbThreads \ {t} : dpc'[u] = dpc[u]
    BY <1>0, <2>3 DEF DbGoto, JobsAreSorted
  <2>5. TableIsThere'
    BY <2>1, <2>4 DEF Solo, TableIsThere, ToSet
  <2>6. NicksAreUnique'
    BY <2>1, NicksSame DEF Solo
  <2>7. Goes(t)'
    BY <2>1, <2>2, <2>3, <2>4 DEF Goes, OpFits, StoreGoes, ListGoes, ExportGoes, NicksGo
  <2> QED BY <2>1, <2>3, <2>4, <2>5, <2>6, <2>7, SoloGoesOn
<1>4. ASSUME CreateTable(t) PROVE Solo'
  <2>1. dpc[t] = "create" /\ UNCHANGED <<loc, nicktab, stored, emptied, corrupt>>
    BY <1>4 DEF CreateTable, pastVars
  <2>2. CanWrite(t) /\ Goes(t)
    BY <2>1, SoloAt
  <2>3. table' = TRUE /\ db_close(t, <<0>>)
    BY <1>4, <2>2 DEF CreateTable
  <2>4. TableIsThere'
    BY <2>1, <2>3 DEF Solo, TableIsThere, ToSet
  <2>5. job[t].op = "empty" /\ NicksAreUnique'
    BY <2>1, <2>2, NicksSame DEF Goes, OpFits, Solo
  <2>6. AnswerIsRight'
    BY <2>3, <2>5, OtherAnswer
  <2> QED BY <1>0, <2>1, <2>3, <2>4, <2>5, <2>6, SoloEnds
<1> QED BY <1>1, <1>2, <1>3, <1>4

\* A statement of its own.
LEMMA ExecSolo ==
    ASSUME StoreInv, Solo, NEW t \in DbThreads
    PROVE  /\ ExecSql(t) /\ ~met' => Solo'
           /\ EndExecSql(t) => Solo'
<1>0. JobsAreSorted
  BY DEF StoreInv
<1>1. ASSUME ExecSql(t), ~met' PROVE Solo'
  <2>1. PICK j : j = [op |-> "exec"]
    OBVIOUS
  <2>2. db_setup(t, j) /\ DbGoto(t, "exec")
    BY <1>1, <2>1 DEF ExecSql
  <2>3. reserved' = reserved /\ reading' = reading /\ UNCHANGED <<loc, table, nicktab, stored, emptied, corrupt>>
    BY <1>1 DEF ExecSql, rowVars, lockVars, pastVars
  <2>4. dpc'[t] = "exec" /\ job'[t].op = "exec"
    BY <1>0, <2>1, <2>2 DEF db_setup, DbGoto, JobsAreSorted
  <2>5. Goes(t)'
    BY <2>4 DEF Goes, OpFits, StoreGoes, ListGoes, ExportGoes, NicksGo
  <2> QED BY <1>0, <1>1, <2>2, <2>3, <2>5, SoloStarts
<1>2. ASSUME EndExecSql(t) PROVE Solo'
  <2>1. dpc[t] = "exec" /\ (\E a : db_close(t, a)) /\ UNCHANGED <<loc, table, nicktab, stored, emptied, corrupt>>
    BY <1>2 DEF EndExecSql, rowVars, pastVars
  <2>2. Goes(t)
    BY <2>1, SoloAt
  <2>3. job[t].op = "exec" /\ NicksAreUnique'
    BY <2>1, <2>2, NicksSame DEF Goes, OpFits, Solo
  <2> QED BY <1>0, <2>1, <2>3, QuietEnd
<1> QED BY <1>1, <1>2

-----------------------------------------------------------------------------
(* One operation at a time: lists.                                         *)

\* What the statement selects, now and after the step.
LEMMA SelectedIs ==
    ASSUME NEW t \in DbThreads
    PROVE  /\ Selected(t) = RowsFor(job[t])
           /\ \A j : job'[t] = j /\ UNCHANGED <<loc, sort_order>> => Selected(t)' = RowsFor(j)
<1>1. Selected(t) = RowsFor(job[t])
  BY DEF Selected, Sorted, RowsFor, ListGot, FirstRows, Turned, Asc
<1>2. ASSUME NEW j, job'[t] = j, UNCHANGED <<loc, sort_order>> PROVE Selected(t)' = RowsFor(j)
  BY <1>2 DEF Selected, Sorted, RowsFor, ListGot, FirstRows, Turned, Asc, ToSet
<1> QED BY <1>1, <1>2

\* A right answer to a list stays right, for the rows are the same.
LEMMA ListAnswer ==
    ASSUME NEW t \in DbThreads, NEW a, db_close(t, a), job[t].op = "list", ListIsRight(job[t], a),
           UNCHANGED <<loc, sort_order>>
    PROVE  AnswerIsRight'
<1>1. answer' = [job |-> job[t], out |-> a]
  BY DEF db_close
<1>2. PICK j : j = job[t]
  OBVIOUS
<1>3. answer'.job = j /\ answer'.out = a /\ j.op = "list" /\ ListIsRight(j, a)
  BY <1>1, <1>2
<1>4. ListIsRight(j, a)'
  <2>1. \A m : Age(m)' = Age(m)
    BY DEF Age
  <2>2. ToSet(loc)' = ToSet(loc) /\ ToSet(a)' = ToSet(a)
    BY DEF ToSet
  <2> QED BY <1>3, <2>1, <2>2 DEF ListIsRight
<1> QED BY <1>3, <1>4 DEF AnswerIsRight

\* A list begins with an empty array and the counter at zero.
LEMMA StartListSolo ==
    ASSUME StoreInv, Solo, ~met', got = [u \in DbThreads |-> got[u]], NEW t \in DbThreads, NEW op \in {"list", "mailloc"},
           NEW head \in BOOLEAN, NEW n \in Nat \ {0}, db_loclist(t, op, head, n)
    PROVE  Solo'
<1>0. JobsAreSorted
  BY DEF StoreInv
<1>1. PICK j : j = [op |-> op, head |-> head, n |-> n]
  OBVIOUS
<1>2. /\ db_setup(t, j) /\ DbGoto(t, IF table THEN "select" ELSE "nolist") /\ num_cb' = 0 /\ max_num_cb' = n
      /\ row' = [row EXCEPT ![t] = 1] /\ got' = [got EXCEPT ![t] = [i \in 1..n |-> 0]]
      /\ reading' = IF table THEN reading \cup {t} ELSE reading
  BY <1>1 DEF db_loclist
<1>3. reserved' = reserved /\ UNCHANGED <<loc, table, nicktab, stored, emptied, corrupt, sort_order>>
  BY DEF db_loclist, rowVars, pastVars
<1>4. job'[t] = j /\ row'[t] = 1 /\ got'[t] = [i \in 1..n |-> 0]
      /\ dpc'[t] = IF table THEN "select" ELSE "nolist"
  BY <1>0, <1>2 DEF db_setup, DbGoto, JobsAreSorted
<1>5. ASSUME table PROVE Goes(t)'
  <2>1. dpc'[t] = "select" /\ job'[t].op \in {"list", "mailloc"} /\ job'[t].n = n /\ job'[t].head = head
    BY <1>1, <1>4, <1>5
  <2>2. Selected(t)' = RowsFor(j) /\ j.n = n /\ j.head = head
    BY <1>1, <1>3, <1>4, SelectedIs
  <2>3. RowsFor(j) \in Seq(Nat \ {0})
    BY <2>2, ListShown
  <2>4. Len(RowsFor(j)) \in Nat
    BY <2>3
  <2>5. got'[t] \in Seq(Nat) /\ Len(got'[t]) = n
    BY <1>4
  <2>6. num_cb' \in 0..Len(Selected(t)') /\ num_cb' = row'[t] - 1 /\ max_num_cb' = job'[t].n
        /\ \A i \in 1..num_cb' : got'[t][i] = Selected(t)'[i]
    BY <1>2, <1>4, <2>1, <2>2, <2>4
  <2>7. ListGoes(t)'
    BY <1>4, <2>1, <2>5, <2>6 DEF ListGoes
  <2> QED BY <2>1, <2>7 DEF Goes, OpFits, StoreGoes, ExportGoes, NicksGo
<1>6. reading' \subseteq reading \cup {t}
  BY <1>2
<1>7. PICK l : l = (IF table THEN "select" ELSE "nolist") /\ l # "idle"
  OBVIOUS
<1>8. DbGoto(t, l)
  BY <1>2, <1>7
<1> QED BY ONLY <1>0, <1>2, <1>3, <1>5, <1>6, <1>7, <1>8, Solo, ~met', t \in DbThreads, SoloStarts

\* What the invariant says of a list while its rows come in.
LEMMA SelectAt ==
    ASSUME StoreInv, Solo, NEW t \in DbThreads, dpc[t] \in {"select", "show"}
    PROVE  /\ table /\ job[t].n \in Nat \ {0} /\ job[t].head \in BOOLEAN /\ job[t].op \in {"list", "mailloc"}
           /\ got[t] \in Seq(Nat) /\ Len(got[t]) = job[t].n
           /\ Selected(t) \in Seq(Nat \ {0}) /\ Len(Selected(t)) \in Nat /\ Len(Selected(t)) <= job[t].n
           /\ Selected(t) = <<>> => loc = <<>>
           /\ num_cb \in 0..Len(Selected(t)) /\ \A i \in 1..num_cb : got[t][i] = Selected(t)[i]
           /\ dpc[t] = "select" => num_cb = row[t] - 1 /\ max_num_cb = job[t].n
           /\ dpc[t] = "show" => num_cb = Len(Selected(t)) /\ num_cb # 0
<1>1. Goes(t) /\ table
  BY SoloAt
<1>2. job[t].n \in Nat \ {0} /\ job[t].head \in BOOLEAN /\ job[t].op \in {"list", "mailloc"}
  BY <1>1 DEF Goes, ListGoes, OpFits
<1>3. /\ Selected(t) \in Seq(Nat \ {0}) /\ Len(Selected(t)) <= job[t].n
      /\ Selected(t) = <<>> => loc = <<>>
  <2>1. PICK j : j = job[t]
    OBVIOUS
  <2>2. RowsFor(j) \in Seq(Nat \ {0}) /\ Len(RowsFor(j)) <= j.n /\ (RowsFor(j) = <<>> => loc = <<>>)
    BY <1>2, <2>1, ListShown
  <2> QED BY <2>1, <2>2, SelectedIs
<1>4. Len(Selected(t)) \in Nat
  BY <1>3
<1> QED BY <1>1, <1>2, <1>3, <1>4 DEF Goes, ListGoes

\* A row comes in and takes the place of its number.
LEMMA SelectSolo ==
    ASSUME StoreInv, Solo, got = [u \in DbThreads |-> got[u]], NEW t \in DbThreads, sql_reslist_callback(t)
    PROVE  Solo'
<1>0. JobsAreSorted
  BY DEF StoreInv
<1>1. dpc[t] = "select" /\ row[t] <= Len(Selected(t)) /\ job' = job /\ answer' = answer /\ max_num_cb' = max_num_cb
      /\ UNCHANGED <<loc, table, nicktab, reserved, stored, emptied, sort_order>>
  BY DEF sql_reslist_callback, rowVars, pastVars
<1>2. PICK sel : sel = Selected(t)
  OBVIOUS
<1>3. PICK n \in Nat \ {0} : n = job[t].n
  BY <1>1, SelectAt
<1>4. /\ sel \in Seq(Nat \ {0}) /\ Len(sel) \in Nat /\ Len(sel) <= n /\ row[t] <= Len(sel)
      /\ num_cb \in 0..Len(sel) /\ num_cb = row[t] - 1 /\ max_num_cb = n
      /\ got[t] \in Seq(Nat) /\ Len(got[t]) = n /\ \A i \in 1..num_cb : got[t][i] = sel[i]
  BY <1>1, <1>2, <1>3, SelectAt
<1>5. row[t] = num_cb + 1
  <2>1. row[t] \in Int
    <3>1. row[t] \in Nat \ {0}
      BY <1>1, SoloAt DEF Goes, ListGoes
    <3> QED BY <3>1
  <2> QED BY <1>4, <2>1
<1>6. num_cb < max_num_cb /\ num_cb < job[t].n
  BY <1>3, <1>4, <1>5
<1>7. /\ got' = [got EXCEPT ![t][num_cb + 1] = sel[row[t]]] /\ corrupt' = corrupt
      /\ num_cb' = num_cb + 1 /\ row' = [row EXCEPT ![t] = @ + 1] /\ UNCHANGED <<dpc, reading>>
  BY <1>2, <1>4, <1>6 DEF sql_reslist_callback
<1>8. row'[t] = row[t] + 1 /\ got'[t] = [got[t] EXCEPT ![num_cb + 1] = sel[row[t]]]
  BY <1>0, <1>7 DEF JobsAreSorted
<1>9. Selected(t)' = sel
  BY <1>1, <1>2, SelectedIs
<1>10. num_cb + 1 \in 1..n /\ sel[num_cb + 1] \in Nat /\ num_cb + 1 \in 0..Len(sel)
  <2>1. num_cb + 1 \in 1..Len(sel) /\ Len(sel) <= n
    BY ONLY <1>4, <1>5
  <2>2. sel[num_cb + 1] \in Nat
    BY ONLY <1>4, <2>1
  <2> QED BY ONLY <1>4, <2>1, <2>2, n \in Nat \ {0}
<1>11. got'[t] \in Seq(Nat) /\ Len(got'[t]) = n /\ \A i \in 1..(num_cb + 1) : got'[t][i] = sel[i]
  <2>1. PICK g, k, x : g = got[t] /\ k = num_cb + 1 /\ x = sel[k]
    OBVIOUS
  <2>2. g \in Seq(Nat) /\ Len(g) = n /\ k \in 1..n /\ x \in Nat /\ num_cb \in Nat /\ n \in Nat
    BY <1>4, <1>10, <2>1
  <2>3. got'[t] = [g EXCEPT ![k] = x]
    BY <1>5, <1>8, <2>1
  <2>4. [g EXCEPT ![k] = x] \in Seq(Nat) /\ Len([g EXCEPT ![k] = x]) = n
    BY ONLY <2>2
  <2>5. ASSUME NEW i \in 1..k PROVE got'[t][i] = sel[i]
    <3>1. CASE i = k
      BY <2>1, <2>2, <2>3, <3>1
    <3>2. CASE i # k
      <4>1. i \in 1..num_cb /\ i \in 1..n
        BY <2>1, <2>2, <3>2
      <4>2. g[i] = sel[i]
        BY <1>4, <2>1, <4>1
      <4> QED BY <2>2, <2>3, <3>2, <4>1, <4>2
    <3> QED BY <3>1, <3>2
  <2> QED BY <2>1, <2>3, <2>4, <2>5
<1>12. ListGoes(t)'
  <2>1. job[t].n \in Nat \ {0} /\ job[t].head \in BOOLEAN
    BY <1>1, SelectAt
  <2>2. dpc'[t] = "select" /\ num_cb' = row'[t] - 1 /\ max_num_cb' = job'[t].n /\ row'[t] \in Nat \ {0}
    <3>1. dpc'[t] = "select" /\ max_num_cb' = job'[t].n
      BY <1>1, <1>3, <1>4, <1>7
    <3>2. num_cb' = num_cb + 1 /\ row'[t] = num_cb + 2
      BY ONLY <1>4, <1>5, <1>7, <1>8
    <3>3. num_cb + 1 = (num_cb + 2) - 1 /\ num_cb + 2 \in Nat \ {0}
      BY ONLY <1>4
    <3> QED BY ONLY <3>1, <3>2, <3>3
  <2> QED BY <1>1, <1>3, <1>7, <1>9, <1>10, <1>11, <2>1, <2>2 DEF ListGoes
<1>13. Goes(t)'
  <2>1. job[t].op \in {"list", "mailloc"}
    BY <1>1, SelectAt
  <2> QED BY <1>1, <1>7, <1>12, <2>1 DEF Goes, OpFits, StoreGoes, ExportGoes, NicksGo
<1>14. TableIsThere' /\ NicksAreUnique'
  BY <1>1, <1>7, SelectAt, TableSame, NicksSame DEF Solo
<1> QED BY <1>1, <1>7, <1>13, <1>14, SoloGoesOn

\* There are no more rows: the list is complete.
LEMMA EndSelectSolo ==
    ASSUME StoreInv, Solo, NEW t \in DbThreads, EndSelect(t)
    PROVE  Solo'
<1>0. JobsAreSorted
  BY DEF StoreInv
<1>1. /\ dpc[t] = "select" /\ row[t] > Len(Selected(t)) /\ job' = job /\ answer' = answer
      /\ reading' = reading \ {t} /\ dpc' = [dpc EXCEPT ![t] = IF num_cb = 0 THEN "nolist" ELSE "show"]
      /\ UNCHANGED <<loc, table, nicktab, reserved, stored, emptied, corrupt, sort_order, num_cb, got>>
  BY DEF EndSelect, rowVars, pastVars, cbVars, DbGoto
<1>2. dpc'[t] = (IF num_cb = 0 THEN "nolist" ELSE "show") /\ \A u \in DbThreads \ {t} : dpc'[u] = dpc[u]
  BY <1>0, <1>1 DEF JobsAreSorted
<1>3. /\ num_cb \in 0..Len(Selected(t)) /\ num_cb = row[t] - 1 /\ Len(Selected(t)) \in Nat
      /\ Selected(t) \in Seq(Nat \ {0}) /\ (Selected(t) = <<>> => loc = <<>>)
  BY <1>1, SelectAt
<1>4. row[t] \in Nat \ {0}
  BY <1>1, SoloAt DEF Goes, ListGoes
<1>5. num_cb = Len(Selected(t))
  BY <1>1, <1>3, <1>4
<1>6. num_cb = 0 => loc = <<>>
  <2>1. PICK sel : sel = Selected(t)
    OBVIOUS
  <2>2. sel \in Seq(Nat \ {0}) /\ num_cb = Len(sel) /\ (sel = <<>> => loc = <<>>)
    BY ONLY <1>3, <1>5, <2>1
  <2>3. Len(sel) = 0 => sel = <<>>
    BY ONLY <2>2
  <2> QED BY ONLY <2>2, <2>3
<1>7. Selected(t)' = Selected(t)
  BY <1>1, SelectedIs
<1>8. ListGoes(t)'
  <2>1. CASE num_cb = 0
    BY <1>1, <1>2, <1>6, <2>1 DEF ListGoes
  <2>2. CASE num_cb # 0
    <3>1. /\ job[t].n \in Nat \ {0} /\ job[t].head \in BOOLEAN /\ got[t] \in Seq(Nat) /\ Len(got[t]) = job[t].n
          /\ \A i \in 1..num_cb : got[t][i] = Selected(t)[i]
      BY <1>1, SelectAt
    <3> QED BY <1>1, <1>2, <1>3, <1>5, <1>7, <2>2, <3>1 DEF ListGoes
  <2> QED BY <2>1, <2>2
<1>9. Goes(t)'
  <2>1. job[t].op \in {"list", "mailloc"}
    BY <1>1, SelectAt
  <2> QED BY <1>1, <1>2, <1>8, <2>1 DEF Goes, OpFits, StoreGoes, ExportGoes, NicksGo
<1>10. TableIsThere' /\ NicksAreUnique'
  BY <1>1, SelectAt, TableSame, NicksSame DEF Solo
<1>11. reading' \subseteq reading \cup {t} /\ dpc'[t] # "idle"
  BY <1>1, <1>2
<1> QED BY <1>1, <1>2, <1>9, <1>10, <1>11, SoloGoesOn

\* An error is right for an empty table.
LEMMA ListErrorSolo ==
    ASSUME StoreInv, Solo, NEW t \in DbThreads, ListError(t)
    PROVE  Solo'
<1>0. JobsAreSorted
  BY DEF StoreInv
<1>1. dpc[t] = "nolist" /\ db_close(t, <<-1>>) /\ UNCHANGED <<loc, table, nicktab, stored, emptied, corrupt, sort_order>>
  BY DEF ListError, rowVars, pastVars
<1>2. Goes(t) /\ table
  BY <1>1, SoloAt
<1>3. loc = <<>> /\ job[t].op \in {"list", "mailloc"}
  BY <1>1, <1>2 DEF Goes, ListGoes, OpFits
<1>4. AnswerIsRight'
  <2>1. CASE job[t].op = "list"
    <3>1. ListIsRight(job[t], <<-1>>)
      BY <1>3 DEF ListIsRight
    <3> QED BY <1>1, <2>1, <3>1, ListAnswer
  <2>2. CASE job[t].op = "mailloc"
    BY <1>1, <2>2, OtherAnswer
  <2> QED BY <1>3, <2>1, <2>2
<1>5. TableIsThere' /\ NicksAreUnique'
  BY <1>1, <1>2, TableSame, NicksSame DEF Solo
<1> QED BY <1>0, <1>1, <1>4, <1>5, SoloEnds

\* The list that is shown is the one asked for, and every place of it was filled.
LEMMA ShowListSolo ==
    ASSUME StoreInv, Solo, NEW t \in DbThreads, ShowList(t)
    PROVE  Solo'
<1>0. JobsAreSorted
  BY DEF StoreInv
<1>1. dpc[t] = "show" /\ job[t].op = "list" /\ UNCHANGED <<loc, table, nicktab, stored, emptied, sort_order>>
  BY DEF ShowList, rowVars, pastVars
<1>2. PICK sel, g, n : sel = Selected(t) /\ g = got[t] /\ n = job[t].n
  OBVIOUS
<1>3. /\ table /\ job[t].head \in BOOLEAN /\ n \in Nat \ {0} /\ sel \in Seq(Nat \ {0}) /\ Len(sel) \in Nat /\ Len(sel) <= n
      /\ g \in Seq(Nat) /\ Len(g) = n /\ num_cb = Len(sel) /\ num_cb # 0 /\ \A i \in 1..num_cb : g[i] = sel[i]
  BY <1>1, <1>2, SelectAt
<1>4. Filled(t)
  <2>1. \A i \in 1..num_cb : g[i] # 0
    BY <1>3
  <2> QED BY <1>2, <1>3, <2>1 DEF Filled
<1>5. db_close(t, Shown(t)) /\ corrupt' = corrupt
  BY <1>4 DEF ShowList
<1>6. SubSeq(g, 1, num_cb) = sel
  <2>1. SubSeq(g, 1, num_cb) \in Seq(Nat) /\ Len(SubSeq(g, 1, num_cb)) = num_cb
        /\ \A i \in 1..num_cb : SubSeq(g, 1, num_cb)[i] = g[i]
    BY <1>3
  <2> QED BY <1>3, <2>1
<1>7. Shown(t) = IF job[t].head THEN sel ELSE Reverse(sel)
  BY <1>2, <1>6 DEF Shown
<1>8. ListIsRight(job[t], Shown(t))
  <2>1. PICK j : j = job[t]
    OBVIOUS
  <2>2. j.n \in Nat \ {0} /\ j.head \in BOOLEAN /\ RowsFor(j) = sel
    BY <1>2, <1>3, <2>1, SelectedIs
  <2>3. sel # <<>>
    BY <1>3
  <2>4. ListIsRight(j, IF j.head THEN RowsFor(j) ELSE Reverse(RowsFor(j)))
    BY <2>2, <2>3, ListShown
  <2> QED BY <1>7, <2>1, <2>2, <2>4
<1>9. AnswerIsRight'
  BY <1>1, <1>5, <1>8, ListAnswer
<1>10. TableIsThere' /\ NicksAreUnique'
  BY <1>1, <1>3, <1>5, TableSame, NicksSame DEF Solo
<1> QED BY <1>0, <1>1, <1>5, <1>9, <1>10, SoloEnds

\* The row that is mailed was filled.
LEMMA MailLocSolo ==
    ASSUME StoreInv, Solo, NEW t \in DbThreads, mail_lastloc(t)
    PROVE  Solo'
<1>0. JobsAreSorted
  BY DEF StoreInv
<1>1. /\ dpc[t] = "show" /\ job[t].op = "mailloc" /\ UNCHANGED <<loc, table, nicktab, stored, emptied>>
      /\ corrupt' = (corrupt \/ got[t][1] = 0) /\ \E a : db_close(t, a)
  BY DEF mail_lastloc, rowVars, pastVars
<1>2. got[t][1] # 0
  <2>1. PICK sel : sel = Selected(t)
    OBVIOUS
  <2>2. sel \in Seq(Nat \ {0}) /\ Len(sel) \in Nat /\ num_cb = Len(sel) /\ num_cb # 0
        /\ \A i \in 1..num_cb : got[t][i] = sel[i]
    BY <1>1, <2>1, SelectAt
  <2>3. 1 \in 1..num_cb /\ sel[1] \in Nat \ {0}
    BY <2>2
  <2> QED BY <2>2, <2>3
<1>3. corrupt' => corrupt
  BY ONLY <1>1, <1>2, Zenon
<1>4. NicksAreUnique'
  BY <1>1, NicksSame DEF Solo
<1> QED BY <1>0, <1>1, <1>3, <1>4, QuietEnd

-----------------------------------------------------------------------------
(* One operation at a time: exports, distances and mails.                  *)

\* The rows of the range are the same as long as the operation and the table are.
LEMMA InRangeSame ==
    ASSUME NEW t \in DbThreads, job' = job, loc' = loc
    PROVE  InRange(t)' = InRange(t)
BY DEF InRange

\* One more row in a list that is filled in order.
LEMMA PutNext ==
    ASSUME NEW r \in Seq(Nat), NEW n \in Nat, n < Len(r)
    PROVE  /\ Put(SubSeq(r, 1, n), n + 1, r[n + 1]) = SubSeq(r, 1, n + 1)
           /\ SubSeq(r, 1, n) # Null /\ SubSeq(r, 1, Len(r)) = r
<1>1. PICK s : s = SubSeq(r, 1, n)
  OBVIOUS
<1>2. s \in Seq(Nat) /\ Len(s) = n /\ \A i \in 1..n : s[i] = r[i]
  BY <1>1
<1>3. PICK p : p = Put(s, n + 1, r[n + 1])
  OBVIOUS
<1>4. p = [k \in 1..(n + 1) |-> IF k = n + 1 THEN r[n + 1] ELSE IF k <= n THEN s[k] ELSE 0]
  <2>1. n + 1 > n
    OBVIOUS
  <2> QED BY ONLY <1>2, <1>3, <2>1 DEF Put
<1>5. \A k \in 1..(n + 1) : p[k] = r[k] /\ r[k] \in Nat
  BY <1>2, <1>4
<1>6. p \in Seq(Nat) /\ Len(p) = n + 1
  <2>1. p \in [1..(n + 1) -> Nat]
    BY ONLY <1>4, <1>5
  <2> QED BY ONLY <2>1, n \in Nat
<1>7. PICK q : q = SubSeq(r, 1, n + 1)
  OBVIOUS
<1>8. q \in Seq(Nat) /\ Len(q) = n + 1 /\ \A k \in 1..(n + 1) : q[k] = r[k]
  BY <1>7
<1>9. p = q
  <2>1. PICK m \in Nat : m = n + 1
    OBVIOUS
  <2>2. p \in Seq(Nat) /\ q \in Seq(Nat) /\ Len(p) = m /\ Len(q) = m /\ \A k \in 1..m : p[k] = q[k]
    BY ONLY <1>5, <1>6, <1>8, <2>1
  <2> QED BY ONLY <2>2, m \in Nat
<1>10. s # Null
  <2>1. ASSUME s = Null PROVE FALSE
    <3>1. s[1] = -1 /\ Len(s) = 1
      BY <2>1 DEF Null
    <3>2. s[1] \in Nat
      BY <1>2, <3>1
    <3> QED BY <3>1, <3>2
  <2> QED BY <2>1
<1>11. SubSeq(r, 1, Len(r)) = r
  <2>1. PICK m \in Nat : m = Len(r)
    OBVIOUS
  <2>2. SubSeq(r, 1, m) \in Seq(Nat) /\ Len(SubSeq(r, 1, m)) = m /\ \A i \in 1..m : SubSeq(r, 1, m)[i] = r[i]
    BY <2>1
  <2> QED BY <2>1, <2>2
<1> QED BY <1>1, <1>3, <1>7, <1>9, <1>10, <1>11

\* Rows are never the answer of an operation that failed, nor a list that is not allocated.
LEMMA RowsAreNotNull ==
    ASSUME NEW s \in Seq(Nat)
    PROVE  s # Null /\ s # <<-1>>
<1>1. ASSUME s = <<-1>> PROVE FALSE
  <2>1. Len(s) = 1 /\ s[1] = -1
    BY <1>1
  <2>2. s[1] \in Nat
    BY <2>1
  <2> QED BY <2>1, <2>2
<1> QED BY <1>1 DEF Null

\* An export or a mail ends with a right answer.
LEMMA ExportAnswer ==
    ASSUME NEW t \in DbThreads, NEW a, db_close(t, a), loc' = loc, corrupt' = corrupt, job[t].op # "list",
           job[t].op = "export" /\ ~corrupt => ExportIsRight(job[t], a),
           job[t].op = "mail" /\ ~corrupt => a \in {loc, <<-1>>}
    PROVE  AnswerIsRight'
<1>1. answer' = [job |-> job[t], out |-> a]
  BY DEF db_close
<1>2. PICK j : j = job[t]
  OBVIOUS
<1>3. answer'.job = j /\ answer'.out = a
  BY <1>1, <1>2
<1>4. ExportIsRight(j, a) => ExportIsRight(j, a)'
  BY DEF ExportIsRight, ToSet
<1> QED BY <1>2, <1>3, <1>4 DEF AnswerIsRight

\* The rows of the range are the right answer, and so is an error for an impossible range.
LEMMA InRangeIsRight ==
    ASSUME StoreInv, NEW t \in DbThreads
    PROVE  /\ job[t].range # "wrong" /\ job[t].file # "relative" /\ job[t].format # "unknown"
                => ExportIsRight(job[t], InRange(t))
           /\ job[t].range = "wrong" \/ job[t].file = "relative" \/ job[t].format = "unknown"
                => ExportIsRight(job[t], <<-1>>)
<1>1. PICK j, r : j = job[t] /\ r = InRange(t)
  OBVIOUS
<1>2. ToSet(r) = {n \in ToSet(loc) : j.range = "all" \/ n % 2 = 1}
  BY <1>1, ExportHas
<1>3. \A i, k \in DOMAIN r : i < k => \E a, b \in DOMAIN loc : a < b /\ loc[a] = r[i] /\ loc[b] = r[k]
  BY <1>1, ExportHas
<1> QED BY ONLY <1>1, <1>2, <1>3 DEF ExportIsRight

\* An export begins with an empty list, or ends at once for an impossible range.
LEMMA StartExportSolo ==
    ASSUME StoreInv, Solo, ~met', NEW t \in DbThreads, NEW op \in {"export", "dist", "mail"}, NEW range \in Ranges,
           NEW format, NEW file, op = "mail" => range = "all" /\ format = "gpx" /\ file = "tmp",
           op = "export" => format \in Formats \cup {"unknown"}, export_to_internal_set(t, op, range, format, file)
    PROVE  Solo'
<1>0. JobsAreSorted
  BY DEF StoreInv
<1>1. PICK j : j = [op |-> op, range |-> range, format |-> format, file |-> file]
  OBVIOUS
<1>2. db_setup(t, j) /\ row' = [row EXCEPT ![t] = 1]
  BY <1>1 DEF export_to_internal_set
<1>3. reserved' = reserved /\ UNCHANGED <<loc, table, nicktab, stored, emptied, corrupt>>
  BY DEF export_to_internal_set, rowVars, pastVars
<1>4. job'[t] = j /\ row'[t] = 1
  BY <1>0, <1>2 DEF db_setup, JobsAreSorted
<1>5. j.op = op /\ j.range = range /\ j.format = format /\ j.file = file
  BY <1>1
<1>6. CASE range = "wrong" \/ ~table
  <2>1. DbGoto(t, "free") /\ reading' = reading
    BY <1>6 DEF export_to_internal_set
  <2>2. dpc'[t] = "free"
    BY <1>0, <2>1 DEF DbGoto, JobsAreSorted
  <2>3. ASSUME table PROVE Goes(t)'
    <3>1. range = "wrong" /\ op # "mail"
      BY <1>6, <2>3
    <3>2. ExportIsRight(j, <<-1>>)'
      BY <1>5, <3>1 DEF ExportIsRight
    <3>3. ExportGoes(t)'
      BY <1>4, <1>5, <2>2, <3>1, <3>2 DEF ExportGoes
    <3> QED BY <1>4, <1>5, <2>2, <3>3 DEF Goes, OpFits, StoreGoes, ListGoes, NicksGo
  <2> QED BY <1>0, <1>2, <1>3, <2>1, <2>3, SoloStarts
<1>7. CASE range # "wrong" /\ table
  <2>1. DbGoto(t, "fill") /\ reading' = reading \cup {t} /\ g7loc_list' = <<>> /\ resSetLength' = 0
    BY <1>7 DEF export_to_internal_set
  <2>2. dpc'[t] = "fill"
    BY <1>0, <2>1 DEF DbGoto, JobsAreSorted
  <2>3. PICK r : r = InRange(t)'
    OBVIOUS
  <2>4. r \in Seq(Nat)
    <3>1. PICK K \in SUBSET DOMAIN loc : K = {i \in DOMAIN loc : range = "all" \/ loc[i] % 2 = 1}
      OBVIOUS
    <3>2. r = Kept(loc, K)
      BY <1>3, <1>4, <1>5, <2>3, <3>1 DEF InRange
    <3>3. loc \in Seq(Nat)
      <4>1. loc \in Seq(1..(fresh - 1)) /\ fresh \in Nat \ {0}
        BY DEF StoreInv, RowsAreNumbered
      <4>2. \A i \in 1..Len(loc) : loc[i] \in Nat
        BY <4>1
      <4> QED BY <4>1, <4>2
    <3> QED BY ONLY <3>2, <3>3, K \in SUBSET DOMAIN loc, KeptHas
  <2>5. Len(r) \in Nat /\ SubSeq(r, 1, 0) = <<>>
    BY <2>4
  <2>6. range \in {"all", "device"}
    BY <1>7 DEF Ranges
  <2>7. resSetLength' \in 0..ChunkSize
    BY <2>1, DbAssumption
  <2>8. ExportGoes(t)'
    BY <1>4, <1>5, <2>1, <2>2, <2>3, <2>5, <2>6, <2>7 DEF ExportGoes
  <2>9. Goes(t)'
    BY <1>4, <1>5, <2>2, <2>8 DEF Goes, OpFits, StoreGoes, ListGoes, NicksGo
  <2>10. reading' \subseteq reading \cup {t}
    BY <2>1
  <2> QED BY <1>0, <1>2, <1>3, <2>1, <2>9, <2>10, SoloStarts
<1> QED BY <1>6, <1>7

\* A row of the export: the list overflows when the table has more than ChunkSize rows.
LEMMA FillSolo ==
    ASSUME StoreInv, Solo, NEW t \in DbThreads, sqres_export_callback(t)
    PROVE  Solo'
<1>0. JobsAreSorted
  BY DEF StoreInv
<1>1. /\ dpc[t] = "fill" /\ row[t] <= Len(InRange(t)) /\ row' = [row EXCEPT ![t] = @ + 1]
      /\ UNCHANGED <<loc, table, nicktab, reserved, reading, stored, emptied, dpc, job, answer>>
  BY DEF sqres_export_callback, rowVars, lockVars, pastVars
<1>2. Goes(t) /\ table /\ corrupt' \in {corrupt, TRUE}
  BY <1>1, SoloAt DEF sqres_export_callback
<1>3. PICK r : r = InRange(t)
  OBVIOUS
<1>4. r \in Seq(Nat) /\ Len(r) \in Nat /\ Len(r) <= Len(loc) /\ InRange(t)' = r
  <2>1. InRange(t) \in Seq(Nat) /\ Len(InRange(t)) <= Len(loc)
    BY ExportHas
  <2>2. Len(r) \in Nat
    BY <1>3, <2>1
  <2> QED BY <1>1, <1>3, <2>1, <2>2, InRangeSame
<1>5. row'[t] = row[t] + 1 /\ dpc'[t] = "fill"
  BY <1>0, <1>1 DEF JobsAreSorted
<1>6. ASSUME ~corrupt PROVE /\ resSetLength \in Nat /\ resSetLength < Len(r) /\ row[t] = resSetLength + 1
                            /\ g7loc_list = SubSeq(r, 1, resSetLength) /\ g7loc_list # Null
  <2>1. /\ row[t] \in Nat \ {0} /\ resSetLength = row[t] - 1 /\ resSetLength \in 0..ChunkSize
        /\ g7loc_list = SubSeq(r, 1, resSetLength)
    BY <1>1, <1>2, <1>3, <1>6 DEF Goes, ExportGoes
  <2>2. resSetLength \in Nat /\ resSetLength < Len(r) /\ row[t] = resSetLength + 1
    <3>1. row[t] <= Len(r) /\ ChunkSize \in Nat
      BY <1>1, <1>3, DbAssumption
    <3> QED BY ONLY <1>4, <2>1, <3>1
  <2> QED BY <1>4, <2>1, <2>2, PutNext
<1>7. TableIsThere'
  <2>1. CASE corrupt' => corrupt
    BY <1>1, <1>2, <2>1, TableSame DEF Solo
  <2>2. CASE ~corrupt /\ corrupt'
    <3>1. resSetLength >= ChunkSize
      BY <1>6, <2>2 DEF sqres_export_callback
    <3>2. Len(loc) > ChunkSize
      BY <1>4, <1>6, <2>2, <3>1, RowsAreFinite, DbAssumption
    <3>3. IsFiniteSet(ToSet(loc) \cup emptied) /\ Cardinality(ToSet(loc)) > ChunkSize
      BY <3>2, RowsAreFinite, FS_Union DEF Solo, TableIsThere
    <3>4. Cardinality(ToSet(loc) \cup emptied) > ChunkSize
      BY <3>3, ManyRows
    <3> QED BY <1>1, <1>2, <3>4 DEF Solo, TableIsThere, ToSet
  <2> QED BY <2>1, <2>2
<1>8. ASSUME ~corrupt' PROVE /\ row'[t] \in Nat \ {0} /\ resSetLength' = row'[t] - 1 /\ resSetLength' \in 0..ChunkSize
                             /\ resSetLength' <= Len(r) /\ g7loc_list' = SubSeq(r, 1, resSetLength')
  <2>1. ~corrupt
    <3>1. ASSUME corrupt PROVE corrupt'
      BY ONLY <1>2, <3>1, Zenon
    <3> QED BY ONLY <1>8, <3>1, Zenon
  <2>2. resSetLength < ChunkSize /\ g7loc_list' = Put(g7loc_list, resSetLength + 1, r[row[t]])
        /\ resSetLength' = resSetLength + 1
    BY <1>3, <1>8 DEF sqres_export_callback
  <2>3. g7loc_list' = SubSeq(r, 1, resSetLength + 1)
    <3>1. PICK m \in Nat : m = resSetLength
      BY <1>6, <2>1
    <3>2. m < Len(r) /\ row[t] = m + 1 /\ g7loc_list = SubSeq(r, 1, m)
      BY <1>6, <2>1, <3>1
    <3>3. Put(SubSeq(r, 1, m), m + 1, r[m + 1]) = SubSeq(r, 1, m + 1)
      BY <1>4, <3>2, PutNext
    <3> QED BY ONLY <2>2, <3>1, <3>2, <3>3
  <2>4. resSetLength \in Nat /\ resSetLength < Len(r) /\ row[t] = resSetLength + 1
    BY <1>6, <2>1
  <2>5. row'[t] = resSetLength + 2 /\ resSetLength' = resSetLength + 1
    BY ONLY <1>5, <2>2, <2>4
  <2>6. resSetLength + 1 \in 0..ChunkSize /\ resSetLength + 1 <= Len(r)
    BY ONLY <1>4, <2>2, <2>4, DbAssumption
  <2>7. resSetLength + 2 \in Nat \ {0} /\ resSetLength + 1 = (resSetLength + 2) - 1
    BY ONLY <2>4
  <2> QED BY ONLY <2>3, <2>5, <2>6, <2>7
<1>9. ExportGoes(t)'
  BY <1>1, <1>2, <1>4, <1>5, <1>8 DEF Goes, ExportGoes
<1>10. Goes(t)'
  BY <1>1, <1>2, <1>9 DEF Goes, OpFits, StoreGoes, ListGoes, NicksGo
<1>11. NicksAreUnique'
  BY <1>1, NicksSame DEF Solo
<1> QED BY <1>1, <1>7, <1>10, <1>11, SoloGoesOn

\* There are no more rows: the list has all of the range.
LEMMA EndFillSolo ==
    ASSUME StoreInv, Solo, NEW t \in DbThreads, EndFill(t)
    PROVE  Solo'
<1>0. JobsAreSorted
  BY DEF StoreInv
<1>1. /\ dpc[t] = "fill" /\ row[t] > Len(InRange(t)) /\ dpc' = [dpc EXCEPT ![t] = "file"] /\ reading' = reading \ {t}
      /\ UNCHANGED <<loc, table, nicktab, reserved, stored, emptied, job, answer, corrupt, g7loc_list, resSetLength>>
  BY DEF EndFill, rowVars, pastVars, expVars, DbGoto
<1>2. Goes(t) /\ table
  BY <1>1, SoloAt
<1>3. dpc'[t] = "file" /\ \A u \in DbThreads \ {t} : dpc'[u] = dpc[u]
  BY <1>0, <1>1 DEF JobsAreSorted
<1>4. PICK r : r = InRange(t)
  OBVIOUS
<1>5. r \in Seq(Nat) /\ InRange(t)' = r
  BY <1>1, <1>4, ExportHas, InRangeSame
<1>6. ASSUME ~corrupt PROVE g7loc_list = r /\ resSetLength = Len(r)
  <2>1. /\ row[t] \in Nat \ {0} /\ resSetLength = row[t] - 1 /\ resSetLength <= Len(r)
        /\ g7loc_list = SubSeq(r, 1, resSetLength)
    BY <1>1, <1>2, <1>4, <1>6 DEF Goes, ExportGoes
  <2>2. Len(r) \in Nat /\ SubSeq(r, 1, Len(r)) = r
    <3>1. PICK m \in Nat : m = Len(r)
      BY <1>5
    <3>2. SubSeq(r, 1, m) \in Seq(Nat) /\ Len(SubSeq(r, 1, m)) = m /\ \A i \in 1..m : SubSeq(r, 1, m)[i] = r[i]
      BY <1>5, <3>1
    <3> QED BY <1>5, <3>1, <3>2
  <2>3. resSetLength = Len(r)
    BY <1>1, <1>4, <2>1, <2>2
  <2> QED BY <2>1, <2>2, <2>3
<1>7. ExportGoes(t)'
  BY <1>1, <1>2, <1>3, <1>5, <1>6 DEF Goes, ExportGoes
<1>8. Goes(t)'
  BY <1>1, <1>2, <1>3, <1>7 DEF Goes, OpFits, StoreGoes, ListGoes, NicksGo
<1>9. TableIsThere' /\ NicksAreUnique'
  BY <1>1, <1>2, TableSame, NicksSame DEF Solo
<1>10. reading' \subseteq reading \cup {t} /\ dpc'[t] # "idle"
  BY <1>1, <1>3
<1> QED BY <1>1, <1>3, <1>8, <1>9, <1>10, SoloGoesOn

\* The file is written: with the rows of the list, or not at all.
LEMMA FileSolo ==
    ASSUME StoreInv, Solo, got = [u \in DbThreads |-> got[u]], NEW t \in DbThreads, exportdb_to_external_format(t)
    PROVE  Solo'
<1>0. JobsAreSorted
  BY DEF StoreInv
<1>1. /\ dpc[t] = "file" /\ job[t].op # "dist" /\ dpc' = [dpc EXCEPT ![t] = "free"]
      /\ UNCHANGED <<loc, table, nicktab, reserved, reading, stored, emptied, job, answer>>
  BY DEF exportdb_to_external_format, rowVars, lockVars, pastVars, DbGoto
<1>2. Goes(t) /\ table
  BY <1>1, SoloAt
<1>3. dpc'[t] = "free" /\ \A u \in DbThreads \ {t} : dpc'[u] = dpc[u]
  BY <1>0, <1>1 DEF JobsAreSorted
<1>4. PICK j, r : j = job[t] /\ r = InRange(t)
  OBVIOUS
<1>5. /\ j.range \in {"all", "device"} /\ j.op \in {"export", "mail"}
      /\ j.op = "export" => j.format \in Formats \cup {"unknown"}
      /\ j.op = "mail" => j.range = "all" /\ j.format = "gpx" /\ j.file = "tmp"
  BY <1>1, <1>2, <1>4 DEF Goes, ExportGoes, OpFits
<1>6. j.format = "unknown" \/ Written(j.format, r).rows = r
  <2>1. j.format \in Formats \cup {"unknown"}
    BY <1>5 DEF Formats
  <2>2. CASE j.format = "xml"
    BY <2>2 DEF Written, export_to_prop_xml
  <2>3. CASE j.format = "gpx"
    BY <2>3 DEF Written, export_to_gpx
  <2>4. CASE j.format = "kml"
    BY <2>4 DEF Written, export_to_kml
  <2>5. CASE j.format = "csv"
    BY <2>5 DEF Written, export_to_csv
  <2>6. CASE j.format = "json"
    BY <2>6 DEF Written, export_to_json
  <2> QED BY <2>1, <2>2, <2>3, <2>4, <2>5, <2>6 DEF Formats
<1>7. r \in Seq(Nat)
  BY <1>4, ExportHas
<1>8. ASSUME ~corrupt PROVE g7loc_list = r /\ g7loc_list # Null /\ SubSeq(g7loc_list, 1, resSetLength) = r
  <2>1. g7loc_list = r /\ resSetLength = Len(r)
    BY <1>1, <1>2, <1>4, <1>8 DEF Goes, ExportGoes
  <2>2. SubSeq(r, 1, Len(r)) = r
    <3>1. PICK m \in Nat : m = Len(r)
      BY <1>7
    <3>2. SubSeq(r, 1, m) \in Seq(Nat) /\ Len(SubSeq(r, 1, m)) = m /\ \A i \in 1..m : SubSeq(r, 1, m)[i] = r[i]
      BY <1>7, <3>1
    <3> QED BY <1>7, <3>1, <3>2
  <2> QED BY <1>7, <2>1, <2>2, RowsAreNotNull
<1>9. PICK usable \in BOOLEAN : usable = (open_export_file(j.file) /\ j.format # "unknown")
  BY DEF open_export_file
<1>10. ASSUME ~corrupt, usable
       PROVE  got' = [got EXCEPT ![t] = r] /\ tmpfile' = (IF j.file = "tmp" THEN r ELSE tmpfile) /\ corrupt' = corrupt
  <2>1. Written(j.format, SubSeq(g7loc_list, 1, resSetLength)).rows = r
    BY <1>6, <1>8, <1>9, <1>10
  <2> QED BY <1>4, <1>8, <1>9, <1>10, <2>1 DEF exportdb_to_external_format
<1>11. ASSUME ~usable
       PROVE  got' = [got EXCEPT ![t] = <<-1>>] /\ corrupt' = corrupt
  BY <1>4, <1>9, <1>11 DEF exportdb_to_external_format
<1>12. ASSUME corrupt' PROVE corrupt
  <2>1. CASE usable /\ ~corrupt
    BY <1>10, <1>12, <2>1
  <2>2. CASE ~usable /\ ~corrupt
    BY <1>11, <1>12, <2>2
  <2> QED BY <2>1, <2>2
<1>13. PICK g : g = got'[t]
  OBVIOUS
<1>14. ASSUME ~corrupt', j.op = "export" PROVE ExportIsRight(j, g)'
  <2>1. ~corrupt
    <3>1. ASSUME corrupt PROVE corrupt'
      <4>1. corrupt' = corrupt \/ corrupt' = (corrupt \/ resSetLength > 0)
        BY Zenon DEF exportdb_to_external_format
      <4> QED BY ONLY <3>1, <4>1, Zenon
    <3> QED BY ONLY <1>14, <3>1, Zenon
  <2>2. CASE usable
    <3>1. g = r
      BY <1>10, <1>13, <2>1, <2>2
    <3>2. j.range # "wrong" /\ j.file # "relative" /\ j.format # "unknown"
      BY <1>5, <1>9, <2>2 DEF open_export_file
    <3>3. ExportIsRight(j, r)
      BY <1>4, <3>2, InRangeIsRight
    <3> QED BY <1>1, <3>1, <3>3 DEF ExportIsRight, ToSet
  <2>3. CASE ~usable
    <3>1. g = <<-1>>
      BY <1>11, <1>13, <2>3
    <3>2. j.file = "relative" \/ j.format = "unknown"
      BY <1>9, <2>3 DEF open_export_file
    <3> QED BY <3>1, <3>2 DEF ExportIsRight
  <2> QED BY <2>2, <2>3
<1>15. ASSUME ~corrupt', j.op = "mail" PROVE tmpfile' = loc
  <2>1. ~corrupt
    <3>1. ASSUME corrupt PROVE corrupt'
      <4>1. corrupt' = corrupt \/ corrupt' = (corrupt \/ resSetLength > 0)
        BY Zenon DEF exportdb_to_external_format
      <4> QED BY ONLY <3>1, <4>1, Zenon
    <3> QED BY ONLY <1>15, <3>1, Zenon
  <2>2. usable /\ j.file = "tmp"
    BY <1>5, <1>9, <1>15 DEF open_export_file
  <2>3. r = loc
    BY <1>4, <1>5, <1>15, ExportHas
  <2> QED BY <1>10, <2>1, <2>2, <2>3
<1>16. ExportGoes(t)'
  <2>1. dpc'[t] = "free" /\ job'[t] = j /\ j.range # "wrong" /\ loc' = loc
    BY <1>1, <1>3, <1>4, <1>5
  <2>2. got'[t] = g
    BY <1>13
  <2> QED BY <1>5, <1>15, <1>14, <2>1, <2>2 DEF ExportGoes
<1>17. Goes(t)'
  BY <1>1, <1>3, <1>4, <1>5, <1>16 DEF Goes, OpFits, StoreGoes, ListGoes, NicksGo
<1>18. TableIsThere' /\ NicksAreUnique'
  BY <1>1, <1>2, <1>12, TableSame, NicksSame DEF Solo
<1> QED BY <1>1, <1>3, <1>17, <1>18, SoloGoesOn

\* The distance is calculated over a list that is there.
LEMMA DistanceSolo ==
    ASSUME StoreInv, Solo, NEW t \in DbThreads, db_calc_distance(t)
    PROVE  Solo'
<1>0. JobsAreSorted
  BY DEF StoreInv
<1>1. /\ dpc[t] = "file" /\ job[t].op = "dist" /\ dpc' = [dpc EXCEPT ![t] = "free"]
      /\ UNCHANGED <<loc, table, nicktab, reserved, reading, stored, emptied, job, answer>>
      /\ corrupt' = (corrupt \/ (g7loc_list = Null /\ resSetLength > 1))
  BY DEF db_calc_distance, rowVars, lockVars, pastVars, DbGoto
<1>2. Goes(t) /\ table
  BY <1>1, SoloAt
<1>3. dpc'[t] = "free" /\ \A u \in DbThreads \ {t} : dpc'[u] = dpc[u]
  BY <1>0, <1>1 DEF JobsAreSorted
<1>4. ASSUME corrupt' PROVE corrupt
  <2>1. ASSUME ~corrupt PROVE FALSE
    <3>1. g7loc_list = Null
      BY ONLY <1>1, <1>4, <2>1, Zenon
    <3>2. g7loc_list = InRange(t)
      BY <1>1, <1>2, <2>1 DEF Goes, ExportGoes
    <3>3. InRange(t) \in Seq(Nat)
      BY ExportHas
    <3> QED BY ONLY <3>1, <3>2, <3>3, RowsAreNotNull
  <2> QED BY <2>1
<1>5. job'[t].op = "dist"
  BY <1>1
<1>6. Goes(t)'
  BY <1>3, <1>5 DEF Goes, OpFits, ExportGoes, StoreGoes, ListGoes, NicksGo
<1>7. TableIsThere' /\ NicksAreUnique'
  BY <1>1, <1>2, <1>4, TableSame, NicksSame DEF Solo
<1> QED BY <1>1, <1>3, <1>6, <1>7, SoloGoesOn

\* The list is freed; an export or a distance ends, a mail goes on.
LEMMA FreeSolo ==
    ASSUME StoreInv, Solo, NEW t \in DbThreads, free_internal_set(t)
    PROVE  Solo'
<1>0. JobsAreSorted
  BY DEF StoreInv
<1>1. dpc[t] = "free" /\ UNCHANGED <<loc, table, nicktab, stored, emptied, corrupt, tmpfile>>
  BY DEF free_internal_set, rowVars, pastVars, fileVars
<1>2. Goes(t) /\ table
  BY <1>1, SoloAt
<1>3. TableIsThere' /\ NicksAreUnique'
  BY <1>1, <1>2, TableSame, NicksSame DEF Solo
<1>4. CASE job[t].op # "mail"
  <2>1. PICK a : a = (IF job[t].range = "wrong" THEN <<-1>> ELSE got[t]) /\ db_close(t, a)
    BY <1>4 DEF free_internal_set
  <2>2. job[t].op # "list" /\ (job[t].op = "export" /\ ~corrupt => ExportIsRight(job[t], a))
    BY <1>1, <1>2, <2>1 DEF Goes, OpFits, ExportGoes
  <2>3. AnswerIsRight'
    BY <1>1, <1>4, <2>1, <2>2, ExportAnswer
  <2> QED BY <1>0, <1>1, <1>3, <2>1, <2>3, SoloEnds
<1>5. CASE job[t].op = "mail"
  <2>1. dpc' = [dpc EXCEPT ![t] = "compress"] /\ UNCHANGED <<reserved, reading, job, answer>>
    BY <1>5 DEF free_internal_set, DbGoto, lockVars
  <2>2. dpc'[t] = "compress" /\ job'[t].op = "mail" /\ \A u \in DbThreads \ {t} : dpc'[u] = dpc[u]
    BY <1>0, <1>5, <2>1 DEF JobsAreSorted
  <2>3. ~corrupt => tmpfile = loc
    BY <1>1, <1>2, <1>5 DEF Goes, ExportGoes
  <2>4. ExportGoes(t)'
    BY <1>1, <2>2, <2>3 DEF ExportGoes
  <2>5. Goes(t)'
    BY <2>2, <2>4 DEF Goes, OpFits, StoreGoes, ListGoes, NicksGo
  <2> QED BY <1>1, <1>3, <2>1, <2>2, <2>5, SoloGoesOn
<1> QED BY <1>4, <1>5

\* The mail: what is compressed and attached is the whole table.
LEMMA CompressSolo ==
    ASSUME StoreInv, Solo, NEW t \in DbThreads, Compress(t)
    PROVE  Solo'
<1>0. JobsAreSorted
  BY DEF StoreInv
<1>1. dpc[t] = "compress" /\ UNCHANGED <<loc, table, nicktab, stored, emptied, corrupt>>
  BY DEF Compress, rowVars, pastVars
<1>2. Goes(t) /\ table
  BY <1>1, SoloAt
<1>3. TableIsThere' /\ NicksAreUnique'
  BY <1>1, <1>2, TableSame, NicksSame DEF Solo
<1>4. job[t].op = "mail" /\ (~corrupt => tmpfile = loc)
  BY <1>1, <1>2 DEF Goes, OpFits, ExportGoes
<1>5. CASE tmpfile = Null
  <2>1. db_close(t, <<-1>>)
    BY <1>5 DEF Compress
  <2>2. AnswerIsRight'
    BY <1>1, <1>4, <2>1, ExportAnswer
  <2> QED BY <1>0, <1>1, <1>3, <2>1, <2>2, SoloEnds
<1>6. CASE tmpfile # Null
  <2>1. gzfile' = tmpfile /\ dpc' = [dpc EXCEPT ![t] = "attach"] /\ UNCHANGED <<reserved, reading, job, answer>>
    BY <1>6 DEF Compress, DbGoto, lockVars
  <2>2. dpc'[t] = "attach" /\ job'[t].op = "mail" /\ \A u \in DbThreads \ {t} : dpc'[u] = dpc[u]
    BY <1>0, <1>4, <2>1 DEF JobsAreSorted
  <2>3. ExportGoes(t)'
    BY <1>1, <1>4, <2>1, <2>2 DEF ExportGoes
  <2>4. Goes(t)'
    BY <2>2, <2>3 DEF Goes, OpFits, StoreGoes, ListGoes, NicksGo
  <2> QED BY <1>1, <1>3, <2>1, <2>2, <2>4, SoloGoesOn
<1> QED BY <1>5, <1>6

\* The mail is sent, or fails.
LEMMA AttachSolo ==
    ASSUME StoreInv, Solo, NEW t \in DbThreads, mail_as_attachment(t)
    PROVE  Solo'
<1>0. JobsAreSorted
  BY DEF StoreInv
<1>1. dpc[t] = "attach" /\ UNCHANGED <<loc, table, nicktab, stored, emptied, corrupt>>
  BY DEF mail_as_attachment, rowVars, pastVars
<1>2. Goes(t) /\ table
  BY <1>1, SoloAt
<1>3. TableIsThere' /\ NicksAreUnique'
  BY <1>1, <1>2, TableSame, NicksSame DEF Solo
<1>4. job[t].op = "mail" /\ (~corrupt => gzfile = loc)
  BY <1>1, <1>2 DEF Goes, OpFits, ExportGoes
<1>5. PICK a \in {gzfile, <<-1>>} : db_close(t, a)
  BY DEF mail_as_attachment
<1>6. AnswerIsRight'
  <2>1. ~corrupt => a \in {loc, <<-1>>}
    BY <1>4
  <2> QED BY <1>1, <1>4, <1>5, <2>1, ExportAnswer
<1> QED BY <1>0, <1>1, <1>3, <1>5, <1>6, SoloEnds

-----------------------------------------------------------------------------
(* One operation at a time: nicknames and the order of the lists.          *)

\* Any sequence is one of its own elements.
LEMMA SeqOfItself ==
    ASSUME NEW S, NEW s \in Seq(S)
    PROVE  s \in Seq(ToSet(s)) /\ DOMAIN s \subseteq Int
<1>1. PICK n \in Nat : n = Len(s) /\ DOMAIN s = 1..n
  OBVIOUS
<1>2. s \in [1..n -> ToSet(s)]
  <2>1. \A i \in 1..n : s[i] \in ToSet(s)
    BY <1>1 DEF ToSet
  <2>2. s = [i \in 1..n |-> s[i]]
    BY <1>1
  <2> QED BY <2>1, <2>2
<1> QED BY <1>1, <1>2

\* What a query for nicknames begins with.
LEMMA StartNicksSolo ==
    ASSUME StoreInv, Solo, ~met', NEW t \in DbThreads, NEW op \in {"update", "get"}, NEW by, NEW nick, NEW devid, NEW imei,
           op = "update" => by = "imei", SelectNick(t, op, by, nick, devid, imei)
    PROVE  Solo'
<1>0. JobsAreSorted
  BY DEF StoreInv
<1>1. PICK j : j = [op |-> op, by |-> by, nick |-> nick, devid |-> devid, imei |-> imei]
  OBVIOUS
<1>2. db_setup(t, j) /\ DbGoto(t, "nicks") /\ row' = [row EXCEPT ![t] = 1] /\ nick_cb_cnt' = 0
  BY <1>1 DEF SelectNick
<1>3. reserved' = reserved /\ reading' \subseteq reading \cup {t} /\ UNCHANGED <<loc, table, nicktab, stored, emptied, corrupt>>
  BY DEF SelectNick, rowVars, pastVars
<1>4. dpc'[t] = "nicks" /\ job'[t].op = op /\ job'[t].by = by /\ row'[t] = 1
  BY <1>0, <1>1, <1>2 DEF db_setup, DbGoto, JobsAreSorted
<1>5. Goes(t)'
  BY <1>2, <1>4 DEF Goes, OpFits, StoreGoes, ListGoes, ExportGoes, NicksGo
<1> QED BY <1>0, <1>2, <1>3, <1>5, SoloStarts

\* A row of the query is counted.
LEMMA NickRowSolo ==
    ASSUME StoreInv, Solo, NEW t \in DbThreads, update_nick_callback(t)
    PROVE  Solo'
<1>0. JobsAreSorted
  BY DEF StoreInv
<1>1. /\ dpc[t] = "nicks" /\ nick_cb_cnt' = nick_cb_cnt + 1 /\ row' = [row EXCEPT ![t] = @ + 1]
      /\ UNCHANGED <<loc, table, nicktab, reserved, reading, stored, emptied, corrupt, dpc, job, answer>>
  BY DEF update_nick_callback, rowVars, lockVars, pastVars
<1>2. Goes(t) /\ table
  BY <1>1, SoloAt
<1>3. nick_cb_cnt = row[t] - 1 /\ row[t] \in Nat \ {0} /\ row'[t] = row[t] + 1
  BY <1>0, <1>1, <1>2 DEF Goes, NicksGo, JobsAreSorted
<1>4. nick_cb_cnt' = row'[t] - 1 /\ row'[t] \in Nat \ {0}
  BY <1>1, <1>3
<1>5. Goes(t)'
  BY <1>1, <1>2, <1>4 DEF Goes, OpFits, StoreGoes, ListGoes, ExportGoes, NicksGo
<1>6. TableIsThere' /\ NicksAreUnique'
  BY <1>1, <1>2, TableSame, NicksSame DEF Solo
<1> QED BY <1>1, <1>5, <1>6, SoloGoesOn

\* The rows that match a query are finitely many; when there are none, no row matches.
LEMMA NickRowsHas ==
    ASSUME NicksAreUnique, NEW j
    PROVE  /\ Len(NickRows(j)) \in Nat
           /\ Len(NickRows(j)) = 0 => NickRows(j) = <<>>
           /\ NickRows(j) = <<>> => \A i \in DOMAIN nicktab : ~NickMatches(j, nicktab[i])
<1>1. PICK K \in SUBSET DOMAIN nicktab : K = {i \in DOMAIN nicktab : NickMatches(j, nicktab[i])}
  OBVIOUS
<1>2. PICK r : r = NickRows(j)
  OBVIOUS
<1>3. r = Kept(nicktab, K)
  BY <1>1, <1>2 DEF NickRows
<1>4. PICK S : nicktab \in Seq(S)
  BY DEF NicksAreUnique
<1>5. r \in Seq(S) /\ \A i \in K : \E k \in DOMAIN r : r[k] = nicktab[i]
  BY ONLY <1>3, <1>4, KeptHas, K \in SUBSET DOMAIN nicktab
<1>6. ASSUME r = <<>>, NEW i \in DOMAIN nicktab PROVE ~NickMatches(j, nicktab[i])
  <2>1. i \notin K
    BY <1>5, <1>6
  <2> QED BY <1>1, <2>1
<1>7. Len(r) \in Nat /\ (Len(r) = 0 => r = <<>>)
  BY ONLY <1>5
<1> QED BY ONLY <1>2, <1>6, <1>7

\* There are no more rows: when none was counted, none matches.
LEMMA EndNicksSolo ==
    ASSUME StoreInv, Solo, NEW t \in DbThreads, EndNicks(t)
    PROVE  Solo'
<1>0. JobsAreSorted
  BY DEF StoreInv
<1>1. /\ dpc[t] = "nicks" /\ row[t] > Len(NickRows(job[t])) /\ reading' = reading \ {t}
      /\ dpc' = [dpc EXCEPT ![t] = IF job[t].op = "update" THEN "update" ELSE "nickname"]
      /\ UNCHANGED <<loc, table, nicktab, reserved, stored, emptied, corrupt, job, answer, nick_cb_cnt>>
  BY DEF EndNicks, rowVars, nickVars, pastVars, DbGoto
<1>2. Goes(t) /\ table
  BY <1>1, SoloAt
<1>3. dpc'[t] = (IF job[t].op = "update" THEN "update" ELSE "nickname") /\ \A u \in DbThreads \ {t} : dpc'[u] = dpc[u]
  BY <1>0, <1>1 DEF JobsAreSorted
<1>4. /\ job[t].op \in {"update", "get"} /\ (job[t].op = "update" => job[t].by = "imei")
      /\ nick_cb_cnt = row[t] - 1 /\ row[t] \in Nat \ {0}
  BY <1>1, <1>2 DEF Goes, OpFits, NicksGo
<1>5. PICK j, r : j = job[t] /\ r = NickRows(j)
  OBVIOUS
<1>6. nick_cb_cnt = 0 => r = <<>>
  <2>1. NicksAreUnique
    BY DEF Solo
  <2>2. Len(r) \in Nat /\ (Len(r) = 0 => r = <<>>)
    BY ONLY <1>5, <2>1, NickRowsHas
  <2>3. row[t] > Len(r)
    BY <1>1, <1>5
  <2> QED BY ONLY <1>4, <2>2, <2>3
<1>7. NickRows(j)' = r
  BY <1>1, <1>5 DEF NickRows, NickMatches
<1>8. NicksGo(t)'
  <2>1. job'[t] = j /\ nick_cb_cnt' = nick_cb_cnt
    BY <1>1, <1>5
  <2> QED BY <1>3, <1>4, <1>5, <1>6, <1>7, <2>1 DEF NicksGo
<1>9. Goes(t)'
  BY <1>1, <1>3, <1>4, <1>8 DEF Goes, OpFits, StoreGoes, ListGoes, ExportGoes
<1>10. TableIsThere' /\ NicksAreUnique'
  BY <1>1, <1>2, TableSame, NicksSame DEF Solo
<1>11. reading' \subseteq reading \cup {t} /\ dpc'[t] # "idle"
  BY <1>1, <1>3
<1> QED BY <1>1, <1>3, <1>9, <1>10, <1>11, SoloGoesOn

\* One row of a device is updated, and one is added only when the device has none.
LEMMA UpdateNickSolo ==
    ASSUME StoreInv, Solo, NEW t \in DbThreads, db_update_nick(t)
    PROVE  Solo'
<1>0. JobsAreSorted
  BY DEF StoreInv
<1>1. /\ dpc[t] = "update" /\ (\E a : db_close(t, a))
      /\ UNCHANGED <<loc, table, stored, emptied, corrupt>>
  BY DEF db_update_nick, pastVars
<1>2. Goes(t) /\ NicksAreUnique
  BY <1>1, SoloAt DEF Solo
<1>3. PICK j : j = job[t]
  OBVIOUS
<1>4. j.op = "update" /\ j.by = "imei" /\ (nick_cb_cnt = 0 => NickRows(j) = <<>>)
  BY <1>1, <1>2, <1>3 DEF Goes, OpFits, NicksGo
<1>5. PICK S : nicktab \in Seq(S)
  BY <1>2 DEF NicksAreUnique
<1>6. PICK L \in Nat : L = Len(nicktab) /\ DOMAIN nicktab = 1..L
  BY <1>5
<1>7. NicksAreUnique'
  <2>1. CASE nicktab' = nicktab
    BY <1>2, <2>1, NicksSame
  <2>2. CASE nick_cb_cnt = 1 /\ nicktab' # nicktab
    <3>1. PICK f : nicktab' = [i \in 1..L |-> IF nicktab[i].imei # j.imei THEN nicktab[i]
                                              ELSE [nick |-> f.nick, devid |-> f.devid, imei |-> j.imei]]
      <4>1. PICK f : f = [nick |-> Or(j.nick, nick_res_set[1].nick), devid |-> Or(j.devid, nick_res_set[1].devid)]
        OBVIOUS
      <4>2. f.nick = Or(j.nick, nick_res_set[1].nick) /\ f.devid = Or(j.devid, nick_res_set[1].devid)
        BY <4>1
      <4>3. nicktab' = [i \in DOMAIN nicktab |->
                          IF nicktab[i].imei # j.imei THEN nicktab[i]
                          ELSE [nick |-> Or(j.nick, nick_res_set[1].nick), devid |-> Or(j.devid, nick_res_set[1].devid),
                                imei |-> j.imei]]
        BY <1>3, <2>2 DEF db_update_nick
      <4> QED BY ONLY <1>6, <4>2, <4>3
    <3>2. \A i \in 1..L : nicktab'[i].imei = nicktab[i].imei
      BY ONLY <3>1
    <3>3. DOMAIN nicktab' = 1..L /\ ToSet(nicktab') = {nicktab'[i] : i \in 1..L}
      BY <3>1 DEF ToSet
    <3>4. nicktab' \in [1..L -> ToSet(nicktab')]
      BY ONLY <3>1, <3>3
    <3>5. nicktab' \in Seq(ToSet(nicktab'))
      BY ONLY <3>4, L \in Nat
    <3>6. \A i, k \in 1..L : nicktab'[i].imei = nicktab'[k].imei => i = k
      BY <1>2, <1>6, <3>2 DEF NicksAreUnique
    <3> QED BY <3>3, <3>5, <3>6 DEF NicksAreUnique, ToSet
  <2>3. CASE nick_cb_cnt # 1 /\ nicktab' # nicktab
    <3>1. PICK x : nick_cb_cnt = 0 /\ nicktab' = Append(nicktab, x) /\ x.imei = j.imei
      <4>1. nick_cb_cnt = 0 /\ nicktab' = Append(nicktab, [nick |-> j.nick, devid |-> j.devid, imei |-> j.imei])
        BY <1>3, <2>3 DEF db_update_nick
      <4> QED BY <4>1
    <3>2. \A i \in 1..L : nicktab[i].imei # j.imei
      BY <1>2, <1>4, <1>6, <3>1, NickRowsHas DEF NickMatches
    <3>3. /\ nicktab' \in Seq(S \cup {x}) /\ DOMAIN nicktab' = 1..(L + 1)
          /\ \A i \in 1..L : nicktab'[i] = nicktab[i]
          /\ nicktab'[L + 1] = x
      <4>1. nicktab \in Seq(S \cup {x})
        BY <1>5
      <4> QED BY ONLY <1>5, <1>6, <3>1, <4>1
    <3>4. \A i, k \in 1..(L + 1) : nicktab'[i].imei = nicktab'[k].imei => i = k
      <4> SUFFICES ASSUME NEW i \in 1..(L + 1), NEW k \in 1..(L + 1), nicktab'[i].imei = nicktab'[k].imei PROVE i = k
        OBVIOUS
      <4>1. CASE i \in 1..L /\ k \in 1..L
        BY <1>2, <1>6, <3>3, <4>1 DEF NicksAreUnique
      <4>2. CASE i = L + 1 /\ k \in 1..L
        BY <3>1, <3>2, <3>3, <4>2
      <4>3. CASE i \in 1..L /\ k = L + 1
        BY <3>1, <3>2, <3>3, <4>3
      <4> QED BY <4>1, <4>2, <4>3
    <3>5. nicktab' \in Seq(ToSet(nicktab'))
      BY <3>3, SeqOfItself
    <3> QED BY <3>3, <3>4, <3>5 DEF NicksAreUnique, ToSet
  <2> QED BY <2>1, <2>2, <2>3
<1> QED BY <1>0, <1>1, <1>3, <1>4, <1>7, QuietEnd

\* An answer about nicknames changes none.
LEMMA GetNickSolo ==
    ASSUME StoreInv, Solo, NEW t \in DbThreads, db_get_nick(t) \/ db_get_nick_list(t)
    PROVE  Solo'
<1>0. JobsAreSorted
  BY DEF StoreInv
<1>1. dpc[t] = "nickname" /\ (\E a : db_close(t, a)) /\ UNCHANGED <<loc, table, nicktab, stored, emptied, corrupt>>
  BY DEF db_get_nick, db_get_nick_list, rowVars, pastVars
<1>2. Goes(t)
  BY <1>1, SoloAt
<1>3. job[t].op = "get" /\ NicksAreUnique'
  BY <1>1, <1>2, NicksSame DEF Goes, OpFits, Solo
<1> QED BY <1>0, <1>1, <1>3, QuietEnd

\* Deleting keeps the other rows as they are.
LEMMA DeleteNickSolo ==
    ASSUME StoreInv, Solo, NEW t \in DbThreads
    PROVE  /\ \A nick : db_delete_nick(t, nick) /\ ~met' => Solo'
           /\ EndDelete(t) => Solo'
<1>0. JobsAreSorted
  BY DEF StoreInv
<1>1. ASSUME NEW nick, db_delete_nick(t, nick), ~met' PROVE Solo'
  <2>1. PICK j : j = [op |-> "delete", by |-> "nick", nick |-> nick, devid |-> 0, imei |-> 0]
    OBVIOUS
  <2>2. db_setup(t, j) /\ DbGoto(t, "delete")
    BY <1>1, <2>1 DEF db_delete_nick
  <2>3. reserved' = reserved /\ reading' = reading /\ UNCHANGED <<loc, table, nicktab, stored, emptied, corrupt>>
    BY <1>1 DEF db_delete_nick, rowVars, lockVars, pastVars
  <2>4. dpc'[t] = "delete" /\ job'[t].op = "delete"
    BY <1>0, <2>1, <2>2 DEF db_setup, DbGoto, JobsAreSorted
  <2>5. Goes(t)'
    BY <2>4 DEF Goes, OpFits, StoreGoes, ListGoes, ExportGoes, NicksGo
  <2> QED BY <1>0, <1>1, <2>2, <2>3, <2>5, SoloStarts
<1>2. ASSUME EndDelete(t) PROVE Solo'
  <2>1. dpc[t] = "delete" /\ (\E a : db_close(t, a)) /\ UNCHANGED <<loc, table, stored, emptied, corrupt>>
    BY <1>2 DEF EndDelete, pastVars
  <2>2. CanWrite(t) /\ Goes(t) /\ NicksAreUnique
    BY <2>1, SoloAt DEF Solo
  <2>3. PICK K \in SUBSET DOMAIN nicktab : nicktab' = Kept(nicktab, K)
    <3>1. nicktab' = Kept(nicktab, {i \in DOMAIN nicktab : nicktab[i].nick # job[t].nick})
      BY <1>2, <2>2 DEF EndDelete
    <3> QED BY <3>1
  <2>4. PICK S : nicktab \in Seq(S)
    BY <2>2 DEF NicksAreUnique
  <2>5. /\ nicktab' \in Seq(S)
        /\ \A i, k \in DOMAIN nicktab' : i < k => \E a, b \in K : a < b /\ nicktab'[i] = nicktab[a] /\ nicktab'[k] = nicktab[b]
    BY ONLY <2>3, <2>4, KeptHas, K \in SUBSET DOMAIN nicktab
  <2>6. ASSUME NEW i \in DOMAIN nicktab', NEW k \in DOMAIN nicktab', i < k PROVE nicktab'[i].imei # nicktab'[k].imei
    <3>1. PICK a \in DOMAIN nicktab, b \in DOMAIN nicktab : a < b /\ nicktab'[i] = nicktab[a] /\ nicktab'[k] = nicktab[b]
      BY <2>5, <2>6
    <3>2. a # b
      BY <2>4, <3>1
    <3> QED BY <2>2, <3>1, <3>2 DEF NicksAreUnique
  <2>7. nicktab' \in Seq(ToSet(nicktab')) /\ DOMAIN nicktab' \subseteq Int
    BY <2>5, SeqOfItself
  <2>8. \A i, k \in DOMAIN nicktab' : nicktab'[i].imei = nicktab'[k].imei => i = k
    BY <2>6, <2>7
  <2>9. NicksAreUnique'
    BY <2>7, <2>8 DEF NicksAreUnique, ToSet
  <2>10. job[t].op = "delete"
    BY <2>1, <2>2 DEF Goes, OpFits
  <2> QED BY <1>0, <2>1, <2>9, <2>10, QuietEnd
<1> QED BY <1>1, <1>2

-----------------------------------------------------------------------------
(* One operation at a time: the theorem.                                   *)

\* Every thread keeps a result of its own.
LEMMA GotKept ==
    ASSUME got = [u \in DbThreads |-> got[u]], DbNext
    PROVE  got' = [u \in DbThreads |-> got'[u]]
<1>1. got' = got \/ \E t \in DbThreads : \E x : got' = [got EXCEPT ![t] = x]
  <2>1. ASSUME NEW t \in DbThreads, NEW a, db_close(t, a) PROVE got' = [got EXCEPT ![t] = <<>>]
    BY <2>1 DEF db_close
  <2>2. ASSUME NEW t \in DbThreads,
               \/ CannotPrepare(t) \/ MalformedLine(t) \/ InsertRow(t) \/ RowCallback(t) \/ Commit(t)
               \/ DropTable(t) \/ Vacuum(t) \/ CreateTable(t) \/ EndExecSql(t)
        PROVE  got' = got \/ \E a : db_close(t, a)
    BY <2>2 DEF CannotPrepare, MalformedLine, InsertRow, RowCallback, Commit, EndStore, DropTable, Vacuum, CreateTable,
                EndExecSql
  <2>3. ASSUME NEW t \in DbThreads,
               \/ EndSelect(t) \/ ListError(t) \/ ShowList(t) \/ mail_lastloc(t) \/ sqres_export_callback(t)
               \/ EndFill(t) \/ free_internal_set(t) \/ Compress(t) \/ mail_as_attachment(t)
        PROVE  got' = got \/ \E a : db_close(t, a)
    BY <2>3 DEF EndSelect, ListError, ShowList, mail_lastloc, sqres_export_callback, EndFill, free_internal_set,
                Compress, mail_as_attachment
  <2>4. ASSUME NEW t \in DbThreads,
               \/ update_nick_callback(t) \/ EndNicks(t) \/ db_update_nick(t) \/ db_get_nick(t) \/ db_get_nick_list(t)
               \/ EndDelete(t)
        PROVE  got' = got \/ \E a : db_close(t, a)
    BY <2>4 DEF update_nick_callback, EndNicks, db_update_nick, db_get_nick, db_get_nick_list, EndDelete
  <2>5. ASSUME NEW t \in DbThreads,
               sql_reslist_callback(t) \/ exportdb_to_external_format(t) \/ db_calc_distance(t)
        PROVE  got' = got \/ \E x : got' = [got EXCEPT ![t] = x]
    <3>1. CASE sql_reslist_callback(t)
      BY <3>1 DEF sql_reslist_callback
    <3>2. CASE exportdb_to_external_format(t)
      BY <3>2, Zenon DEF exportdb_to_external_format
    <3>3. CASE db_calc_distance(t)
      BY <3>3 DEF db_calc_distance
    <3> QED BY <2>5, <3>1, <3>2, <3>3
  <2>6. ASSUME NEW t \in DbThreads, DbStep(t) PROVE got' = got \/ \E x : got' = [got EXCEPT ![t] = x]
    <3>1. got' = got \/ (\E a : db_close(t, a)) \/ \E x : got' = [got EXCEPT ![t] = x]
      BY <2>2, <2>3, <2>4, <2>5, <2>6 DEF DbStep
    <3> QED BY <2>1, <3>1
  <2>7. ASSUME NEW t \in DbThreads, DbStart(t) PROVE got' = got \/ \E x : got' = [got EXCEPT ![t] = x]
    <3>1. ASSUME NEW b, NEW cb, StartStore(t, b, cb) PROVE got' = got
      BY <3>1 DEF StartStore
    <3>2. ASSUME StartEmpty(t) \/ ExecSql(t) \/ \E n : db_delete_nick(t, n) PROVE got' = got
      BY <3>2 DEF StartEmpty, ExecSql, db_delete_nick
    <3>3. ASSUME NEW op, NEW head, NEW n, db_loclist(t, op, head, n) PROVE \E x : got' = [got EXCEPT ![t] = x]
      BY <3>3 DEF db_loclist
    <3>4. ASSUME NEW op, NEW range, NEW format, NEW file, export_to_internal_set(t, op, range, format, file)
          PROVE  got' = got
      BY <3>4 DEF export_to_internal_set
    <3>5. ASSUME NEW op, NEW by, NEW nick, NEW devid, NEW imei, SelectNick(t, op, by, nick, devid, imei)
          PROVE  got' = got
      BY <3>5 DEF SelectNick
    <3> QED BY <2>7, <3>1, <3>2, <3>3, <3>4, <3>5, ZenonT(60) DEF DbStart
  <2>8. ASSUME NEW o, db_set_sortorder(o) PROVE got' = got
    BY <2>8 DEF db_set_sortorder
  <2> QED BY <2>6, <2>7, <2>8 DEF DbNext
<1> QED BY <1>1

\* An operation begins when no other is under way.
LEMMA StartSolo ==
    ASSUME StoreInv, Solo, got = [u \in DbThreads |-> got[u]], ~met', NEW t \in DbThreads, DbStart(t)
    PROVE  Solo'
<1>1. ASSUME NEW b \in Batches, StartStore(t, b, Len(b) = 1) PROVE Solo'
  BY <1>1, StartStoreSolo
<1>2. CASE StartEmpty(t) \/ ExecSql(t)
  BY <1>2, EmptySolo, ExecSolo
<1>3. CASE \/ \E head \in BOOLEAN, n \in {1, 3} : db_loclist(t, "list", head, n)
           \/ db_loclist(t, "mailloc", TRUE, 1)
  <2>1. 1 \in Nat \ {0} /\ 3 \in Nat \ {0} /\ TRUE \in BOOLEAN
    OBVIOUS
  <2> QED BY <1>3, <2>1, StartListSolo
<1>4. CASE \/ \E r \in Ranges, f \in {"csv", "xml", "unknown"} : export_to_internal_set(t, "export", r, f, "absolute")
           \/ \E f \in {"gpx", "kml", "json"} : export_to_internal_set(t, "export", "all", f, "relative")
           \/ export_to_internal_set(t, "dist", "all", "none", "none")
           \/ export_to_internal_set(t, "mail", "all", "gpx", "tmp")
  <2>1. "all" \in Ranges /\ {"csv", "xml", "unknown", "gpx", "kml", "json"} \subseteq Formats \cup {"unknown"}
    BY DEF Ranges, Formats
  <2>2. ASSUME NEW r \in Ranges, NEW f \in {"csv", "xml", "unknown"}, export_to_internal_set(t, "export", r, f, "absolute")
        PROVE  Solo'
    BY <2>1, <2>2, StartExportSolo
  <2>3. ASSUME NEW f \in {"gpx", "kml", "json"}, export_to_internal_set(t, "export", "all", f, "relative")
        PROVE  Solo'
    BY <2>1, <2>3, StartExportSolo
  <2>4. CASE export_to_internal_set(t, "dist", "all", "none", "none")
    BY <2>1, <2>4, StartExportSolo
  <2>5. CASE export_to_internal_set(t, "mail", "all", "gpx", "tmp")
    BY <2>1, <2>5, StartExportSolo
  <2> QED BY <1>4, <2>2, <2>3, <2>4, <2>5
<1>5. ASSUME NEW nick, NEW devid, NEW imei, SelectNick(t, "update", "imei", nick, devid, imei) PROVE Solo'
  BY <1>5, StartNicksSolo
<1>6. ASSUME NEW by, NEW nick, NEW devid, NEW imei, SelectNick(t, "get", by, nick, devid, imei) PROVE Solo'
  BY <1>6, StartNicksSolo
<1>7. ASSUME NEW n, db_delete_nick(t, n) PROVE Solo'
  BY <1>7, DeleteNickSolo
<1> HIDE DEF Solo
<1> QED BY <1>1, <1>2, <1>3, <1>4, <1>5, <1>6, <1>7, ZenonT(60) DEF DbStart

\* An operation that is alone takes a step.
LEMMA StepSolo ==
    ASSUME StoreInv, StoreInv', Solo, got = [u \in DbThreads |-> got[u]], NEW t \in DbThreads, DbStep(t)
    PROVE  Solo'
<1>1. CASE CannotPrepare(t) \/ MalformedLine(t) \/ InsertRow(t) \/ RowCallback(t) \/ Commit(t)
  BY <1>1, MalformedSolo, InsertSolo, CallbackSolo, CommitSolo
<1>2. CASE DropTable(t) \/ Vacuum(t) \/ CreateTable(t) \/ EndExecSql(t)
  BY <1>2, EmptySolo, ExecSolo
<1>3. CASE sql_reslist_callback(t) \/ EndSelect(t) \/ ListError(t) \/ ShowList(t) \/ mail_lastloc(t)
  BY <1>3, SelectSolo, EndSelectSolo, ListErrorSolo, ShowListSolo, MailLocSolo
<1>4. CASE sqres_export_callback(t) \/ EndFill(t) \/ exportdb_to_external_format(t) \/ db_calc_distance(t)
  BY <1>4, FillSolo, EndFillSolo, FileSolo, DistanceSolo
<1>5. CASE free_internal_set(t) \/ Compress(t) \/ mail_as_attachment(t)
  BY <1>5, FreeSolo, CompressSolo, AttachSolo
<1>6. CASE update_nick_callback(t) \/ EndNicks(t) \/ db_update_nick(t) \/ db_get_nick(t) \/ db_get_nick_list(t) \/ EndDelete(t)
  BY <1>6, NickRowSolo, EndNicksSolo, UpdateNickSolo, GetNickSolo, DeleteNickSolo
<1> QED BY <1>1, <1>2, <1>3, <1>4, <1>5, <1>6 DEF DbStep

\* The order of the lists changes between two operations.
LEMMA OrderSolo ==
    ASSUME Solo, NEW o, db_set_sortorder(o)
    PROVE  Solo'
<1>1. /\ UNCHANGED <<loc, table, nicktab, reserved, reading, dpc, stored, emptied, corrupt>>
      /\ answer' = NoAnswer /\ \A t \in DbThreads : dpc[t] = "idle"
  BY DEF db_set_sortorder, rowVars, lockVars, pastVars
<1>2. table
  BY <1>1 DEF Solo, TableIsThere
<1>3. OneAtATime' /\ TableIsThere' /\ NicksAreUnique' /\ AnswerIsRight'
  BY <1>1, <1>2, TableSame, NicksSame DEF Solo, OneAtATime, AnswerIsRight, NoAnswer, Idle
<1>4. ASSUME NEW t \in DbThreads PROVE Goes(t)'
  <2>1. dpc'[t] = "idle"
    BY <1>1
  <2> QED BY <2>1 DEF Goes, OpFits, StoreGoes, ListGoes, ExportGoes, NicksGo
<1> QED BY <1>3, <1>4 DEF Solo

\* Two operations that have overlapped have overlapped.
LEMMA MetStays ==
    ASSUME DbNext, ~met'
    PROVE  ~met
<1>1. ASSUME NEW t \in DbThreads, NEW j, db_setup(t, j) PROVE ~met
  BY <1>1, SoloBegins
<1>2. ASSUME NEW t \in DbThreads, DbStart(t) PROVE \E j : db_setup(t, j)
  <2>1. ASSUME NEW b, NEW cb, StartStore(t, b, cb) PROVE \E j : db_setup(t, j)
    BY <2>1 DEF StartStore
  <2>2. ASSUME StartEmpty(t) \/ ExecSql(t) \/ \E n : db_delete_nick(t, n) PROVE \E j : db_setup(t, j)
    BY <2>2 DEF StartEmpty, ExecSql, db_delete_nick
  <2>3. ASSUME NEW op, NEW head, NEW n, db_loclist(t, op, head, n) PROVE \E j : db_setup(t, j)
    BY <2>3 DEF db_loclist
  <2>4. ASSUME NEW op, NEW range, NEW format, NEW file, export_to_internal_set(t, op, range, format, file)
        PROVE  \E j : db_setup(t, j)
    BY <2>4 DEF export_to_internal_set
  <2>5. ASSUME NEW op, NEW by, NEW nick, NEW devid, NEW imei, SelectNick(t, op, by, nick, devid, imei)
        PROVE  \E j : db_setup(t, j)
    BY <2>5 DEF SelectNick
  <2> QED BY <1>2, <2>1, <2>2, <2>3, <2>4, <2>5, ZenonT(60) DEF DbStart
<1>3. ASSUME NEW t \in DbThreads, DbStep(t) PROVE met' = met
  <2>1. CASE \/ CannotPrepare(t) \/ MalformedLine(t) \/ InsertRow(t) \/ RowCallback(t) \/ Commit(t)
             \/ DropTable(t) \/ Vacuum(t) \/ CreateTable(t) \/ EndExecSql(t) \/ EndDelete(t)
    BY <2>1 DEF CannotPrepare, MalformedLine, InsertRow, RowCallback, Commit, DropTable, Vacuum, CreateTable,
                EndExecSql, EndDelete
  <2>2. CASE \/ sql_reslist_callback(t) \/ EndSelect(t) \/ ListError(t) \/ ShowList(t) \/ mail_lastloc(t)
             \/ sqres_export_callback(t) \/ EndFill(t) \/ db_calc_distance(t)
             \/ free_internal_set(t) \/ Compress(t) \/ mail_as_attachment(t)
    BY <2>2 DEF sql_reslist_callback, EndSelect, ListError, ShowList, mail_lastloc, sqres_export_callback, EndFill,
                db_calc_distance, free_internal_set, Compress, mail_as_attachment
  <2>3. CASE update_nick_callback(t) \/ EndNicks(t) \/ db_update_nick(t) \/ db_get_nick(t) \/ db_get_nick_list(t)
    BY <2>3 DEF update_nick_callback, EndNicks, db_update_nick, db_get_nick, db_get_nick_list
  <2>4. CASE exportdb_to_external_format(t)
    BY <2>4, Zenon DEF exportdb_to_external_format
  <2> QED BY <1>3, <2>1, <2>2, <2>3, <2>4 DEF DbStep
<1>4. ASSUME NEW o, db_set_sortorder(o) PROVE met' = met
  BY <1>4 DEF db_set_sortorder
<1> QED BY <1>1, <1>2, <1>3, <1>4 DEF DbNext

\* The invariant holds of the database from an earlier run.
LEMMA SoloInitial == DbInit => SoloInv
<1> SUFFICES ASSUME DbInit PROVE SoloInv
  OBVIOUS
<1>1. got = [t \in DbThreads |-> got[t]] /\ \A t \in DbThreads : dpc[t] = "idle"
  BY DEF DbInit
<1>2. OneAtATime
  BY <1>1 DEF DbInit, OneAtATime
<1>3. TableIsThere
  BY FS_EmptySet DEF DbInit, TableIsThere
<1>4. NicksAreUnique
  <2>1. PICK r : nicktab = <<r>>
    BY DEF DbInit
  <2>2. ToSet(nicktab) = {r} /\ DOMAIN nicktab = {1}
    BY <2>1 DEF ToSet
  <2> QED BY <2>1, <2>2 DEF NicksAreUnique
<1>5. AnswerIsRight
  BY DEF DbInit, AnswerIsRight, NoAnswer, Idle
<1> QED BY <1>1, <1>2, <1>3, <1>4, <1>5, IdleGoes DEF SoloInv, Solo

\* Every step keeps the invariant.
LEMMA SoloKept == StoreInv /\ StoreInv' /\ SoloInv /\ [DbNext]_dbVars => SoloInv'
<1> SUFFICES ASSUME StoreInv, StoreInv', SoloInv, [DbNext]_dbVars PROVE SoloInv'
  OBVIOUS
<1>1. CASE UNCHANGED dbVars
  <2>1. UNCHANGED <<loc, table, nicktab, reserved, reading, pend, num_cb, max_num_cb, nick_cb_cnt, nick_res_set>>
    BY <1>1 DEF dbVars, rowVars, lockVars, cbVars, nickVars
  <2>2. UNCHANGED <<g7loc_list, resSetLength, tmpfile, gzfile, files, sort_order, dpc, job, row, got, answer>>
    BY <1>1 DEF dbVars, expVars, fileVars, pcVars
  <2>3. UNCHANGED <<told, bulk, stored, failed, emptied, met, corrupt>>
    BY <1>1 DEF dbVars, pastVars
  <2>4. OneAtATime' <=> OneAtATime
    BY <2>1, <2>2 DEF OneAtATime
  <2>5. TableIsThere' <=> TableIsThere
    BY <2>1, <2>2, <2>3 DEF TableIsThere, ToSet
  <2>6. NicksAreUnique' <=> NicksAreUnique
    BY <2>1 DEF NicksAreUnique, ToSet
  <2>7. AnswerIsRight => AnswerIsRight'
    <3>1. PICK j, a : j = answer.job /\ a = answer.out /\ answer' = answer
      BY <2>2
    <3>2. ListIsRight(j, a) => ListIsRight(j, a)'
      <4>1. \A n : Age(n)' = Age(n)
        BY <2>1, <2>2 DEF Age
      <4>2. ToSet(loc)' = ToSet(loc) /\ ToSet(a)' = ToSet(a)
        BY <2>1 DEF ToSet
      <4> QED BY <2>1, <4>1, <4>2 DEF ListIsRight
    <3>3. ExportIsRight(j, a) => ExportIsRight(j, a)'
      BY <2>1 DEF ExportIsRight, ToSet
    <3> QED BY <2>1, <2>3, <3>1, <3>2, <3>3 DEF AnswerIsRight
  <2>8. ASSUME NEW t \in DbThreads, Goes(t) PROVE Goes(t)'
    <3>1. Selected(t)' = Selected(t) /\ InRange(t)' = InRange(t)
      BY <2>1, <2>2, SelectedIs, InRangeSame
    <3>2. OpFits(t)' /\ StoreGoes(t)' /\ ListGoes(t)'
      BY <2>1, <2>2, <2>8, <3>1 DEF Goes, OpFits, StoreGoes, ListGoes, Through, ToSet
    <3>3. ExportGoes(t)'
      <4>1. PICK j, a : j = job[t] /\ a = (IF job[t].range = "wrong" THEN <<-1>> ELSE got[t])
        OBVIOUS
      <4>2. ExportIsRight(j, a) => ExportIsRight(j, a)'
        BY <2>1 DEF ExportIsRight, ToSet
      <4>3. job' = job /\ got' = got
        BY <2>2
      <4>4. ExportGoes(t)
        BY <2>8 DEF Goes
      <4> QED BY <2>1, <2>2, <2>3, <3>1, <4>1, <4>2, <4>3, <4>4 DEF ExportGoes
    <3>4. NicksGo(t)'
      BY <2>1, <2>2, <2>8 DEF Goes, NicksGo, NickRows, NickMatches
    <3> QED BY <3>2, <3>3, <3>4 DEF Goes
  <2>9. Solo => Solo'
    BY <2>4, <2>5, <2>6, <2>7, <2>8 DEF Solo
  <2> QED BY <2>2, <2>3, <2>9 DEF SoloInv
<1>2. CASE DbNext
  <2>1. got = [t \in DbThreads |-> got[t]] /\ got' = [t \in DbThreads |-> got'[t]]
    BY <1>2, GotKept DEF SoloInv
  <2>2. ASSUME ~met' PROVE Solo'
    <3>1. Solo
      BY <1>2, <2>2, MetStays DEF SoloInv
    <3>2. ASSUME NEW t \in DbThreads, DbStart(t) PROVE Solo'
      BY <2>1, <2>2, <3>1, <3>2, StartSolo
    <3>3. ASSUME NEW t \in DbThreads, DbStep(t) PROVE Solo'
      BY <2>1, <3>1, <3>3, StepSolo
    <3>4. ASSUME NEW o, db_set_sortorder(o) PROVE Solo'
      BY <3>1, <3>4, OrderSolo
    <3> QED BY <1>2, <3>2, <3>3, <3>4 DEF DbNext
  <2> QED BY <2>1, <2>2 DEF SoloInv
<1> QED BY <1>1, <1>2

\* As long as no two operations on the database have overlapped (met), the table is there whenever
\* nothing is under way, a stored report is in it until the table is emptied, a device has one
\* nickname, memory is used wrongly only by an export of more than ChunkSize rows, and lists,
\* exports and mails answer with the rows they should (dbcmd.c, nicks.c, export.c).
THEOREM AloneExact == DbSpec => []AloneIsExact
<1>1. DbInit => StoreInv /\ SoloInv
  BY StoreInitial, SoloInitial
<1>2. StoreInv /\ SoloInv /\ [DbNext]_dbVars => StoreInv' /\ SoloInv'
  BY StoreKept, SoloKept
<1>3. SoloInv => AloneIsExact
  <2> SUFFICES ASSUME Solo PROVE AloneIsExact
    BY DEF SoloInv, AloneIsExact
  <2>1. TableIsThere /\ NicksAreUnique /\ AnswerIsRight
    BY DEF Solo
  <2> QED BY <2>1 DEF TableIsThere, NicksAreUnique, AnswerIsRight, AloneIsExact
<1> QED BY <1>1, <1>2, <1>3, PTL DEF DbSpec

=============================================================================

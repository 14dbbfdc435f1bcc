-------------------------- MODULE Reassembly_proofs --------------------------
(***************************************************************************)
(* Reassembly for every set of reads and every length of stream: what is   *)
(* reported of a paginated reply and of a stream of fault records.         *)
(***************************************************************************)
EXTENDS Reassembly, SequenceTheorems, WellFoundedInduction, TLAPS

Bpf(id) == multiframe_info(id).bytes_per_frame

(* A nonempty set of naturals has a minimum.                               *)
LEMMA MinExists ==
    ASSUME NEW T, T \subseteq Nat, T # {}
    PROVE  Min(T) \in T /\ \A y \in T : Min(T) <= y
<1>1. PICK x \in T : \A y \in T : ~(<<y, x>> \in OpToRel(<, Nat))
  BY WFMin, NatLessThanWellFounded
<1>2. ASSUME NEW y \in T
      PROVE  x <= y
  <2>1. x \in Nat /\ y \in Nat
    OBVIOUS
  <2>2. ~(y < x)
    BY <1>1, <2>1 DEF OpToRel
  <2> QED
    BY <2>1, <2>2
<1> QED
  BY <1>1, <1>2 DEF Min

-----------------------------------------------------------------------------
(* The layouts of the paginated commands.                                  *)

LEMMA Layouts ==
    ASSUME NEW id, multiframe_info(id).multi
    PROVE  /\ id = CELL_VOLTAGES =>
                  Bpf(id) = 6 /\ ItemBytes(id) = 2 /\ ItemsPerFrame(id) = 3 /\ MaxItems(id) = 48
                  /\ multiframe_info(id).total_bytes = 0
           /\ id # CELL_VOLTAGES =>
                  Bpf(id) = 7 /\ ItemBytes(id) = 1 /\ ItemsPerFrame(id) = 7
                  /\ MaxItems(id) \in {14, 21, 32}
                  /\ multiframe_info(id).total_bytes \in {0, 14, 16, 32}
           /\ multiframe_info(id).streaming <=> id = FAULT_RECORDS
<1> USE DEF ManufacturerName, LongText, Versions, CELL_VOLTAGES, CELL_TEMPERATURES, FAULT_RECORDS
<1> USE DEF Layout, ItemBytes, ItemsPerFrame, MaxItems, Bpf
<1>1. CASE id \in ManufacturerName
  <2>1. multiframe_info(id) = Layout(TRUE, FALSE, 1, 7, 3, 16)
    BY <1>1 DEF multiframe_info
  <2> QED
    BY <1>1, <2>1
<1>2. CASE id \in LongText
  <2>1. multiframe_info(id) = Layout(TRUE, FALSE, 1, 7, 5, 32)
    BY <1>2 DEF multiframe_info
  <2> QED
    BY <1>2, <2>1
<1>3. CASE id \in Versions
  <2>1. multiframe_info(id) = Layout(TRUE, FALSE, 0, 7, 2, 14)
    BY <1>3 DEF multiframe_info
  <2> QED
    BY <1>3, <2>1
<1>4. CASE id = CELL_VOLTAGES
  <2>1. multiframe_info(id) = Layout(TRUE, FALSE, 0, 6, 0, 0)
    BY <1>4 DEF multiframe_info
  <2> QED
    BY <1>4, <2>1
<1>5. CASE id = CELL_TEMPERATURES
  <2>1. multiframe_info(id) = Layout(TRUE, FALSE, 0, 7, 0, 0)
    BY <1>5 DEF multiframe_info
  <2> QED
    BY <1>5, <2>1
<1>6. CASE id = FAULT_RECORDS
  <2>1. multiframe_info(id) = Layout(TRUE, TRUE, 0, 7, 0, 0)
    BY <1>6 DEF multiframe_info
  <2> QED
    BY <1>6, <2>1
<1>7. CASE id \notin ManufacturerName \cup LongText \cup Versions
                       \cup {CELL_VOLTAGES, CELL_TEMPERATURES, FAULT_RECORDS}
  <2>1. multiframe_info(id) = Layout(FALSE, FALSE, 0, 0, 0, 0)
    BY <1>7 DEF multiframe_info
  <2> QED
    BY <2>1
<1> QED
  BY <1>1, <1>2, <1>3, <1>4, <1>5, <1>6, <1>7, Zenon

-----------------------------------------------------------------------------
(* The stream of fault records.                                            *)

Bytes == Nat \X Nat

(* Frames and records of four.                                             *)
LEMMA Quarters ==
    ASSUME NEW a \in Nat
    PROVE  /\ a \div 4 \in Nat /\ a % 4 \in 0..3 /\ a = 4 * (a \div 4) + (a % 4)
           /\ a % 4 = 3 => (a + 1) \div 4 = (a \div 4) + 1 /\ (a + 1) % 4 = 0
           /\ a % 4 # 3 => (a + 1) \div 4 = a \div 4 /\ (a + 1) % 4 = (a % 4) + 1
<1>1. a \div 4 \in Nat /\ a % 4 \in 0..3 /\ a = 4 * (a \div 4) + (a % 4)
  OBVIOUS
<1>2. ASSUME NEW q \in Nat, NEW r \in 0..3
      PROVE  (4 * q + r) \div 4 = q /\ (4 * q + r) % 4 = r
  OBVIOUS
<1>3. ASSUME NEW q \in Nat, NEW r \in 0..3, a = 4 * q + r
      PROVE  /\ r = 3 => (a + 1) \div 4 = q + 1 /\ (a + 1) % 4 = 0
             /\ r # 3 => (a + 1) \div 4 = q /\ (a + 1) % 4 = r + 1
  <2>1. CASE r = 3
    <3>1. a + 1 = 4 * (q + 1) + 0 /\ q + 1 \in Nat /\ 0 \in 0..3
      BY <1>3, <2>1
    <3>2. (4 * (q + 1) + 0) \div 4 = q + 1 /\ (4 * (q + 1) + 0) % 4 = 0
      BY <1>2, <3>1, Zenon
    <3> QED
      BY <2>1, <3>1, <3>2, Zenon
  <2>2. CASE r # 3
    <3>1. a + 1 = 4 * q + (r + 1) /\ r + 1 \in 0..3
      BY <1>3, <2>2
    <3>2. (4 * q + (r + 1)) \div 4 = q /\ (4 * q + (r + 1)) % 4 = r + 1
      BY <1>2, <3>1, Zenon
    <3> QED
      BY <2>2, <3>1, <3>2, Zenon
  <2> QED
    BY <2>1, <2>2
<1> QED
  BY <1>1, <1>3, Zenon

(* The seven bytes of the k-th frame behind what the record already holds. *)
FrameBytes(m, k) == [i \in 1..7 |-> <<m, 7 * k + i>>]

FilledRecord(rec, m, k) ==
    SubSeq(rec \o FrameBytes(m, k), 1, Min({Len(rec) + 7, FAULT_BUFFER_LEN}))

LEMMA FilledFacts ==
    ASSUME NEW rec \in Seq(Bytes), Len(rec) <= 21, NEW m \in Nat, NEW k \in Nat
    PROVE  /\ FilledRecord(rec, m, k) \in Seq(Bytes)
           /\ Len(FilledRecord(rec, m, k)) = Len(rec) + 7
           /\ \A j \in 1..Len(rec) : FilledRecord(rec, m, k)[j] = rec[j]
           /\ \A j \in 1..7 : FilledRecord(rec, m, k)[Len(rec) + j] = <<m, 7 * k + j>>
<1> DEFINE frame == FrameBytes(m, k)
           T == {Len(rec) + 7, FAULT_BUFFER_LEN}
           both == rec \o frame
<1>0. FAULT_BUFFER_LEN = 28 /\ Len(rec) \in Nat
  BY DEF FAULT_BUFFER_LEN, FAULT_FRAMES_PER_RECORD
<1>1. Min(T) = Len(rec) + 7
  <2>0. ASSUME NEW l \in Nat, l <= 21
        PROVE  {l + 7, 28} \subseteq Nat /\ {l + 7, 28} # {} /\ l + 7 <= 28
    BY <2>0
  <2>1. T \subseteq Nat /\ T # {} /\ Len(rec) + 7 <= 28
    BY <1>0, <2>0, Zenon
  <2>2. Min(T) \in T /\ \A y \in T : Min(T) <= y
    BY <2>1, MinExists, Zenon
  <2> QED
    BY <1>0, <2>1, <2>2
<1>2. frame \in Seq(Bytes) /\ Len(frame) = 7 /\ \A j \in 1..7 : frame[j] = <<m, 7 * k + j>>
  BY DEF FrameBytes, Bytes
<1> HIDE DEF frame, T
<1>p. /\ both \in Seq(Bytes) /\ Len(both) = Len(rec) + Len(frame)
      /\ \A i \in 1..(Len(rec) + Len(frame)) :
             both[i] = IF i <= Len(rec) THEN rec[i] ELSE frame[i - Len(rec)]
  BY <1>2, ConcatProperties, Zenon
<1> HIDE DEF both
<1>3. both \in Seq(Bytes) /\ Len(both) = Len(rec) + 7
  BY <1>0, <1>2, <1>p
<1>4. ASSUME NEW j \in 1..Len(rec)
      PROVE  both[j] = rec[j]
  <2>1. ASSUME NEW l \in Nat, NEW x \in 1..l
        PROVE  x \in 1..(l + 7) /\ x <= l
    OBVIOUS
  <2>2. j \in 1..(Len(rec) + Len(frame)) /\ j <= Len(rec)
    BY <1>0, <1>2, <2>1, Zenon
  <2> QED
    BY <1>p, <2>2, Zenon
<1>5. ASSUME NEW j \in 1..7
      PROVE  both[Len(rec) + j] = <<m, 7 * k + j>>
  <2>1. ASSUME NEW l \in Nat
        PROVE  l + j \in 1..(l + 7) /\ ~(l + j <= l) /\ (l + j) - l = j
    OBVIOUS
  <2>2. /\ Len(rec) + j \in 1..(Len(rec) + Len(frame)) /\ ~(Len(rec) + j <= Len(rec))
        /\ (Len(rec) + j) - Len(rec) = j
    BY <1>0, <1>2, <2>1, Zenon
  <2>3. both[Len(rec) + j] = frame[j]
    BY <1>p, <2>2
  <2> QED
    BY <1>2, <2>3, Zenon
<1>6. FilledRecord(rec, m, k) = SubSeq(both, 1, Len(both))
  BY <1>1, <1>3, Zenon DEF FilledRecord, T, frame, both
<1>7. SubSeq(both, 1, Len(both)) = both
  BY <1>3
<1>8. FilledRecord(rec, m, k) = both
  BY <1>6, <1>7, Zenon
<1> QED
  BY <1>3, <1>4, <1>5, <1>8, Zenon

(* The 27 bytes of a full record that are reported.                        *)
LEMMA ReportedRecord ==
    ASSUME NEW full \in Seq(Bytes), Len(full) >= 28
    PROVE  /\ SubSeq(full, 1, FAULT_RECORD_LEN) \in Seq(Bytes)
           /\ SubSeq(full, 1, FAULT_RECORD_LEN) = [b \in 1..FAULT_RECORD_LEN |-> full[b]]
<1> DEFINE part == SubSeq(full, 1, 27)
           copy == [b \in 1..27 |-> full[b]]
<1>1. \A b \in 1..27 : full[b] \in Bytes
  OBVIOUS
<1>2. copy \in Seq(Bytes) /\ Len(copy) = 27 /\ \A b \in 1..27 : copy[b] = full[b]
  BY <1>1
<1>3. part \in Seq(Bytes)
  BY <1>1
<1>4. Len(part) = Len(copy) /\ \A b \in 1..Len(part) : part[b] = copy[b]
  <2>1. Len(part) = 27 /\ \A b \in 1..27 : part[b] = full[b]
    OBVIOUS
  <2> HIDE DEF part, copy
  <2>2. \A b \in 1..27 : part[b] = copy[b]
    BY <1>2, <2>1
  <2> QED
    BY <1>2, <2>1, <2>2, Zenon
<1> HIDE DEF part, copy
<1>5. part = copy
  BY <1>2, <1>3, <1>4, SeqEqual, Zenon
<1> QED
  BY <1>3, <1>5 DEF FAULT_RECORD_LEN, part, copy

Stored(i) == [b \in 1..FAULT_RECORD_LEN |-> <<n, FAULT_BUFFER_LEN * (i - 1) + b>>]

(* The record under way holds whole frames of this stream and is not full. *)
Building ==
    /\ record \in Seq(Bytes) /\ Len(record) <= 21
    /\ \E c \in 0..3 : Len(record) = 7 * c
    /\ \A j \in 1..Len(record) : record[j][1] = n

(* As long as nothing is lost or repeated, it is where the pack is.        *)
Aligned ==
    damaged = <<>> =>
        /\ Len(out) = at \div 4 /\ Len(record) = 7 * (at % 4)
        /\ \A j \in 1..Len(record) : record[j] = <<n, 28 * (at \div 4) + j>>

(* What was reported until then.                                           *)
Reported == Undamaged <= Len(out) /\ \A i \in 1..Undamaged : out[i] = Stored(i)

Streamed ==
    Streaming =>
        /\ at \in Nat /\ damaged \in Seq(Nat) /\ out \in Seq(Seq(Bytes))
        /\ Building /\ Aligned /\ Reported

(* A loss or a repetition leaves the mark of the first one where it is.    *)
LEMMA DamageMarks ==
    ASSUME at \in Nat, damaged \in Seq(Nat), Damage
    PROVE  damaged' \in Seq(Nat) /\ damaged' # <<>> /\ Undamaged' = Undamaged
<1>1. damaged' = Append(damaged, at)
  BY DEF Damage
<1>2. damaged' \in Seq(Nat) /\ damaged' # <<>>
  BY <1>1
<1>3. Head(damaged') = IF damaged = <<>> THEN at ELSE Head(damaged)
  BY <1>1
<1>4. Undamaged' = Head(damaged') \div FAULT_FRAMES_PER_RECORD
  BY <1>2 DEF Undamaged
<1> QED
  BY <1>2, <1>3, <1>4, Zenon DEF Undamaged

(* The pack's mark is a natural number, and no later than where it is.     *)
LEMMA UndamagedNat ==
    ASSUME at \in Nat, damaged \in Seq(Nat)
    PROVE  Undamaged \in Nat
<1> DEFINE mark == IF damaged = <<>> THEN at ELSE Head(damaged)
<1>1. mark \in Nat
  OBVIOUS
<1>2. Undamaged = mark \div 4
  BY DEF Undamaged, FAULT_FRAMES_PER_RECORD
<1> HIDE DEF mark
<1> QED
  BY <1>1, <1>2, Quarters

(* The record after a frame: a longer one, or none and one more reported.  *)
LEMMA RecordGrows ==
    ASSUME Building, n \in Nat, at \in Nat, out \in Seq(Seq(Bytes)), handle_stream(at)
    PROVE  \/ /\ Len(record) < 21 /\ out' = out
              /\ record' = FilledRecord(record, n, at)
           \/ /\ Len(record) = 21 /\ record' = <<>>
              /\ out' = Append(out, [b \in 1..FAULT_RECORD_LEN |-> FilledRecord(record, n, at)[b]])
              /\ [b \in 1..FAULT_RECORD_LEN |-> FilledRecord(record, n, at)[b]] \in Seq(Bytes)
<1> DEFINE filled == FilledRecord(record, n, at)
<1>1. filled \in Seq(Bytes) /\ Len(filled) = Len(record) + 7 /\ Len(record) \in Nat
  BY FilledFacts DEF Building
<1>2. IF Len(filled) >= FAULT_BUFFER_LEN
      THEN record' = <<>> /\ out' = Append(out, SubSeq(filled, 1, FAULT_RECORD_LEN))
      ELSE record' = filled /\ out' = out
  BY Zenon DEF handle_stream, FilledRecord, FrameBytes
<1>3. FAULT_BUFFER_LEN = 28 /\ Len(record) <= 21
  BY DEF FAULT_BUFFER_LEN, FAULT_FRAMES_PER_RECORD, Building
<1> HIDE DEF filled
<1>4. CASE Len(record) < 21
  <2>1. ~(Len(filled) >= 28)
    BY <1>1, <1>4
  <2> QED
    BY <1>2, <1>3, <1>4, <2>1, Zenon DEF filled
<1>5. CASE ~(Len(record) < 21)
  <2>0. ASSUME NEW l \in Nat, l <= 21, ~(l < 21)
        PROVE  l = 21 /\ l + 7 >= 28
    BY <2>0
  <2>1. Len(filled) >= 28 /\ Len(record) = 21
    BY <1>1, <1>3, <1>5, <2>0, Zenon
  <2>2. /\ SubSeq(filled, 1, FAULT_RECORD_LEN) \in Seq(Bytes)
        /\ SubSeq(filled, 1, FAULT_RECORD_LEN) = [b \in 1..FAULT_RECORD_LEN |-> filled[b]]
    BY <1>1, <2>1, ReportedRecord, Zenon
  <2> QED
    BY <1>2, <1>3, <2>1, <2>2, Zenon DEF filled
<1> QED
  BY <1>4, <1>5

(* The bytes of the record after a frame, in one piece.                    *)
LEMMA FilledBytes ==
    ASSUME Building, n \in Nat, at \in Nat, NEW j \in 1..(Len(record) + 7)
    PROVE  /\ FilledRecord(record, n, at)[j][1] = n
           /\ (damaged = <<>> /\ Aligned) =>
                  FilledRecord(record, n, at)[j] = <<n, 28 * (at \div 4) + j>>
<1> DEFINE filled == FilledRecord(record, n, at)
           l == Len(record)
<1>0. record \in Seq(Bytes) /\ l <= 21 /\ l \in Nat
  BY DEF Building
<1>1. /\ l \in Nat
      /\ \A i \in 1..l : filled[i] = record[i]
      /\ \A i \in 1..7 : filled[l + i] = <<n, 7 * at + i>>
  BY <1>0, FilledFacts, Zenon
<1> HIDE DEF filled, l
<1>2. CASE j <= l
  <2>1. j \in 1..Len(record) /\ filled[j] = record[j]
    BY <1>1, <1>2 DEF l
  <2> QED
    BY <2>1, Zenon DEF Building, Aligned, filled
<1>3. CASE ~(j <= l)
  <2> DEFINE i == j - l
  <2>0. ASSUME NEW k \in Nat, NEW x \in 1..(k + 7), ~(x <= k)
        PROVE  x - k \in 1..7 /\ x = k + (x - k)
    BY <2>0
  <2>1. i \in 1..7 /\ j = l + i
    BY <1>0, <1>3, <2>0, Zenon DEF l
  <2> HIDE DEF i
  <2>2. filled[j] = <<n, 7 * at + i>>
    BY <1>1, <2>1, Zenon
  <2>3. ASSUME damaged = <<>>, Aligned
        PROVE  7 * at + i = 28 * (at \div 4) + j
    <3>1. l = 7 * (at % 4)
      BY <2>3 DEF Aligned, l
    <3>2. at = 4 * (at \div 4) + (at % 4) /\ at \div 4 \in Nat /\ at % 4 \in 0..3
      BY Quarters, Zenon
    <3>3. ASSUME NEW q \in Nat, NEW r \in 0..3, NEW a \in Nat, a = 4 * q + r, NEW x \in 1..7
          PROVE  7 * a + x = 28 * q + (7 * r + x)
      BY <3>3
    <3> QED
      BY <2>1, <3>1, <3>2, <3>3, Zenon
  <2>4. filled[j][1] = n
    BY <2>2
  <2> QED
    BY <2>2, <2>3, <2>4, Zenon DEF filled
<1> QED
  BY <1>2, <1>3

(* What is reported stays reported, whatever is reported after it.         *)
LEMMA ReportedStays ==
    ASSUME NEW y \in Seq(Bytes), out \in Seq(Seq(Bytes)), out' = out \/ out' = Append(out, y),
           Reported, Undamaged \in Nat, Undamaged' = Undamaged, n' = n
    PROVE  Reported'
<1>1. Undamaged <= Len(out) /\ Len(out) \in Nat
  BY DEF Reported
<1>2. /\ out' \in Seq(Seq(Bytes)) /\ Len(out') >= Len(out) /\ Len(out') \in Nat
      /\ \A i \in 1..Len(out) : out'[i] = out[i]
  <2>1. CASE out' = out
    BY <2>1
  <2>2. CASE out' = Append(out, y)
    BY <2>2
  <2> QED
    BY <2>1, <2>2
<1>3. Undamaged' <= Len(out')
  BY <1>1, <1>2
<1>4. ASSUME NEW i \in 1..Undamaged'
      PROVE  out'[i] = Stored(i)'
  <2>1. i \in 1..Undamaged /\ i \in 1..Len(out)
    BY <1>1
  <2>2. out'[i] = Stored(i)
    BY <1>2, <2>1, Zenon DEF Reported
  <2> QED
    BY <2>2 DEF Stored
<1> QED
  BY <1>3, <1>4, Zenon DEF Reported

(* A frame of the stream arrives.                                          *)
LEMMA ArrivesStreamed ==
    ASSUME n \in Nat, Streamed, NothingForeign, StreamFrameArrives
    PROVE  Streamed' /\ NothingForeign'
<1>0. /\ Streaming /\ handle_stream(at) /\ read' = read /\ n' = n
      /\ (at' = at + 1 /\ damaged' = damaged) \/ (at' = at /\ Damage)
  BY DEF StreamFrameArrives
<1>1. /\ at \in Nat /\ damaged \in Seq(Nat) /\ out \in Seq(Seq(Bytes))
      /\ Building /\ Aligned /\ Reported
  BY <1>0 DEF Streamed
<1>2. Undamaged \in Nat
  BY <1>1, UndamagedNat
<1> DEFINE filled == FilledRecord(record, n, at)
           copy == [b \in 1..FAULT_RECORD_LEN |-> filled[b]]
           l == Len(record)
<1>3. /\ l \in Nat /\ l <= 21 /\ \E c \in 0..3 : l = 7 * c
      /\ filled \in Seq(Bytes) /\ Len(filled) = l + 7
  <2>1. record \in Seq(Bytes) /\ l <= 21 /\ l \in Nat /\ \E c \in 0..3 : l = 7 * c
    BY <1>1 DEF Building
  <2> QED
    BY <1>1, <2>1, FilledFacts, Zenon
<1>4. \/ l < 21 /\ out' = out /\ record' = filled
      \/ l = 21 /\ record' = <<>> /\ out' = Append(out, copy) /\ copy \in Seq(Bytes)
  BY <1>0, <1>1, RecordGrows, Zenon
<1>5. \A j \in 1..(l + 7) : filled[j][1] = n
  BY <1>1, FilledBytes, Zenon
<1>6. damaged = <<>> => \A j \in 1..(l + 7) : filled[j] = <<n, 28 * (at \div 4) + j>>
  BY <1>1, FilledBytes, Zenon
<1> HIDE DEF filled, l
<1>7. Building'
  <2>1. CASE l < 21 /\ record' = filled
    <3>1. PICK c \in 0..3 : l = 7 * c
      BY <1>3
    <3>2. c + 1 \in 0..3 /\ l + 7 = 7 * (c + 1) /\ l + 7 <= 21
      BY <2>1, <3>1
    <3>3. Len(record') <= 21 /\ Len(record') = l + 7 /\ record' \in Seq(Bytes)
      BY <1>3, <2>1, <3>2
    <3>4. \E k \in 0..3 : Len(record') = 7 * k
      BY <3>2, <3>3, Zenon
    <3>5. \A j \in 1..Len(record') : record'[j][1] = n'
      BY <1>0, <1>5, <2>1, <3>3, Zenon
    <3> QED
      BY <3>3, <3>4, <3>5, Zenon DEF Building
  <2>2. CASE record' = <<>>
    <3>1. Len(record') <= 21 /\ record' \in Seq(Bytes) /\ Len(record') = 7 * 0 /\ 0 \in 0..3
      BY <2>2
    <3>2. \A j \in 1..Len(record') : record'[j][1] = n'
      BY <2>2
    <3> QED
      BY <3>1, <3>2, Zenon DEF Building
  <2> QED
    BY <1>4, <2>1, <2>2, Zenon
<1>8. out' \in Seq(Seq(Bytes))
  <2> HIDE DEF copy
  <2>1. CASE out' = out
    BY <1>1, <2>1
  <2>2. CASE out' = Append(out, copy) /\ copy \in Seq(Bytes)
    <3> DEFINE Lines == Seq(Bytes)
    <3>1. out \in Seq(Lines) /\ copy \in Lines
      BY <1>1, <2>2
    <3> HIDE DEF Lines
    <3>2. Append(out, copy) \in Seq(Lines)
      BY <3>1
    <3> QED
      BY <2>2, <3>2 DEF Lines
  <2> QED
    BY <1>4, <2>1, <2>2, Zenon
<1>9. NothingForeign'
  <2>1. CASE out' = out
    BY <1>0, <2>1, Zenon DEF NothingForeign
  <2>2. CASE l = 21 /\ out' = Append(out, copy) /\ copy \in Seq(Bytes)
    <3> SUFFICES ASSUME NEW i \in DOMAIN out', NEW b \in DOMAIN out'[i]
                 PROVE  out'[i][b][1] = n
      BY <1>0, Zenon DEF NothingForeign
    <3>1. CASE i \in DOMAIN out
      <4>1. out'[i] = out[i]
        BY <1>1, <2>2, <3>1
      <4> QED
        BY <3>1, <4>1, Zenon DEF NothingForeign
    <3>2. CASE i \notin DOMAIN out
      <4>1. out'[i] = copy
        BY <1>1, <2>2, <3>2
      <4>2. b \in 1..FAULT_RECORD_LEN /\ copy[b] = filled[b]
        BY <4>1
      <4>3. b \in 1..(l + 7)
        BY <2>2, <4>2 DEF FAULT_RECORD_LEN
      <4> QED
        BY <1>5, <4>1, <4>2, <4>3, Zenon
    <3> QED
      BY <3>1, <3>2
  <2> QED
    BY <1>4, <2>1, <2>2, Zenon
<1>10. CASE at' = at + 1 /\ damaged' = damaged /\ damaged = <<>>
  <2>1. /\ at \div 4 \in Nat /\ at % 4 \in 0..3
        /\ at % 4 = 3 => (at + 1) \div 4 = (at \div 4) + 1 /\ (at + 1) % 4 = 0
        /\ at % 4 # 3 => (at + 1) \div 4 = at \div 4 /\ (at + 1) % 4 = (at % 4) + 1
    BY <1>1, Quarters, Zenon
  <2>2. Len(out) = at \div 4 /\ l = 7 * (at % 4)
    BY <1>1, <1>10 DEF Aligned, l
  <2>3. Undamaged = at \div 4 /\ Undamaged' = (at + 1) \div 4
    BY <1>10, Zenon DEF Undamaged, FAULT_FRAMES_PER_RECORD
  <2>4. CASE l < 21 /\ out' = out /\ record' = filled
    <3>0. ASSUME NEW r \in 0..3, 7 * r < 21
          PROVE  r # 3 /\ 7 * r + 7 = 7 * (r + 1)
      BY <3>0
    <3>1. at % 4 # 3 /\ l + 7 = 7 * ((at % 4) + 1)
      BY <2>1, <2>2, <2>4, <3>0, Zenon
    <3>2. Undamaged' = Undamaged /\ at' \div 4 = at \div 4 /\ at' % 4 = (at % 4) + 1
      BY <1>10, <2>1, <2>3, <3>1, Zenon
    <3>3. Reported'
      <4>1. <<>> \in Seq(Bytes)
        OBVIOUS
      <4> QED
        BY <1>0, <1>1, <1>2, <2>4, <3>2, <4>1, ReportedStays, Zenon
    <3>4. Len(record') = 7 * (at' % 4) /\ Len(out') = at' \div 4
      BY <1>3, <2>2, <2>4, <3>1, <3>2, Zenon
    <3>5. \A j \in 1..Len(record') : record'[j] = <<n', 28 * (at' \div 4) + j>>
      BY <1>0, <1>3, <1>6, <1>10, <2>4, <3>2, Zenon
    <3>6. Aligned'
      BY <3>4, <3>5, Zenon DEF Aligned
    <3>7. at' \in Nat /\ damaged' \in Seq(Nat)
      BY <1>1, <1>10
    <3> QED
      BY <1>7, <1>8, <1>9, <3>3, <3>6, <3>7 DEF Streamed
  <2>5. CASE l = 21 /\ record' = <<>> /\ out' = Append(out, copy)
    <3>0. ASSUME NEW r \in 0..3, 7 * r = 21
          PROVE  r = 3
      BY <3>0
    <3>1. at % 4 = 3
      BY <2>1, <2>2, <2>5, <3>0, Zenon
    <3>2. at' \div 4 = (at \div 4) + 1 /\ at' % 4 = 0 /\ Undamaged' = Len(out) + 1
      BY <1>10, <2>1, <2>2, <2>3, <3>1, Zenon
    <3>3. Len(out') = Len(out) + 1 /\ out'[Len(out) + 1] = copy
          /\ \A i \in 1..Len(out) : out'[i] = out[i]
      BY <1>1, <2>5
    <3>4. copy = Stored(Len(out) + 1)
      <4> DEFINE m == Len(out)
      <4>1. m \in Nat /\ FAULT_BUFFER_LEN = 28 /\ (m + 1) - 1 = m
        BY <1>1 DEF FAULT_BUFFER_LEN, FAULT_FRAMES_PER_RECORD
      <4>2. ASSUME NEW b \in 1..FAULT_RECORD_LEN
            PROVE  filled[b] = <<n, FAULT_BUFFER_LEN * ((m + 1) - 1) + b>>
        <5>1. b \in 1..(l + 7)
          BY <2>5, <4>2 DEF FAULT_RECORD_LEN
        <5> QED
          BY <1>6, <1>10, <2>2, <4>1, <5>1, Zenon
      <4> HIDE DEF m
      <4>3. copy = [b \in 1..FAULT_RECORD_LEN |-> <<n, FAULT_BUFFER_LEN * ((m + 1) - 1) + b>>]
        BY <4>2, Zenon
      <4> QED
        BY <4>3 DEF Stored, m
    <3>5. Reported'
      <4>1. Undamaged' <= Len(out') /\ Len(out) \in Nat
        BY <1>1, <3>2, <3>3
      <4>2. ASSUME NEW i \in 1..Undamaged'
            PROVE  out'[i] = Stored(i)
        <5>1. CASE i = Len(out) + 1
          BY <3>3, <3>4, <5>1, Zenon
        <5>2. CASE i # Len(out) + 1
          <6>1. i \in 1..Len(out)
            BY <3>2, <4>1, <5>2
          <6>2. i \in 1..Undamaged
            BY <2>2, <2>3, <6>1
          <6> QED
            BY <1>1, <3>3, <6>1, <6>2, Zenon DEF Reported
        <5> QED
          BY <5>1, <5>2
      <4>3. \A i \in 1..Undamaged' : out'[i] = Stored(i)'
        BY <1>0, <4>2, Zenon DEF Stored
      <4> QED
        BY <4>1, <4>3, Zenon DEF Reported
    <3>6. Aligned'
      <4>1. Len(record') = 7 * (at' % 4) /\ Len(out') = at' \div 4
        BY <2>2, <2>5, <3>2, <3>3
      <4>2. \A j \in 1..Len(record') : record'[j] = <<n', 28 * (at' \div 4) + j>>
        BY <2>5
      <4> QED
        BY <4>1, <4>2, Zenon DEF Aligned
    <3>7. at' \in Nat /\ damaged' \in Seq(Nat)
      BY <1>1, <1>10
    <3> QED
      BY <1>7, <1>8, <1>9, <3>5, <3>6, <3>7 DEF Streamed
  <2> QED
    BY <1>4, <2>4, <2>5, Zenon
<1>11. ASSUME at' \in Nat, damaged' \in Seq(Nat), damaged' # <<>>, Undamaged' = Undamaged
       PROVE  Streamed' /\ NothingForeign'
  <2>1. Reported'
    <3>1. <<>> \in Seq(Bytes)
      OBVIOUS
    <3> QED
      BY <1>0, <1>1, <1>2, <1>4, <1>11, <3>1, ReportedStays, Zenon
  <2>2. Aligned'
    BY <1>11 DEF Aligned
  <2> QED
    BY <1>7, <1>8, <1>9, <1>11, <2>1, <2>2 DEF Streamed
<1>12. CASE at' = at + 1 /\ damaged' = damaged /\ damaged # <<>>
  <2>1. Undamaged' = Undamaged
    BY <1>12, Zenon DEF Undamaged
  <2>2. at' \in Nat
    BY <1>1, <1>12
  <2> QED
    BY <1>1, <1>11, <1>12, <2>1, <2>2
<1>13. CASE at' = at /\ Damage
  BY <1>1, <1>11, <1>13, DamageMarks
<1> QED
  BY <1>0, <1>10, <1>12, <1>13

-----------------------------------------------------------------------------
(* The pages of a reply.                                                   *)

(* The j-th byte that the pack sends of the reply.                         *)
PackByte(j) == IF j <= read.items * ItemBytes(read.id) THEN <<n, j>> ELSE <<n, 0>>

(* Every frame in the mask is one of the reply, and is in its place.       *)
Holds(buf, mask) ==
    /\ mask \subseteq 0..MAX_FRAME_INDEX
    /\ \A f \in mask :
           /\ f - read.base \in 0..(ReplyFrames(read) - 1)
           /\ \A i \in 0..(Bpf(read.id) - 1) :
                  buf[f * Bpf(read.id) + i] = PackByte((f - read.base) * Bpf(read.id) + i + 1)

(* A minimum is recognised by what it is.                                  *)
LEMMA MinIs ==
    ASSUME NEW T, T \subseteq Nat, NEW x \in T, \A y \in T : x <= y
    PROVE  Min(T) = x
<1>1. Min(T) \in T /\ \A y \in T : Min(T) <= y
  BY MinExists
<1>2. Min(T) <= x /\ x <= Min(T) /\ Min(T) \in Nat /\ x \in Nat
  BY <1>1
<1> QED
  BY <1>2

(* The run of frames that finish_multi() decodes.                          *)
LEMMA RunFacts ==
    ASSUME NEW mask, mask \subseteq 0..MAX_FRAME_INDEX, mask # {},
           NEW lo, lo = lowest_frame_no(mask), NEW c, c = contiguous_frames(mask, lo)
    PROVE  /\ lo \in mask /\ lo \in 0..16 /\ \A f \in mask : lo <= f
           /\ c \in 1..17 /\ lo + c \notin mask
           /\ \A k \in 0..(c - 1) : lo + k \in mask
<1> DEFINE T == {k \in 0..17 : lo + k \notin mask}
<1>0. mask \subseteq 0..16 /\ mask \subseteq Nat
  BY DEF MAX_FRAME_INDEX
<1>1. lo \in mask /\ \A f \in mask : lo <= f
  BY <1>0, MinExists DEF lowest_frame_no
<1>2. lo \in 0..16
  BY <1>0, <1>1
<1>3. 17 \in T /\ T \subseteq Nat
  BY <1>0, <1>2
<1>4. c = Min(T)
  <2>1. MAX_FRAME_INDEX + 1 = 17
    BY DEF MAX_FRAME_INDEX
  <2> QED
    BY <2>1 DEF contiguous_frames
<1>5. c \in T /\ \A y \in T : c <= y
  BY <1>3, <1>4, MinExists
<1> HIDE DEF T
<1>6. c \in 0..17 /\ lo + c \notin mask
  BY <1>5 DEF T
<1>7. c # 0
  BY <1>1, <1>2, <1>6
<1>8. ASSUME NEW k \in 0..(c - 1)
      PROVE  lo + k \in mask
  <2>1. k \in 0..17 /\ ~(c <= k)
    BY <1>6
  <2>2. k \notin T
    BY <1>5, <2>1
  <2> QED
    BY <2>1, <2>2 DEF T
<1> QED
  BY <1>1, <1>2, <1>6, <1>7, <1>8

(* A place in a run of frames lies in one of them.                         *)
LEMMA FrameOf ==
    ASSUME NEW w \in {6, 7}, NEW c \in Nat, NEW o \in Nat, o < c * w
    PROVE  \E k \in 0..(c - 1), t \in 0..(w - 1) : o = k * w + t
<1>1. CASE w = 6
  <2>1. o \div 6 \in Nat /\ o % 6 \in 0..5 /\ o = (o \div 6) * 6 + (o % 6)
    OBVIOUS
  <2>2. o < c * 6
    BY <1>1
  <2>3. o \div 6 \in 0..(c - 1)
    BY <2>1, <2>2
  <2> QED
    BY <1>1, <2>1, <2>3
<1>2. CASE w = 7
  <2>1. o \div 7 \in Nat /\ o % 7 \in 0..6 /\ o = (o \div 7) * 7 + (o % 7)
    OBVIOUS
  <2>2. o < c * 7
    BY <1>2
  <2>3. o \div 7 \in 0..(c - 1)
    BY <2>1, <2>2
  <2> QED
    BY <1>2, <2>1, <2>3
<1> QED
  BY <1>1, <1>2

(* Frame lo + k, byte t, counted from the first byte of frame lo.          *)
Regrouped(w, l, k, d, t) ==
    /\ (l + k) * w + t = l * w + (k * w + t)
    /\ ((l + k) - d) * w + t + 1 = (l - d) * w + (k * w + t) + 1

LEMMA Regrouping ==
    ASSUME NEW w \in Int, NEW l \in Int, NEW k \in Int, NEW d \in Int, NEW t \in Int
    PROVE  Regrouped(w, l, k, d, t)
BY DEF Regrouped

(* What decode_multi() reads out of the run is what the pack sent, from    *)
(* the first frame of the run on.                                          *)
LEMMA RunBytes ==
    ASSUME read.base \in {0, 1}, multiframe_info(read.id).multi, NEW buf, NEW mask,
           Holds(buf, mask), mask # {}, NEW lo, lo = lowest_frame_no(mask),
           NEW c, c = contiguous_frames(mask, lo), NEW o \in Nat, o < c * Bpf(read.id)
    PROVE  buf[lo * Bpf(read.id) + o] = PackByte((lo - read.base) * Bpf(read.id) + o + 1)
<1> DEFINE w == Bpf(read.id)
<1>0. w \in {6, 7}
  BY Layouts
<1>1. /\ lo \in 0..16 /\ c \in 1..17 /\ \A k \in 0..(c - 1) : lo + k \in mask
  BY RunFacts DEF Holds
<1> HIDE DEF w
<1>2. PICK k \in 0..(c - 1), t \in 0..(w - 1) : o = k * w + t
  <2>1. o < c * w /\ c \in Nat
    BY <1>1 DEF w
  <2> QED
    BY <1>0, <2>1, FrameOf, Zenon
<1>3. lo + k \in mask
  BY <1>1, <1>2
<1>4. buf[(lo + k) * w + t] = PackByte(((lo + k) - read.base) * w + t + 1)
  BY <1>2, <1>3, Zenon DEF Holds, w
<1>5. /\ (lo + k) * w + t = lo * w + o
      /\ ((lo + k) - read.base) * w + t + 1 = (lo - read.base) * w + o + 1
  <2>1. w \in Int /\ w - 1 \in Int
    BY <1>0
  <2>2. read.base \in Int
    OBVIOUS
  <2>3. lo \in Int /\ k \in Int /\ t \in Int
    BY <1>1, <1>2, <2>1
  <2>4. Regrouped(w, lo, k, read.base, t)
    BY <2>1, <2>2, <2>3, Regrouping, Zenon
  <2> QED
    BY <1>2, <2>4, Zenon DEF Regrouped
<1> QED
  BY <1>4, <1>5, Zenon DEF w

(* The lengths finish_multi() chooses the payload's from.                  *)
Lengths(r, mask) ==
    {contiguous_frames(mask, lowest_frame_no(mask)) * Bpf(r.id),
     ASSEMBLY_LEN - PayloadStart(r.id, mask), MAX_REASSEMBLY_LEN}
        \cup (IF multiframe_info(r.id).total_bytes # 0 THEN {multiframe_info(r.id).total_bytes}
              ELSE {})
        \cup (IF r.expected # 0 THEN {r.expected * ItemBytes(r.id)} ELSE {})

(* The payload is as long as the shortest of them.                         *)
LEMMA PayloadIsShortest ==
    ASSUME NEW r \in Read, multiframe_info(r.id).multi,
           NEW mask, mask \subseteq 0..MAX_FRAME_INDEX, mask # {}
    PROVE  /\ PayloadLen(r, mask) \in Lengths(r, mask) /\ PayloadLen(r, mask) \in Nat
           /\ \A y \in Lengths(r, mask) : PayloadLen(r, mask) <= y
<1> DEFINE lo == lowest_frame_no(mask)
           c == contiguous_frames(mask, lo)
           w == Bpf(r.id)
           ib == ItemBytes(r.id)
           total == multiframe_info(r.id).total_bytes
<1>1. lo \in 0..16 /\ c \in 1..17
  BY RunFacts
<1>2. w \in {6, 7} /\ ib \in {1, 2} /\ total \in Nat /\ r.expected \in Nat
  BY Layouts DEF Read, Byte
<1>3. ASSEMBLY_LEN = 119 /\ MAX_REASSEMBLY_LEN = 96 /\ PayloadStart(r.id, mask) = lo * w
  BY DEF ASSEMBLY_LEN, MAX_FRAME_INDEX, MAX_REASSEMBLY_LEN, PayloadStart, Bpf
<1>4. Lengths(r, mask) = {c * w, 119 - lo * w, 96}
                            \cup (IF total # 0 THEN {total} ELSE {})
                            \cup (IF r.expected # 0 THEN {r.expected * ib} ELSE {})
  BY <1>3, Zenon DEF Lengths
<1>5. PayloadLen(r, mask) = Min(Lengths(r, mask))
  BY Zenon DEF PayloadLen, Lengths, Bpf
<1> HIDE DEF lo, c, w, ib, total
<1>6. c * w \in Nat /\ 119 - lo * w \in Nat /\ r.expected * ib \in Nat
  BY <1>1, <1>2
<1>7. Lengths(r, mask) \subseteq Nat /\ Lengths(r, mask) # {}
  BY <1>2, <1>4, <1>6
<1> QED
  BY <1>5, <1>7, MinExists, Zenon

(* Where a byte of an item stands in the payload.                          *)
LEMMA ItemOffset ==
    ASSUME NEW ib, ib = 1 \/ ib = 2, NEW len \in Nat, NEW i \in 1..(len \div ib), NEW b \in 1..ib
    PROVE  (i - 1) * ib + b - 1 \in Nat /\ (i - 1) * ib + b - 1 < len
<1>1. CASE ib = 1
  <2>1. i \in 1..len /\ b = 1
    BY <1>1
  <2>2. (i - 1) * 1 + 1 - 1 \in Nat /\ (i - 1) * 1 + 1 - 1 < len
    BY <2>1
  <2> QED
    BY <1>1, <2>1, <2>2, Zenon
<1>2. CASE ib = 2
  <2>1. i \in 1..(len \div 2) /\ b \in 1..2 /\ len \div 2 \in Nat /\ 2 * (len \div 2) <= len
    BY <1>2
  <2>2. (i - 1) * 2 + b - 1 \in Nat /\ (i - 1) * 2 + b - 1 < len
    BY <2>1
  <2> QED
    BY <1>2, <2>2, Zenon
<1> QED
  BY <1>1, <1>2

(* The number of items decode_multi() stores.                              *)
ItemCount(id, len) == Min({len \div ItemBytes(id), MaxItems(id)})

LEMMA ItemCountFacts ==
    ASSUME NEW id, multiframe_info(id).multi, NEW len \in Nat
    PROVE  /\ ItemBytes(id) = 1 \/ ItemBytes(id) = 2
           /\ len \div ItemBytes(id) \in Nat /\ MaxItems(id) \in Nat
           /\ ItemCount(id, len) \in {len \div ItemBytes(id), MaxItems(id)}
           /\ ItemCount(id, len) <= len \div ItemBytes(id) /\ ItemCount(id, len) <= MaxItems(id)
           /\ ItemCount(id, len) \in Nat
<1>1. (ItemBytes(id) = 1 \/ ItemBytes(id) = 2) /\ MaxItems(id) \in Nat
  BY Layouts
<1>2. len \div 1 \in Nat /\ len \div 2 \in Nat
  OBVIOUS
<1>3. len \div ItemBytes(id) \in Nat
  BY <1>1, <1>2
<1> DEFINE q == len \div ItemBytes(id)
           T == {q, MaxItems(id)}
<1> HIDE DEF q
<1>4. T \subseteq Nat /\ T # {}
  BY <1>1, <1>3 DEF q
<1>5. Min(T) \in T /\ \A y \in T : Min(T) <= y
  BY <1>4, MinExists, Zenon
<1>6. Min(T) = ItemCount(id, len)
  BY DEF ItemCount, q
<1> QED
  BY <1>1, <1>3, <1>4, <1>5, <1>6, Zenon DEF q

(* Item by item, byte by byte, what finish_multi() reports is what the     *)
(* pack sent from the lowest frame on.                                     *)
FromThePack(buf, mask, lo, i, b) ==
    buf[PayloadStart(read.id, mask) + (i - 1) * ItemBytes(read.id) + b - 1]
        = PackByte((lo - read.base) * Bpf(read.id) + ((i - 1) * ItemBytes(read.id) + b - 1) + 1)

LEMMA DecodedBytes ==
    ASSUME read \in Read, multiframe_info(read.id).multi, NEW buf, NEW mask,
           Holds(buf, mask), mask # {}, NEW lo, lo = lowest_frame_no(mask),
           NEW len, len = PayloadLen(read, mask),
           NEW i \in 1..ItemCount(read.id, len), NEW b \in 1..ItemBytes(read.id)
    PROVE  FromThePack(buf, mask, lo, i, b)
<1> DEFINE w == Bpf(read.id)
           ib == ItemBytes(read.id)
           c == contiguous_frames(mask, lo)
           o == (i - 1) * ib + b - 1
           start == PayloadStart(read.id, mask)
<1>1. mask \subseteq 0..MAX_FRAME_INDEX /\ read.base \in {0, 1}
  BY DEF Holds, Read
<1>2. len \in Nat /\ len <= c * w
  <2>1. /\ PayloadLen(read, mask) \in Nat
        /\ \A y \in Lengths(read, mask) : PayloadLen(read, mask) <= y
    BY <1>1, PayloadIsShortest, Zenon
  <2>2. c * w \in Lengths(read, mask)
    BY Zenon DEF Lengths
  <2> QED
    BY <2>1, <2>2, Zenon
<1>3. /\ ib = 1 \/ ib = 2
      /\ len \div ib \in Nat /\ ItemCount(read.id, len) \in Nat
      /\ ItemCount(read.id, len) <= len \div ib
  BY <1>2, ItemCountFacts, Zenon
<1>4. c \in 1..17 /\ lo \in 0..16 /\ (w = 6 \/ w = 7)
  <2>1. c \in 1..17 /\ lo \in 0..16
    BY <1>1, RunFacts, Zenon
  <2>2. w = 6 \/ w = 7
    BY Layouts
  <2> QED
    BY <2>1, <2>2
<1>5. start = lo * w
  BY Zenon DEF PayloadStart, Bpf
<1>6. i \in 1..(len \div ib)
  <2> DEFINE m == ItemCount(read.id, len)
             q == len \div ib
  <2>1. m \in Nat /\ q \in Nat /\ m <= q /\ i \in 1..m
    BY <1>3, Zenon
  <2> HIDE DEF m, q
  <2>2. i \in 1..q
    BY <2>1
  <2> QED
    BY <2>2 DEF q
<1>7. o \in Nat /\ o < len
  BY <1>2, <1>3, <1>6, ItemOffset, Zenon
<1> HIDE DEF c, w, ib, o, start
<1>8. o < c * w /\ c * w \in Nat
  <2>1. c * w \in Nat
    BY <1>4
  <2> DEFINE x == c * w
  <2>2. x \in Nat /\ len <= x
    BY <1>2, <2>1
  <2> HIDE DEF x
  <2>3. o < x
    BY <1>2, <1>7, <2>2
  <2> QED
    BY <2>1, <2>3 DEF x
<1>9. buf[lo * w + o] = PackByte((lo - read.base) * w + o + 1)
  BY <1>1, <1>7, <1>8, RunBytes, Zenon DEF w, c
<1>10. start + (i - 1) * ib + b - 1 = lo * w + o
  <2>1. i \in Int /\ b \in Int /\ ib \in Int /\ start \in Int
    BY <1>3, <1>4, <1>5, <1>6 DEF ib
  <2>2. start + (i - 1) * ib + b - 1 = start + ((i - 1) * ib + b - 1)
    BY <2>1
  <2> QED
    BY <1>5, <2>2, Zenon DEF o
<1> QED
  BY <1>9, <1>10, Zenon DEF FromThePack, w, ib, o, start

(* The documented reply, of the frames in a mask.                          *)
FirstMissingOf(mask) ==
    Min({k \in 0..ReplyFrames(read) : k = ReplyFrames(read) \/ read.base + k \notin mask})

NominalOf(mask) ==
    {FirstMissingOf(mask) * ItemsPerFrame(read.id), MaxItems(read.id)}
        \cup (IF read.expected # 0 THEN {read.expected} ELSE {})
        \cup (IF multiframe_info(read.id).total_bytes # 0
              THEN {multiframe_info(read.id).total_bytes} ELSE {})

(* With the first frame in, the run begins with it and ends at the first   *)
(* one missing.                                                            *)
LEMMA RunFromTheFirst ==
    ASSUME read \in Read, multiframe_info(read.id).multi, NEW buf, NEW mask,
           Holds(buf, mask), read.base \in mask
    PROVE  /\ lowest_frame_no(mask) = read.base
           /\ contiguous_frames(mask, read.base) = FirstMissingOf(mask)
           /\ FirstMissingOf(mask) \in 1..17
<1> DEFINE lo == lowest_frame_no(mask)
           c == contiguous_frames(mask, lo)
           RF == ReplyFrames(read)
           T == {k \in 0..RF : k = RF \/ read.base + k \notin mask}
<1>1. /\ mask \subseteq 0..MAX_FRAME_INDEX /\ mask # {} /\ mask \subseteq 0..16
      /\ \A f \in mask : f - read.base \in 0..(RF - 1)
  BY DEF Holds, MAX_FRAME_INDEX
<1>2. /\ lo \in mask /\ lo \in 0..16 /\ \A f \in mask : lo <= f
      /\ c \in 1..17 /\ lo + c \notin mask
      /\ \A k \in 0..(c - 1) : lo + k \in mask
  BY <1>1, RunFacts, Zenon
<1>3. RF \in Nat
  <2>1. read.items \in Nat /\ (ItemsPerFrame(read.id) = 3 \/ ItemsPerFrame(read.id) = 7)
    BY Layouts DEF Read, Byte
  <2>2. ASSUME NEW x \in Nat
        PROVE  (x + 3 - 1) \div 3 \in Nat /\ (x + 7 - 1) \div 7 \in Nat
    OBVIOUS
  <2> QED
    BY <2>1, <2>2, Zenon DEF ReplyFrames
<1>b. read.base = 0 \/ read.base = 1
  BY DEF Read
<1> HIDE DEF lo, c, RF
<1>4. lo = read.base
  <2>1. lo <= read.base /\ lo - read.base \in 0..(RF - 1)
    BY <1>1, <1>2
  <2> QED
    BY <1>2, <1>3, <1>b, <2>1
<1>5. c \in T
  <2>1. c - 1 \in 0..(c - 1) /\ c \in Nat
    BY <1>2
  <2>2. lo + (c - 1) \in mask
    BY <1>2, <2>1, Zenon
  <2>3. (lo + (c - 1)) - read.base \in 0..(RF - 1)
    BY <1>1, <2>2, Zenon
  <2>4. c \in 0..RF
    BY <1>2, <1>3, <1>4, <2>3
  <2> QED
    BY <1>2, <1>4, <2>4
<1>6. ASSUME NEW y \in T
      PROVE  c <= y
  <2>1. SUFFICES ASSUME ~(c <= y)
                 PROVE  FALSE
    OBVIOUS
  <2>2. y \in 0..(c - 1)
    BY <1>2, <1>3, <2>1
  <2>3. lo + y \in mask
    BY <1>2, <2>2
  <2>4. y # RF
    BY <1>2, <1>3, <1>5, <2>1
  <2> QED
    BY <1>4, <2>3, <2>4
<1>7. T \subseteq Nat
  BY <1>3
<1> HIDE DEF T
<1>8. Min(T) = c
  BY <1>5, <1>6, <1>7, MinIs, Zenon
<1>9. FirstMissingOf(mask) = c
  BY <1>8 DEF FirstMissingOf, T, RF
<1> QED
  BY <1>2, <1>4, <1>9 DEF lo, c

(* The shortest of three lengths and two that may be unknown.              *)
Among(a, b, d, p, q, r) ==
    {a, b, d} \cup (IF p # 0 THEN {p} ELSE {}) \cup (IF q # 0 THEN {r} ELSE {})

Shortest(x, a, b, d, p, q, r) ==
    /\ x = a \/ x = b \/ x = d \/ (p # 0 /\ x = p) \/ (q # 0 /\ x = r)
    /\ x <= a /\ x <= b /\ x <= d /\ (p # 0 => x <= p) /\ (q # 0 => x <= r)

LEMMA LeastIsShortest ==
    ASSUME NEW x, NEW a, NEW b, NEW d, NEW p, NEW q, NEW r,
           x \in Among(a, b, d, p, q, r), \A y \in Among(a, b, d, p, q, r) : x <= y
    PROVE  Shortest(x, a, b, d, p, q, r)
<1>1. x = a \/ x = b \/ x = d \/ (p # 0 /\ x = p) \/ (q # 0 /\ x = r)
  BY Zenon DEF Among
<1>2. /\ a \in Among(a, b, d, p, q, r) /\ b \in Among(a, b, d, p, q, r)
      /\ d \in Among(a, b, d, p, q, r)
      /\ p # 0 => p \in Among(a, b, d, p, q, r)
      /\ q # 0 => r \in Among(a, b, d, p, q, r)
  BY Zenon DEF Among
<1>3. x <= a /\ x <= b /\ x <= d /\ (p # 0 => x <= p) /\ (q # 0 => x <= r)
  BY <1>2, Zenon
<1> QED
  BY <1>1, <1>3, Zenon DEF Shortest

LEMMA ShortestIsAmong ==
    ASSUME NEW x, NEW a, NEW b, NEW d, NEW p, NEW q, NEW r,
           Shortest(x, a, b, d, p, q, r)
    PROVE  x \in Among(a, b, d, p, q, r) /\ \A y \in Among(a, b, d, p, q, r) : x <= y
BY Zenon DEF Among, Shortest

(* The smaller of two.                                                     *)
Smaller(x, a, b) == (x = a \/ x = b) /\ x <= a /\ x <= b

(* Cells: two bytes each, three to a frame.                                *)
LEMMA CellItems ==
    ASSUME NEW c \in 1..17, NEW e \in Nat, NEW base, base = 0 \/ base = 1, NEW len \in Nat,
           Shortest(len, c * 6, 119 - base * 6, 96, 0, e, e * 2),
           NEW m, Smaller(m, len \div 2, 48)
    PROVE  Shortest(m, c * 3, 48, 48, 0, e, e)
<1> USE DEF Shortest, Smaller
<1>1. len # 119 - base * 6
  OBVIOUS
<1>2. ASSUME NEW x \in Nat
      PROVE  (x * 6) \div 2 = x * 3 /\ (x * 2) \div 2 = x /\ 96 \div 2 = 48
  OBVIOUS
<1>3. \/ len = c * 6 /\ len \div 2 = c * 3
      \/ len = 96 /\ len \div 2 = 48
      \/ e # 0 /\ len = e * 2 /\ len \div 2 = e
  BY <1>1, <1>2
<1>4. len \div 2 \in Nat /\ 2 * (len \div 2) <= len
  OBVIOUS
<1> QED
  BY <1>3, <1>4

(* Everything else: one byte each, seven to a frame.                       *)
LEMMA ByteItems ==
    ASSUME NEW c \in 1..17, NEW e \in Nat, NEW total \in Nat, NEW max \in Nat, max <= 32,
           NEW base, base = 0 \/ base = 1, NEW len \in Nat,
           Shortest(len, c * 7, 119 - base * 7, 96, total, e, e * 1),
           NEW m, Smaller(m, len \div 1, max)
    PROVE  Shortest(m, c * 7, max, max, total, e, e)
<1>1. len \div 1 = len /\ e * 1 = e
  OBVIOUS
<1> QED
  BY <1>1 DEF Shortest, Smaller

(* As many items are reported as are documented.                           *)
LEMMA CountAsDocumented ==
    ASSUME read \in Read, multiframe_info(read.id).multi, NEW buf, NEW mask,
           Holds(buf, mask), read.base \in mask
    PROVE  ItemCount(read.id, PayloadLen(read, mask)) = Min(NominalOf(mask))
<1> DEFINE len == PayloadLen(read, mask)
           m == ItemCount(read.id, len)
           c == FirstMissingOf(mask)
           e == read.expected
           total == multiframe_info(read.id).total_bytes
           base == read.base
           max == MaxItems(read.id)
           w == Bpf(read.id)
           ib == ItemBytes(read.id)
           ipf == ItemsPerFrame(read.id)
<1>1. mask \subseteq 0..MAX_FRAME_INDEX /\ mask # {}
  BY DEF Holds
<1>2. /\ lowest_frame_no(mask) = base /\ contiguous_frames(mask, base) = c /\ c \in 1..17
  BY RunFromTheFirst, Zenon
<1>3. e \in Nat /\ (base = 0 \/ base = 1)
  BY DEF Read, Byte
<1>4. Lengths(read, mask) = Among(c * w, 119 - base * w, 96, total, e, e * ib)
  <2>1. ASSEMBLY_LEN = 119 /\ MAX_REASSEMBLY_LEN = 96 /\ PayloadStart(read.id, mask) = base * w
    BY <1>2 DEF ASSEMBLY_LEN, MAX_FRAME_INDEX, MAX_REASSEMBLY_LEN, PayloadStart, Bpf
  <2> QED
    BY <1>2, <2>1, Zenon DEF Lengths, Among
<1>5. len \in Lengths(read, mask) /\ len \in Nat /\ \A y \in Lengths(read, mask) : len <= y
  BY <1>1, PayloadIsShortest, Zenon
<1>6. m \in {len \div ib, max} /\ m <= len \div ib /\ m <= max /\ m \in Nat /\ max \in Nat
  BY <1>5, ItemCountFacts, Zenon
<1>7. NominalOf(mask) = Among(c * ipf, max, max, total, e, e)
  <2>1. NominalOf(mask) = {c * ipf, max} \cup (IF e # 0 THEN {e} ELSE {})
                                          \cup (IF total # 0 THEN {total} ELSE {})
    BY Zenon DEF NominalOf
  <2> QED
    BY <2>1, Zenon DEF Among
<1>8. \/ w = 6 /\ ib = 2 /\ ipf = 3 /\ max = 48 /\ total = 0
      \/ w = 7 /\ ib = 1 /\ ipf = 7 /\ max <= 32 /\ total \in Nat
  BY Layouts
<1> HIDE DEF len, m, c, e, total, base, max, w, ib, ipf
<1>9. Shortest(len, c * w, 119 - base * w, 96, total, e, e * ib)
  BY <1>4, <1>5, LeastIsShortest, Zenon
<1>10. Smaller(m, len \div ib, max)
  BY <1>6, Zenon DEF Smaller
<1>11. Shortest(m, c * ipf, max, max, total, e, e)
  <2>1. CASE w = 6 /\ ib = 2 /\ ipf = 3 /\ max = 48 /\ total = 0
    <3>1. Shortest(len, c * 6, 119 - base * 6, 96, 0, e, e * 2)
      BY <1>9, <2>1, Zenon
    <3>2. Smaller(m, len \div 2, 48)
      BY <1>10, <2>1, Zenon
    <3>3. Shortest(m, c * 3, 48, 48, 0, e, e)
      BY <1>2, <1>3, <1>5, <3>1, <3>2, CellItems, Zenon
    <3> QED
      BY <2>1, <3>3, Zenon
  <2>2. CASE w = 7 /\ ib = 1 /\ ipf = 7 /\ max <= 32 /\ total \in Nat
    <3>1. Shortest(len, c * 7, 119 - base * 7, 96, total, e, e * 1)
      BY <1>9, <2>2, Zenon
    <3>2. Smaller(m, len \div 1, max)
      BY <1>10, <2>2, Zenon
    <3>3. Shortest(m, c * 7, max, max, total, e, e)
      BY <1>2, <1>3, <1>5, <1>6, <2>2, <3>1, <3>2, ByteItems, Zenon
    <3> QED
      BY <2>2, <3>3, Zenon
  <2> QED
    BY <1>8, <2>1, <2>2
<1>12. NominalOf(mask) \subseteq Nat
  <2>1. c * ipf \in Nat /\ total \in Nat
    BY <1>2, <1>8
  <2> QED
    BY <1>3, <1>6, <1>7, <2>1, Zenon DEF Among
<1>13. m \in NominalOf(mask) /\ \A y \in NominalOf(mask) : m <= y
  <2>1. /\ m \in Among(c * ipf, max, max, total, e, e)
        /\ \A y \in Among(c * ipf, max, max, total, e, e) : m <= y
    BY <1>11, ShortestIsAmong, Zenon
  <2> QED
    BY <1>7, <2>1, Zenon
<1>14. Min(NominalOf(mask)) = m
  BY <1>12, <1>13, MinIs, Zenon
<1> QED
  BY <1>14 DEF m, len

(* The i-th item, byte by byte.                                            *)
LEMMA SentBytes ==
    ASSUME read \in Read, multiframe_info(read.id).multi, NEW i \in Nat \ {0},
           NEW b \in 1..ItemBytes(read.id)
    PROVE  /\ Sent(i)[b] = PackByte((i - 1) * ItemBytes(read.id) + b)
           /\ DOMAIN Sent(i) = 1..ItemBytes(read.id)
<1> DEFINE ib == ItemBytes(read.id)
           j == (i - 1) * ib + b
<1>1. (ib = 1 \/ ib = 2) /\ read.items \in Nat
  BY Layouts DEF Read, Byte
<1>2. Sent(i)[b] = IF i <= read.items THEN <<n, j>> ELSE <<n, 0>>
  BY DEF Sent
<1>3. i <= read.items <=> j <= read.items * ib
  <2>1. ASSUME NEW x \in Nat
        PROVE  /\ i <= x <=> (i - 1) * 1 + 1 <= x * 1
               /\ i <= x <=> (i - 1) * 2 + 1 <= x * 2
               /\ i <= x <=> (i - 1) * 2 + 2 <= x * 2
    OBVIOUS
  <2>2. \/ ib = 1 /\ b = 1
        \/ ib = 2 /\ b = 1
        \/ ib = 2 /\ b = 2
    BY <1>1
  <2> QED
    BY <1>1, <2>1, <2>2, Zenon
<1>4. DOMAIN Sent(i) = 1..ib
  BY DEF Sent
<1> QED
  BY <1>2, <1>3, <1>4, Zenon DEF PackByte

(* With the first frame in, finish_multi() reports the reply documented    *)
(* for the frames in the mask.                                             *)
DocumentedOf(mask) == [i \in 1..Min(NominalOf(mask)) |-> Sent(i)]

Payload(buf, mask) == Decoded(read.id, buf, PayloadStart(read.id, mask), PayloadLen(read, mask))

LEMMA FinishedAsDocumented ==
    ASSUME read \in Read, multiframe_info(read.id).multi, NEW buf, NEW mask,
           Holds(buf, mask), read.base \in mask
    PROVE  Payload(buf, mask) = DocumentedOf(mask)
<1> DEFINE len == PayloadLen(read, mask)
           m == ItemCount(read.id, len)
           ib == ItemBytes(read.id)
           start == PayloadStart(read.id, mask)
           w == Bpf(read.id)
           Raw(i, b) == buf[start + (i - 1) * ib + b - 1]
<1>1. Payload(buf, mask) = [i \in 1..m |-> [b \in 1..ib |-> Raw(i, b)]]
  BY DEF Payload, Decoded, ItemCount
<1>2. m = Min(NominalOf(mask))
  BY CountAsDocumented, Zenon
<1>3. m \in Nat /\ (ib = 1 \/ ib = 2)
  <2>1. mask \subseteq 0..MAX_FRAME_INDEX /\ mask # {}
    BY DEF Holds
  <2>2. len \in Nat
    BY <2>1, PayloadIsShortest, Zenon
  <2> QED
    BY <2>2, ItemCountFacts, Zenon
<1>4. read.base \in Int /\ w \in Int
  <2>1. read.base = 0 \/ read.base = 1
    BY DEF Read
  <2>2. w = 6 \/ w = 7
    BY Layouts
  <2> QED
    BY <2>1, <2>2
<1>5. ASSUME NEW i \in 1..m, NEW b \in 1..ib
      PROVE  Raw(i, b) = Sent(i)[b]
  <2>1. lowest_frame_no(mask) = read.base /\ mask # {}
    BY RunFromTheFirst, Zenon
  <2>2. Raw(i, b) = PackByte((read.base - read.base) * w + ((i - 1) * ib + b - 1) + 1)
    <3>1. FromThePack(buf, mask, read.base, i, b)
      BY <2>1, DecodedBytes, Zenon
    <3> QED
      BY <3>1, Zenon DEF FromThePack
  <2>3. i \in Nat \ {0} /\ b \in Int /\ ib \in Int
    BY <1>3
  <2> HIDE DEF w, ib
  <2>4. (read.base - read.base) * w + ((i - 1) * ib + b - 1) + 1 = (i - 1) * ib + b
    BY <1>4, <2>3
  <2>5. Sent(i)[b] = PackByte((i - 1) * ib + b)
    BY <2>3, SentBytes, Zenon DEF ib
  <2> QED
    BY <2>2, <2>4, <2>5, Zenon
<1> HIDE DEF Raw, m, ib
<1>6. ASSUME NEW i \in 1..m
      PROVE  [b \in 1..ib |-> Raw(i, b)] = Sent(i)
  <2>1. Sent(i) = [b \in 1..ib |-> Sent(i)[b]]
    BY DEF Sent, ib
  <2> QED
    BY <1>5, <2>1, Zenon
<1> QED
  BY <1>1, <1>2, <1>6, Zenon DEF DocumentedOf

(* Whatever frames came in, every byte reported is one of this reply.      *)
Own(s) == \A i \in DOMAIN s : \A b \in DOMAIN s[i] : s[i][b][1] = n

LEMMA PayloadIsOwn ==
    ASSUME read \in Read, multiframe_info(read.id).multi, NEW buf, NEW mask,
           Holds(buf, mask), mask # {}
    PROVE  Own(Payload(buf, mask))
<1> DEFINE len == PayloadLen(read, mask)
           m == ItemCount(read.id, len)
           ib == ItemBytes(read.id)
           start == PayloadStart(read.id, mask)
           Raw(i, b) == buf[start + (i - 1) * ib + b - 1]
<1>1. Payload(buf, mask) = [i \in 1..m |-> [b \in 1..ib |-> Raw(i, b)]]
  BY DEF Payload, Decoded, ItemCount
<1>2. \A j : PackByte(j)[1] = n
  BY DEF PackByte
<1>3. ASSUME NEW i \in 1..m, NEW b \in 1..ib
      PROVE  Raw(i, b)[1] = n
  <2>1. \E j : Raw(i, b) = PackByte(j)
    <3>1. FromThePack(buf, mask, lowest_frame_no(mask), i, b)
      BY DecodedBytes, Zenon
    <3> QED
      BY <3>1, Zenon DEF FromThePack
  <2> QED
    BY <1>2, <2>1, Zenon
<1> HIDE DEF Raw, m, ib
<1>4. Own([i \in 1..m |-> [b \in 1..ib |-> Raw(i, b)]])
  BY <1>3 DEF Own
<1> QED
  BY <1>1, <1>4, Zenon

-----------------------------------------------------------------------------
(* handle_multi() files a frame under its counter.                         *)

(* Frames do not overlap in the buffer, and it holds all of them.          *)
Apart(w, f, g, i) ==
    /\ f * w + i \in 0..118
    /\ (f * w + i >= g * w /\ f * w + i < g * w + w <=> f = g)

LEMMA FramesApart ==
    ASSUME NEW w, w = 6 \/ w = 7, NEW f \in 0..16, NEW g \in 0..16, NEW i \in 0..(w - 1)
    PROVE  Apart(w, f, g, i)
<1>1. CASE w = 6
  <2>1. Apart(6, f, g, i)
    BY <1>1 DEF Apart
  <2> QED
    BY <1>1, <2>1, Zenon
<1>2. CASE w = 7
  <2>1. Apart(7, f, g, i)
    BY <1>2 DEF Apart
  <2> QED
    BY <1>2, <2>1, Zenon
<1> QED
  BY <1>1, <1>2

LEMMA CounterOf ==
    ASSUME NEW base, base = 0 \/ base = 1, NEW last \in Nat, NEW k \in 0..(last - 1),
           base + k <= 16
    PROVE  k \in Nat /\ base + k \in 0..16 /\ (base + k) - base = k
OBVIOUS

(* The frame is in its place afterwards, and every other one still is.     *)
LEMMA FiledHolds ==
    ASSUME read \in Read, multiframe_info(read.id).multi, Holds(assembly, seen_mask),
           DOMAIN assembly = 0..(ASSEMBLY_LEN - 1), NEW k \in 0..(ReplyFrames(read) - 1),
           ReplyFrames(read) \in Nat, read.base + k <= MAX_FRAME_INDEX
    PROVE  Holds(Filed(k), seen_mask \cup {read.base + k})
<1> DEFINE w == Bpf(read.id)
           g == read.base + k
           buf == Filed(k)
<1>1. (w = 6 \/ w = 7) /\ (read.base = 0 \/ read.base = 1)
  BY Layouts DEF Read
<1>2. k \in Nat /\ g \in 0..16 /\ g - read.base = k
  <2> DEFINE base == read.base
             last == ReplyFrames(read)
  <2>1. last \in Nat /\ k \in 0..(last - 1) /\ base + k <= 16 /\ (base = 0 \/ base = 1)
    BY <1>1, Zenon DEF MAX_FRAME_INDEX
  <2> HIDE DEF base, last
  <2>2. k \in Nat /\ base + k \in 0..16 /\ (base + k) - base = k
    BY <2>1, CounterOf, Zenon
  <2> QED
    BY <2>2, Zenon DEF base
<1>3. ASSEMBLY_LEN - 1 = 118 /\ MAX_FRAME_INDEX = 16
  BY DEF ASSEMBLY_LEN, MAX_FRAME_INDEX
<1>4. seen_mask \cup {g} \subseteq 0..MAX_FRAME_INDEX
  <2>1. seen_mask \subseteq 0..MAX_FRAME_INDEX
    BY Zenon DEF Holds
  <2> QED
    BY <1>2, <1>3, <2>1, Zenon
<1>5. ASSUME NEW f \in 0..16, NEW i \in 0..(w - 1)
      PROVE  buf[f * w + i] = IF f = g THEN FrameByte(read, k, (f * w + i) - g * w)
                              ELSE assembly[f * w + i]
  <2>1. Apart(w, f, g, i)
    BY <1>1, <1>2, FramesApart, Zenon
  <2>2. f * w + i \in DOMAIN assembly
    BY <1>3, <2>1 DEF Apart
  <2>3. buf = [x \in DOMAIN assembly |->
                  IF x >= g * w /\ x < g * w + w THEN FrameByte(read, k, x - g * w)
                  ELSE assembly[x]]
    BY DEF Filed, Bpf
  <2> HIDE DEF buf, g, w
  <2> DEFINE y == f * w + i
  <2>4. buf[y] = IF y >= g * w /\ y < g * w + w THEN FrameByte(read, k, y - g * w)
                 ELSE assembly[y]
    BY <2>2, <2>3, Zenon
  <2>5. y >= g * w /\ y < g * w + w <=> f = g
    BY <2>1, Zenon DEF Apart
  <2> HIDE DEF y
  <2>6. buf[y] = IF f = g THEN FrameByte(read, k, y - g * w) ELSE assembly[y]
    <3>1. CASE f = g
      BY <2>4, <2>5, <3>1
    <3>2. CASE f # g
      BY <2>4, <2>5, <3>2
    <3> QED
      BY <3>1, <3>2
  <2> QED
    BY <2>6, Zenon DEF y
<1>6. ASSUME NEW i \in 0..(w - 1)
      PROVE  FrameByte(read, k, (g * w + i) - g * w) = PackByte((g - read.base) * w + i + 1)
  <2>1. (g * w + i) - g * w = i
    <3>1. i \in Int /\ g \in Int /\ w \in Int
      BY <1>1, <1>2
    <3> HIDE DEF g, w
    <3> QED
      BY <3>1
  <2>2. FrameByte(read, k, i) = PackByte(k * w + i + 1)
    BY Zenon DEF FrameByte, PackByte, Bpf
  <2> QED
    BY <1>2, <2>1, <2>2, Zenon
<1> HIDE DEF buf, g, w
<1>7. ASSUME NEW f \in seen_mask \cup {g}
      PROVE  /\ f - read.base \in 0..(ReplyFrames(read) - 1)
             /\ \A i \in 0..(w - 1) : buf[f * w + i] = PackByte((f - read.base) * w + i + 1)
  <2>1. CASE f = g
    BY <1>2, <1>5, <1>6, <2>1, Zenon
  <2>2. CASE f # g
    <3>1. f \in seen_mask /\ f \in 0..16
      BY <1>3, <1>4, <2>2
    <3>2. /\ f - read.base \in 0..(ReplyFrames(read) - 1)
          /\ \A i \in 0..(w - 1) : assembly[f * w + i] = PackByte((f - read.base) * w + i + 1)
      BY <3>1, Zenon DEF Holds, w
    <3> QED
      BY <1>5, <2>2, <3>1, <3>2, Zenon
  <2> QED
    BY <2>1, <2>2
<1> QED
  BY <1>4, <1>7, Zenon DEF Holds, buf, g, w

LEMMA ReplyFramesNat ==
    ASSUME NEW r \in Read, multiframe_info(r.id).multi
    PROVE  ReplyFrames(r) \in Nat
<1>1. r.items \in Nat /\ (ItemsPerFrame(r.id) = 3 \/ ItemsPerFrame(r.id) = 7)
  BY Layouts DEF Read, Byte
<1>2. ASSUME NEW x \in Nat
      PROVE  (x + 3 - 1) \div 3 \in Nat /\ (x + 7 - 1) \div 7 \in Nat
  OBVIOUS
<1> QED
  BY <1>1, <1>2, Zenon DEF ReplyFrames

-----------------------------------------------------------------------------
(* The inductive invariant.                                                *)

Shaped ==
    /\ read \in Reads /\ n \in Nat
    /\ DOMAIN assembly = 0..(ASSEMBLY_LEN - 1)
    /\ Streaming => seen_mask = {}

(* Nothing is reported of a paginated reply before it is finished.         *)
Unreported == state = "AWAITING" /\ ~Streaming => out = <<>>

(* What a reply leaves when it is over: ReadingsInPlace but for the tag.   *)
InPlace == state = "IDLE" /\ read.base \in seen_mask => out = Documented

Reassembled ==
    /\ Shaped /\ Holds(assembly, seen_mask) /\ Unreported /\ Streamed
    /\ NothingForeign /\ InPlace

(* finish_multi() with the frames in the mask.                             *)
LEMMA FinishReports ==
    ASSUME read \in Reads, NEW buf, NEW mask, Holds(buf, mask), mask # {}, finish_multi(buf, mask),
           seen_mask' = mask, UNCHANGED <<read, n>>
    PROVE  NothingForeign' /\ InPlace' /\ state' = "IDLE"
<1>1. read \in Read /\ multiframe_info(read.id).multi
  BY ReadAssumption
<1>2. out' = Payload(buf, mask) /\ state' = "IDLE"
  BY DEF finish_multi, Payload
<1>3. NothingForeign'
  <2>1. Own(Payload(buf, mask))
    BY <1>1, PayloadIsOwn, Zenon
  <2>2. Own(out')
    BY <1>2, <2>1, Zenon
  <2> QED
    BY <2>2, Zenon DEF Own, NothingForeign
<1>4. ASSUME read.base \in mask
      PROVE  out' = Documented'
  <2>1. out' = DocumentedOf(mask)
    BY <1>1, <1>2, <1>4, FinishedAsDocumented, Zenon
  <2>2. Nominal' = NominalOf(mask)
    BY Zenon DEF Nominal, NominalOf, FirstMissing, FirstMissingOf
  <2>3. Documented' = DocumentedOf(mask)
    BY <2>2, Zenon DEF Documented, DocumentedOf, Sent
  <2> QED
    BY <2>1, <2>3
<1> QED
  BY <1>2, <1>3, <1>4 DEF InPlace

LEMMA ReassembledInit ==
    ASSUME Init
    PROVE  Reassembled
<1>1. Shaped
  BY DEF Init, Shaped
<1>2. Holds(assembly, seen_mask)
  BY DEF Init, Holds
<1>3. Unreported /\ InPlace /\ NothingForeign
  BY DEF Init, Unreported, InPlace, NothingForeign
<1>4. Streamed
  <2>1. record = <<>> /\ out = <<>> /\ at = 0 /\ damaged = <<>>
    BY DEF Init
  <2>2. Undamaged = 0
    BY <2>1 DEF Undamaged, FAULT_FRAMES_PER_RECORD
  <2>3. Building /\ Aligned
    <3>1. Len(record) = 0 /\ record \in Seq(Bytes) /\ Len(out) = 0
      BY <2>1
    <3>2. 0 = 7 * 0 /\ 0 \div 4 = 0 /\ 0 % 4 = 0 /\ 0 \in 0..3 /\ 1..0 = {} /\ 0 <= 21
      OBVIOUS
    <3>3. Building
      BY <3>1, <3>2, Zenon DEF Building
    <3> QED
      BY <2>1, <3>1, <3>2, <3>3 DEF Aligned
  <2>4. Reported
    BY <2>1, <2>2 DEF Reported
  <2> QED
    BY <2>1, <2>3, <2>4 DEF Streamed
<1> QED
  BY <1>1, <1>2, <1>3, <1>4 DEF Reassembled

(* begin_awaiting() clears what the reply before left.                     *)
LEMMA BeginClears ==
    ASSUME Reassembled, NEW r \in Reads, begin_awaiting(r)
    PROVE  Reassembled'
<1>1. Shaped'
  <2>1. n' \in Nat
    <3>1. n \in Nat /\ Tags \in Nat \ {0} /\ n' = (n % Tags) + 1
      BY ReadAssumption DEF Reassembled, Shaped, begin_awaiting
    <3> QED
      BY <3>1
  <2> QED
    BY <2>1 DEF begin_awaiting, Shaped
<1>2. Holds(assembly, seen_mask)'
  BY DEF begin_awaiting, Holds
<1>3. Unreported' /\ InPlace' /\ NothingForeign'
  BY DEF begin_awaiting, Unreported, InPlace, NothingForeign
<1>4. Streamed'
  <2>1. record' = <<>> /\ out' = <<>> /\ at' = 0 /\ damaged' = <<>>
    BY DEF begin_awaiting
  <2>2. Undamaged' = 0
    BY <2>1 DEF Undamaged, FAULT_FRAMES_PER_RECORD
  <2>3. Building' /\ Aligned'
    <3>1. Len(record') = 0 /\ record' \in Seq(Bytes) /\ Len(out') = 0
      BY <2>1
    <3>2. 0 = 7 * 0 /\ 0 \div 4 = 0 /\ 0 % 4 = 0 /\ 0 \in 0..3 /\ 1..0 = {} /\ 0 <= 21
      OBVIOUS
    <3>3. Building'
      BY <3>1, <3>2, Zenon DEF Building
    <3> QED
      BY <2>1, <3>1, <3>2, <3>3 DEF Aligned
  <2>4. Reported'
    BY <2>1, <2>2 DEF Reported
  <2> QED
    BY <2>1, <2>3, <2>4 DEF Streamed
<1> QED
  BY <1>1, <1>2, <1>3, <1>4 DEF Reassembled

(* A frame of a paginated reply arrives, and may be the last.              *)
LEMMA MultiKeeps ==
    ASSUME Reassembled, NEW k \in 0..(ReplyFrames(read) - 1), handle_multi(k)
    PROVE  Reassembled'
<1>1. /\ read \in Reads /\ n \in Nat /\ read \in Read /\ multiframe_info(read.id).multi
      /\ DOMAIN assembly = 0..(ASSEMBLY_LEN - 1) /\ Holds(assembly, seen_mask)
  BY ReadAssumption DEF Reassembled, Shaped
<1>2. /\ state = "AWAITING" /\ ~Streaming /\ read.base + k <= MAX_FRAME_INDEX
      /\ assembly' = Filed(k) /\ seen_mask' = seen_mask \cup {read.base + k}
      /\ read' = read /\ n' = n
  BY DEF handle_multi
<1>3. out = <<>>
  BY <1>2 DEF Reassembled, Unreported
<1>4. Holds(assembly', seen_mask')
  <2>1. ReplyFrames(read) \in Nat
    BY <1>1, ReplyFramesNat, Zenon
  <2>2. Holds(Filed(k), seen_mask \cup {read.base + k})
    BY <1>1, <1>2, <2>1, FiledHolds, Zenon
  <2> QED
    BY <1>2, <2>2, Zenon
<1>5. Holds(assembly, seen_mask)'
  BY <1>2, <1>4, Zenon DEF Holds, PackByte
<1>6. ~Streaming'
  BY <1>2 DEF Streaming
<1>7. Shaped'
  <2>1. DOMAIN Filed(k) = DOMAIN assembly
    BY DEF Filed
  <2> QED
    BY <1>1, <1>2, <1>6, <2>1, Zenon DEF Shaped
<1>8. Streamed'
  BY <1>6 DEF Streamed
<1>9. Unreported' /\ NothingForeign' /\ InPlace'
  <2>1. CASE finish_multi(assembly', seen_mask')
    <3>1. seen_mask' # {}
      BY <1>2
    <3>2. NothingForeign' /\ InPlace' /\ state' = "IDLE"
      BY <1>1, <1>2, <1>4, <2>1, <3>1, FinishReports, Zenon
    <3> QED
      BY <3>2 DEF Unreported
  <2>2. CASE UNCHANGED <<state, out>>
    <3>1. state' = "AWAITING" /\ out' = <<>>
      BY <1>2, <1>3, <2>2
    <3> QED
      BY <3>1 DEF Unreported, NothingForeign, InPlace
  <2>3. finish_multi(assembly', seen_mask') \/ UNCHANGED <<state, out>>
    BY Zenon DEF handle_multi
  <2> QED
    BY <2>1, <2>2, <2>3
<1> QED
  BY <1>5, <1>7, <1>8, <1>9 DEF Reassembled

(* The deadline passes with some frames in.                                *)
LEMMA DeadlineKeeps ==
    ASSUME Reassembled, DeadlineFinishes
    PROVE  Reassembled'
<1>1. read \in Reads /\ n \in Nat /\ Holds(assembly, seen_mask)
  BY DEF Reassembled, Shaped
<1>2. /\ seen_mask # {} /\ finish_multi(assembly, seen_mask)
      /\ UNCHANGED <<read, n, assembly, seen_mask>>
  BY DEF DeadlineFinishes, buffers
<1>3. NothingForeign' /\ InPlace' /\ state' = "IDLE"
  BY <1>1, <1>2, FinishReports, Zenon
<1>4. ~Streaming
  BY <1>2 DEF Reassembled, Shaped
<1>5. ~Streaming'
  BY <1>2, <1>4 DEF Streaming
<1>6. Shaped' /\ Holds(assembly, seen_mask)'
  <2>1. Shaped'
    BY <1>2 DEF Reassembled, Shaped, Streaming
  <2> QED
    BY <1>1, <1>2, <2>1, Zenon DEF Holds, PackByte
<1> QED
  BY <1>3, <1>5, <1>6 DEF Reassembled, Unreported, Streamed

(* A step that leaves the reply as it is and reports nothing of it.        *)
LEMMA QuietKeeps ==
    ASSUME Reassembled, UNCHANGED <<read, n, assembly, seen_mask, out, record, at, damaged>>,
           UNCHANGED state \/ seen_mask = {}, state' = "IDLE" \/ UNCHANGED state
    PROVE  Reassembled'
<1>1. Shaped' /\ Streamed' /\ NothingForeign'
  <2>1. Shaped' /\ NothingForeign'
    BY DEF Reassembled, Shaped, Streaming, NothingForeign
  <2>2. Streaming' = Streaming /\ Undamaged' = Undamaged
    BY DEF Streaming, Undamaged
  <2>3. (Building => Building') /\ (Aligned => Aligned')
    BY DEF Building, Aligned
  <2>4. Reported => Reported'
    BY <2>2, Zenon DEF Reported, Stored
  <2> QED
    BY <2>1, <2>2, <2>3, <2>4 DEF Reassembled, Streamed
<1>2. Holds(assembly, seen_mask)'
  BY Zenon DEF Reassembled, Holds, PackByte
<1>3. Unreported'
  BY DEF Reassembled, Unreported, Streaming
<1>4. InPlace'
  <2>1. CASE seen_mask = {}
    BY <2>1 DEF InPlace
  <2>2. CASE UNCHANGED state
    BY <2>2, Zenon DEF Reassembled, InPlace, Documented, Nominal, FirstMissing, Sent
  <2> QED
    BY <2>1, <2>2
<1> QED
  BY <1>1, <1>2, <1>3, <1>4 DEF Reassembled

(* A frame of the stream is lost: what was reported stays.                 *)
LEMMA LostKeeps ==
    ASSUME Reassembled, StreamFrameLost
    PROVE  Reassembled'
<1>1. /\ state = "AWAITING" /\ Streaming /\ at' = at + 1 /\ Damage
      /\ UNCHANGED <<state, read, n, out, assembly, seen_mask, record>>
  BY DEF StreamFrameLost, buffers
<1>2. /\ at \in Nat /\ damaged \in Seq(Nat) /\ out \in Seq(Seq(Bytes))
      /\ Building /\ Aligned /\ Reported
  BY <1>1 DEF Reassembled, Streamed
<1>3. damaged' \in Seq(Nat) /\ damaged' # <<>> /\ Undamaged' = Undamaged
  BY <1>1, <1>2, DamageMarks, Zenon
<1>4. Streamed'
  <2>1. at' \in Nat /\ out' \in Seq(Seq(Bytes))
    BY <1>1, <1>2
  <2>2. Building'
    BY <1>1, <1>2, Zenon DEF Building
  <2>3. Aligned'
    BY <1>3 DEF Aligned
  <2>4. Reported'
    BY <1>1, <1>2, <1>3, Zenon DEF Reported, Stored
  <2> QED
    BY <1>3, <2>1, <2>2, <2>3, <2>4 DEF Streamed
<1>5. Shaped' /\ Unreported' /\ NothingForeign' /\ InPlace'
  BY <1>1 DEF Reassembled, Shaped, Unreported, NothingForeign, InPlace, Streaming
<1>6. Holds(assembly, seen_mask)'
  BY <1>1, Zenon DEF Reassembled, Holds, PackByte
<1> QED
  BY <1>4, <1>5, <1>6 DEF Reassembled

(* A frame of the stream arrives.                                          *)
LEMMA ArrivesKeeps ==
    ASSUME Reassembled, StreamFrameArrives
    PROVE  Reassembled'
<1>1. /\ state = "AWAITING" /\ Streaming
      /\ UNCHANGED <<state, read, n, assembly, seen_mask>>
  BY DEF StreamFrameArrives
<1>2. Streamed' /\ NothingForeign'
  BY ArrivesStreamed DEF Reassembled, Shaped
<1>3. Shaped' /\ Unreported' /\ InPlace'
  BY <1>1 DEF Reassembled, Shaped, Unreported, InPlace, Streaming
<1>4. Holds(assembly, seen_mask)'
  BY <1>1, Zenon DEF Reassembled, Holds, PackByte
<1> QED
  BY <1>2, <1>3, <1>4 DEF Reassembled

LEMMA ReassembledNext ==
    ASSUME Reassembled, [Next]_vars
    PROVE  Reassembled'
<1>1. ASSUME NEW r \in Reads, begin_awaiting(r)
      PROVE  Reassembled'
  BY <1>1, BeginClears
<1>2. ASSUME NEW k \in 0..(ReplyFrames(read) - 1), handle_multi(k)
      PROVE  Reassembled'
  BY <1>2, MultiKeeps
<1>3. CASE StreamFrameArrives
  BY <1>3, ArrivesKeeps
<1>4. CASE StreamFrameLost
  BY <1>4, LostKeeps
<1>5. CASE StreamEnds
  <2>1. seen_mask = {}
    BY <1>5 DEF StreamEnds, Reassembled, Shaped
  <2> QED
    BY <1>5, <2>1, QuietKeeps DEF StreamEnds, buffers, stream
<1>6. CASE DeadlineFinishes
  BY <1>6, DeadlineKeeps
<1>7. CASE DeadlineGivesUp
  BY <1>7, QuietKeeps DEF DeadlineGivesUp, buffers, stream
<1>8. CASE UNCHANGED vars
  BY <1>8, QuietKeeps DEF vars, buffers, stream
<1> QED
  BY <1>1, <1>2, <1>3, <1>4, <1>5, <1>6, <1>7, <1>8 DEF Next

LEMMA AlwaysReassembled == Spec => []Reassembled
<1>1. Init => Reassembled
  BY ReassembledInit
<1>2. Reassembled /\ [Next]_vars => Reassembled'
  BY ReassembledNext
<1> QED
  BY <1>1, <1>2, PTL DEF Spec

-----------------------------------------------------------------------------
(* With the first frame in, what finish_multi() reports of a paginated     *)
(* reply is the documented items, each in its place: whichever base the    *)
(* pack counts from, in whatever order and how often frames came, for      *)
(* every read of every paginated command.                                  *)
THEOREM ReadingsKeepTheirPlace == Spec => []ReadingsInPlace
<1>1. Reassembled => ReadingsInPlace
  BY DEF Reassembled, InPlace, ReadingsInPlace, Finished
<1> QED
  BY <1>1, AlwaysReassembled, PTL

(* Every byte reported came in a frame of the reply in hand: nothing of    *)
(* the replies and streams before it in assembly_ and record_, and no zero *)
(* of the buffer, even with frames missing.                                *)
THEOREM NoForeignBytes == Spec => []NothingForeign
<1>1. Reassembled => NothingForeign
  BY DEF Reassembled
<1> QED
  BY <1>1, AlwaysReassembled, PTL

(* handle_stream() reports the stored records whole and in order up to the *)
(* first frame lost or repeated, for streams of every length and any       *)
(* number of frames lost or repeated.                                      *)
THEOREM RecordsKeepTheirOrder == Spec => []RecordsInOrder
<1>1. ASSUME Reassembled
      PROVE  RecordsInOrder
  <2>1. SUFFICES ASSUME Streaming
                 PROVE  /\ Len(out) >= Undamaged
                        /\ damaged = <<>> => Len(out) = Undamaged
                        /\ \A i \in 1..Undamaged :
                               out[i] = [b \in 1..FAULT_RECORD_LEN |->
                                            <<n, FAULT_BUFFER_LEN * (i - 1) + b>>]
    BY DEF RecordsInOrder
  <2>2. /\ at \in Nat /\ damaged \in Seq(Nat) /\ out \in Seq(Seq(Bytes)) /\ Aligned /\ Reported
    BY <1>1, <2>1 DEF Reassembled, Streamed
  <2>3. Undamaged \in Nat /\ Len(out) \in Nat
    BY <2>2, UndamagedNat
  <2>4. Len(out) >= Undamaged
    BY <2>2, <2>3 DEF Reported
  <2>5. ASSUME damaged = <<>>
        PROVE  Len(out) = Undamaged
    BY <2>2, <2>5 DEF Aligned, Undamaged, FAULT_FRAMES_PER_RECORD
  <2> QED
    BY <2>2, <2>4, <2>5, Zenon DEF Reported, Stored
<1> QED
  BY <1>1, AlwaysReassembled, PTL
=============================================================================

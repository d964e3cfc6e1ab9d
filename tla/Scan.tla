-------------------------------- MODULE Scan --------------------------------
(***************************************************************************)
(* Attribution in a phased pump (scan_records in pump.rs): the bytes a     *)
(* session returns are split into records by phase, incrementally, while   *)
(* the session drops whole frames out of the stream.                       *)
(*                                                                         *)
(* A record is four words of four bytes (MAGIC, phase and reserved, index  *)
(* low, index high), so the word is the unit here.  One write is one frame *)
(* of 63 * SESSION_MTU bytes: one word more than a whole number of         *)
(* records, which is where a lost frame tears the stream.                  *)
(***************************************************************************)
EXTENDS Integers, SequencesExt, FiniteSetsExt

CONSTANTS
  Frame,           \* words in a full frame: one write_all of the pump
  Own, Foreign,    \* the phase under measurement and an earlier one
  OwnRecords, ForeignRecords,  \* records each of them sent
  MaxRead          \* bound: the most words one read returns

RecordSize == 4
Magic == -1

(* A tag is one byte. *)
ScanParameters ==
  /\ Frame \in Nat /\ Frame >= RecordSize
  /\ OwnRecords \in Nat \ {0} /\ ForeignRecords \in Nat /\ MaxRead \in Nat \ {0}
  /\ Own \in 0 .. 255 /\ Foreign \in 0 .. 255 /\ Own # Foreign

ASSUME ScanAssumption == ScanParameters

-----------------------------------------------------------------------------
(* tagged_payload.  The scan sees only a word's value; who sent it and     *)
(* where it stood are kept to say what the scan should have found.         *)
Word(phase, k) ==
  LET pos == (k - 1) % RecordSize  rec == (k - 1) \div RecordSize IN
  [val |-> CASE pos = 0 -> Magic [] pos = 1 -> phase [] pos = 2 -> rec [] pos = 3 -> 0,
   phase |-> phase, at |-> k]

Payload(phase, records) == [k \in 1 .. records * RecordSize |-> Word(phase, k)]

(* The frames a payload is written as. *)
FramesOf(payload) ==
  [f \in 1 .. (Len(payload) + Frame - 1) \div Frame |->
     SubSeq(payload, (f - 1) * Frame + 1, Min({f * Frame, Len(payload)}))]

(* The session keeps frames in order, so the earlier phase's come first. *)
Frames == FramesOf(Payload(Foreign, ForeignRecords)) \o FramesOf(Payload(Own, OwnRecords))

-----------------------------------------------------------------------------
(* A whole record fits behind position `at`. *)
Fits(b, at) == at + RecordSize <= Len(b)

(* Mutant: what is no record is skipped a record at a time. *)
StrideAligned(b, at) == RecordSize

(* How far the scan moves on from `at`: over a record, or by one word.     *)
Stride(b, at) == IF b[at + 1].val = Magic THEN RecordSize ELSE 1

(* The byte a tag is looked for in: that of a tag, the lowest of an index, *)
(* or the first letter of another MAGIC.                                   *)
TagByte(w) == IF w.val = Magic THEN 72 ELSE w.val % 256

(* scan_records from `from` to the first position where no record fits.    *)
ScanRecords(b, from) ==
  LET scan[at \in from .. Len(b) + RecordSize] ==
        IF ~Fits(b, at)
        THEN [at |-> at, mine |-> 0, foreign |-> 0, taken |-> <<>>]
        ELSE LET rest  == scan[at + Stride(b, at)]
                 head  == b[at + 1].val = Magic
                 tagged == head /\ TagByte(b[at + 2]) = Own
             IN [at |-> rest.at,
                 mine |-> rest.mine + (IF tagged THEN 1 ELSE 0),
                 foreign |-> rest.foreign + (IF head /\ ~tagged THEN 1 ELSE 0),
                 taken |-> IF tagged
                           THEN SubSeq(b, at + 1, Min({at + RecordSize, Len(b)})) \o rest.taken
                           ELSE rest.taken]
  IN scan[from]

-----------------------------------------------------------------------------
VARIABLES
  next,      \* the next frame the session takes up
  arrived,   \* words delivered and not yet read
  received,  \* the pump's buffer
  scanAt, mineFound, foreignFound, mineBuf,
  lost       \* frames the session dropped

scanVars == <<next, arrived, received, scanAt, mineFound, foreignFound, mineBuf, lost>>

ScanInit ==
  /\ next = 1 /\ arrived = <<>> /\ received = <<>>
  /\ scanAt = 0 /\ mineFound = 0 /\ foreignFound = 0 /\ mineBuf = <<>>
  /\ lost = {}

Deliver ==
  /\ next <= Len(Frames)
  /\ arrived' = arrived \o Frames[next] /\ next' = next + 1
  /\ UNCHANGED <<received, scanAt, mineFound, foreignFound, mineBuf, lost>>

(* A frame missing a segment is discarded whole. *)
Drop ==
  /\ next <= Len(Frames)
  /\ lost' = lost \cup {next} /\ next' = next + 1
  /\ UNCHANGED <<arrived, received, scanAt, mineFound, foreignFound, mineBuf>>

(* Mutant: the next scan starts behind everything read so far. *)
ResumeBehind(found, b) == Len(b)

(* Where the next scan starts. *)
Resume(found, b) == found.at

(* A read of n words and the scan over what it completes. *)
Recv(n) ==
  /\ n <= Len(arrived)
  /\ received' = received \o SubSeq(arrived, 1, n)
  /\ arrived' = SubSeq(arrived, n + 1, Len(arrived))
  /\ LET found == ScanRecords(received', scanAt) IN
       /\ scanAt' = Resume(found, received')
       /\ mineFound' = mineFound + found.mine /\ foreignFound' = foreignFound + found.foreign
       /\ mineBuf' = mineBuf \o found.taken
  /\ UNCHANGED <<next, lost>>

(* Nothing is left to arrive. *)
Drained == next > Len(Frames) /\ arrived = <<>> /\ UNCHANGED scanVars

ScanNext == Deliver \/ Drop \/ (\E n \in 1 .. MaxRead : Recv(n)) \/ Drained

ScanSpec == ScanInit /\ [][ScanNext]_scanVars

(* Mutant: as many bytes as were sent. *)
ShaOkByLength == Len(mineBuf) = OwnRecords * RecordSize

(* sha_ok: what was collected has the length and the digest of the payload. *)
ShaOk ==
  /\ Len(mineBuf) = OwnRecords * RecordSize
  /\ \A k \in 1 .. OwnRecords * RecordSize : mineBuf[k].val = Word(Own, k).val

-----------------------------------------------------------------------------
(* Properties *)

(* The records found do not depend on where the reads happened to fall:    *)
(* scanning piece by piece finds what one scan of the whole buffer finds.  *)
ReadsDoNotMatter ==
  LET whole == ScanRecords(received, 0) IN
  /\ scanAt = whole.at /\ mineFound = whole.mine /\ foreignFound = whole.foreign
  /\ mineBuf = whole.taken

(* A phase whose digest is right has arrived: every word it sent was read, *)
(* also if torn records of either phase were taken for its own.            *)
CompleteMeansWhole ==
  ShaOk => \A k \in 1 .. OwnRecords * RecordSize :
             \E i \in 1 .. Len(received) : received[i] = Word(Own, k)

(* Records of this phase that stand whole in the buffer. *)
Intact ==
  {i \in 0 .. Len(received) - RecordSize :
     \A d \in 1 .. RecordSize :
       /\ received[i + d].phase = Own
       /\ received[i + d].at % RecordSize = d % RecordSize
       /\ received[i + d].at = received[i + 1].at + d - 1}

(* Places where the buffer does not go on with the word that was sent next. *)
Holes ==
  {i \in 1 .. Len(received) - 1 :
     ~ \/ received[i + 1].phase = received[i].phase /\ received[i + 1].at = received[i].at + 1
       \/ /\ received[i].phase = Foreign /\ received[i].at = ForeignRecords * RecordSize
          /\ received[i + 1].phase = Own /\ received[i + 1].at = 1}

(* A hole costs no more than the record it tears and the one behind it:    *)
(* of the records that did arrive whole, at most one per hole is missed.   *)
OneRecordPerHole == Cardinality(Intact) - mineFound <= Cardinality(Holes)

(* What the hole test says of attribution, and the code does not hold:     *)
(* records are foreign only when another phase sent something.             *)
ForeignIsForeign == ForeignRecords = 0 => foreignFound = 0
=============================================================================

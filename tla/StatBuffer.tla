----------------------------- MODULE StatBuffer -----------------------------
(***************************************************************************)
(* The statistics of the last seconds (statBuffer.h): a ring with a bucket *)
(* for each second, its place the time modulo the length of the ring. A    *)
(* bucket holds what was added in its second, here as a sequence.          *)
(***************************************************************************)
EXTENDS Naturals, Sequences, SequencesExt

CONSTANT Length    \* of the ring, more than 0

Empty == [data |-> [i \in 0..Length - 1 |-> <<>>], last |-> 0]

(* Mutant: the last bucket keeps what it has.                              *)
PassedButLast(last, idx) == {(last + n) % Length : n \in 1..((idx + Length - last) % Length) - 1}

(* The buckets add() passes on its way from last to idx are emptied. *)
Passed(last, idx) == {(last + n) % Length : n \in 1..(idx + Length - last) % Length}

(* add, in second now. *)
Add(buffer, now, value) ==
    LET idx == now % Length
    IN  [data |-> [i \in 0..Length - 1 |->
                      LET bucket == IF i \in Passed(buffer.last, idx) THEN <<>> ELSE buffer.data[i]
                      IN  IF i = idx THEN Append(bucket, value) ELSE bucket],
         last |-> idx]

(* getAvg, getMin and getMax look at the seconds before the last one that  *)
(* has a record, the nearest first, whatever the time is.                  *)
Window(buffer, seconds) ==
    FlattenSeq([n \in 1..seconds |-> buffer.data[(buffer.last + Length * seconds - n) % Length]])
AddAll(records) == FoldLeft(LAMBDA b, r : Add(b, r.at, r.value), Empty, records)

-----------------------------------------------------------------------------
(* The records whose second is one of those before the last record's.      *)
Recent(records, seconds) ==
    LET now == Last(records).at
    IN  SelectSeq(records, LAMBDA r : r.at < now /\ r.at + seconds >= now)

(* The window holds what was added in its seconds, and nothing older.      *)
(* Known defect: add() looks at the places of the last second and of this  *)
(* one only (statBuffer.h:106-109); after a silence as long as the ring it *)
(* leaves old buckets where they are, and what was added before it counts  *)
(* as recent. The value of a record is its number here.                    *)
SilenceSince(records, value) ==
    \E n \in value + 1..Len(records) : records[n].at - records[n - 1].at >= Length
WindowRight(records, seconds) ==
    LET window == ToSet(Window(AddAll(records), seconds))
        recent == {r.value : r \in ToSet(Recent(records, seconds))}
    IN  recent \subseteq window /\ \A value \in window \ recent : SilenceSince(records, value)
=============================================================================

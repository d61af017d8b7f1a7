----------------------- MODULE RecordRetention_proofs -----------------------
(***************************************************************************)
(* For every length of the day, every retention period and every time      *)
(* zone: what the text comparison of cleanup_old_records deletes.          *)
(***************************************************************************)
EXTENDS RecordRetention, TLAPS

\* The state a step starts from: the text of a row is that of the time it was
\* written at.
RetentionInv ==
    /\ now \in Int
    /\ DOMAIN touched = DOMAIN last_seen
    /\ \A r \in DOMAIN touched :
          touched[r] \in Int /\ last_seen[r] = isoformat(touched[r])

\* An earlier date is an earlier time, and an earlier time less than a day before
\* is not of a later date.
LEMMA DivFacts ==
    ASSUME NEW a \in Int, NEW b \in Int
    PROVE  /\ a \div Day \in Int
           /\ b \div Day \in Int
           /\ a \div Day < b \div Day => a < b
           /\ ~(a \div Day < b \div Day) => b - a < Day
<1>1. Day \in Nat /\ Day > 0
  BY RetentionAssumption
<1>. DEFINE p == a \div Day
            q == b \div Day
<1>2. /\ p \in Int /\ q \in Int
      /\ Day * p <= a /\ a < Day * p + Day
      /\ Day * q <= b /\ b < Day * q + Day
  BY <1>1, Z3
<1>. HIDE DEF p, q
<1>3. ASSUME p < q PROVE a < b
  <2>1. Day * (p + 1) <= Day * q
    BY <1>1, <1>2, <1>3, Z3
  <2>. QED
    BY <1>1, <1>2, <2>1, Z3
<1>4. ASSUME ~(p < q) PROVE b - a < Day
  <2>1. Day * q <= Day * p
    BY <1>1, <1>2, <1>4, Z3
  <2>. QED
    BY <1>1, <1>2, <2>1, Z3
<1>. QED
  BY <1>2, <1>3, <1>4 DEF p, q

\* The comparison of the two texts is that of their dates: T is above the space.
LEMMA TextLeqIsDate ==
    ASSUME NEW a, NEW b
    PROVE  TextLeq(Text(a, T), Text(b, Space)) <=> a \div Day < b \div Day
  BY DEF TextLeq, Text, T, Space

\* A row of a given age is deleted above the one bound and kept below the other.
LEMMA CutoffFacts ==
    ASSUME RetentionInv, NEW r \in DOMAIN last_seen
    PROVE  /\ r \notin Kept => Age(r) > DB_CLEANUP_DAYS * Day + Offset
           /\ r \in Kept => Age(r) < (DB_CLEANUP_DAYS + 1) * Day + Offset
<1>. DEFINE a == touched[r] + Offset
            n == DB_CLEANUP_DAYS * Day
            b == now - n
<1>1. /\ touched[r] \in Int /\ now \in Int /\ Offset \in Int
      /\ Day \in Int /\ DB_CLEANUP_DAYS \in Int
      /\ last_seen[r] = Text(a, T)
  BY RetentionAssumption DEF RetentionInv, isoformat
<1>2. n \in Int /\ (DB_CLEANUP_DAYS + 1) * Day = n + Day
  BY <1>1
<1>3. r \in Kept <=> ~(a \div Day < b \div Day)
  BY <1>1, TextLeqIsDate DEF Kept, Cutoff
<1>4. a \in Int /\ b \in Int
  BY <1>1, <1>2
<1>5. /\ a \div Day < b \div Day => a < b
      /\ ~(a \div Day < b \div Day) => b - a < Day
  BY <1>4, DivFacts
<1>6. /\ r \notin Kept => a < b
      /\ r \in Kept => b - a < Day
  BY <1>3, <1>5
<1>. HIDE DEF n
<1>. QED
  BY <1>1, <1>2, <1>6 DEF Age, n

\* The three actions keep the text of a row in step with its history.
LEMMA RetentionInvariant == Spec => []RetentionInv
<1>1. Init => RetentionInv
  BY RetentionAssumption DEF Init, RetentionInv
<1>2. ASSUME RetentionInv, [Next]_vars PROVE RetentionInv'
  <2>1. CASE UNCHANGED vars
    BY <1>2, <2>1 DEF vars, RetentionInv, isoformat, Text
  <2>2. CASE Tick
    BY <1>2, <2>2 DEF Tick, RetentionInv, isoformat, Text
  <2>3. ASSUME NEW r \in Rows, TouchRow(r) PROVE RetentionInv'
    BY <1>2, <2>3 DEF TouchRow, RetentionInv
  <2>4. CASE cleanup_old_records
    BY <1>2, <2>4 DEF cleanup_old_records, Kept, RetentionInv
  <2>. QED
    BY <1>2, <2>1, <2>2, <2>3, <2>4 DEF Next
<1>. QED
  BY <1>1, <1>2, PTL DEF Spec

\* East of UTC, or on it, cleanup_old_records deletes no row that was seen within
\* the retention period, for every period, clock and set of rows.
THEOREM DeletesOnlyOldEast ==
    ASSUME Offset >= 0
    PROVE  Spec => DeletesOnlyOld
<1>1. ASSUME RetentionInv, [Next]_vars, NEW r \in DOMAIN touched \ DOMAIN touched'
      PROVE  Age(r) > DB_CLEANUP_DAYS * Day
  <2>1. CASE UNCHANGED vars
    BY <1>1, <2>1 DEF vars
  <2>2. CASE Tick \/ \E q \in Rows : TouchRow(q)
    BY <1>1, <2>2 DEF Tick, TouchRow
  <2>3. CASE cleanup_old_records
    <3>1. r \in DOMAIN last_seen /\ r \notin Kept
      BY <1>1, <2>3 DEF cleanup_old_records, RetentionInv
    <3>2. Age(r) > DB_CLEANUP_DAYS * Day + Offset
      BY <1>1, <3>1, CutoffFacts
    <3>3. DB_CLEANUP_DAYS * Day \in Int /\ Offset \in Int /\ Age(r) \in Int
      BY <1>1, RetentionAssumption DEF RetentionInv, Age
    <3>. QED
      BY <3>2, <3>3
  <2>. QED
    BY <1>1, <2>1, <2>2, <2>3 DEF Next
<1>2. RetentionInv /\ [Next]_vars
        => [\A r \in DOMAIN touched \ DOMAIN touched' :
              Age(r) > DB_CLEANUP_DAYS * Day]_vars
  BY <1>1
<1>. QED
  BY <1>2, RetentionInvariant, PTL DEF Spec, DeletesOnlyOld

\* West of UTC, or on it, cleanup_old_records leaves no row for more than a day
\* above the retention period.
THEOREM DeletesWithinADayWest ==
    ASSUME Offset <= 0
    PROVE  Spec => DeletesWithinADay
<1>1. ASSUME RetentionInv, cleanup_old_records, NEW r \in DOMAIN touched'
      PROVE  now - touched'[r] < (DB_CLEANUP_DAYS + 1) * Day
  <2>1. r \in Kept /\ r \in DOMAIN last_seen /\ touched'[r] = touched[r]
    BY <1>1 DEF cleanup_old_records, Kept
  <2>2. Age(r) < (DB_CLEANUP_DAYS + 1) * Day + Offset
    BY <1>1, <2>1, CutoffFacts
  <2>3. (DB_CLEANUP_DAYS + 1) * Day \in Int /\ Offset \in Int /\ Age(r) \in Int
    BY <1>1, <2>1, RetentionAssumption DEF RetentionInv, Age
  <2>. QED
    BY <2>1, <2>2, <2>3 DEF Age
<1>2. RetentionInv /\ [Next]_vars
        => [cleanup_old_records =>
             \A r \in DOMAIN touched' :
                now - touched'[r] < (DB_CLEANUP_DAYS + 1) * Day]_vars
  BY <1>1
<1>. QED
  BY <1>2, RetentionInvariant, PTL DEF Spec, DeletesWithinADay
==============================================================================

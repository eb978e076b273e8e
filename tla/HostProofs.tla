---------------------------- MODULE HostProofs ----------------------------
(***************************************************************************)
(* Proofs of the promises of safety of MCHost, part by part: the records   *)
(* of calls, the requests of clients, the settings, the application as a   *)
(* whole, its control server, the command line, the calls of the headless  *)
(* host, the orders to the phone of the desktop, the call history and the  *)
(* forms of the window.  Each part is an inductive invariant, one lemma an *)
(* action that it outlasts, and what it implies; the theorems at the end   *)
(* put them together for any calls, keys, orders, writes and bounds.       *)
(***************************************************************************)
EXTENDS MCHost, SequenceTheorems, FiniteSetTheorems, TLAPS

-----------------------------------------------------------------------------
(* The records of calls *)

\* A call that was reported has started; one that is not over has no end;
\* and calls are reported in their order.
RowInv == \A c \in Reported :
  /\ emitted[c] = IF rows[c].status = "none" THEN 0 ELSE 1
  /\ rows[c].status # "ended" => rows[c].ends = 0 /\ ~rows[c].orphaned
  /\ rows[c].orphaned => rows[c].ends = 0
  /\ rows[c].status # "none" => \A d \in Reported : d < c => rows[d].status # "none"

\* The active call is going on; a voice session is one of a call that was
\* reported, and while that is on and the newest, it is the active one.
NowInv ==
  /\ up # "up" => activeId = 0 /\ speech = 0
  /\ activeId # 0 => rows[activeId].status \in {"dialing", "active"}
  /\ speech # 0 => rows[speech].status # "none"
  /\ speech # 0 /\ rows[speech].status = "active" /\ Newest(speech) => activeId = speech
  /\ speech = 0 => \A r \in Roles : line[r] = 0
  /\ \A r \in Roles : line[r] < nextId
  /\ lost = {}

\* What belongs to the active call and was not crossed has a place up to its
\* counter; while the active call is the one that speaks, so is the line.
WordInv ==
  /\ \A i \in 1..MaxEntries : entries[i].call # 0 => rows[entries[i].call].status # "none"
  /\ \A i \in 1..MaxEntries : i >= nextId => entries[i].call = 0
  /\ \A r \in Roles : activeId # 0 /\ activeId = speech /\ line[r] # 0 =>
       entries[line[r]].call \in {0, speech}
  /\ \A i \in 1..MaxEntries : activeId # 0 /\ entries[i].call = activeId /\ ~entries[i].stray =>
       entries[i].seq <= counters[activeId]
  /\ OneOrder

RowType == [status : {"none", "dialing", "active", "ended"}, ends : 0..1, orphaned : BOOLEAN]
EntryType == [call : 0..MaxReported, said : 0..MaxReported, seq : Nat, final : BOOLEAN, stray : BOOLEAN]

RecordInv == TypeOK /\ RowInv /\ NowInv /\ WordInv

\* The bounds are numbers, and calls are named by the numbers from 1.
LEMMA RecordBounds ==
  /\ MaxReported \in Nat /\ MaxEntries \in Nat /\ MaxStops \in Nat
  /\ \A c \in Reported : c \in Nat /\ c # 0 /\ c \in 0..MaxReported
  /\ \A c \in 0..MaxReported : c # 0 => c \in Reported
<1>1. MaxReported \in Nat /\ MaxEntries \in Nat /\ MaxStops \in Nat
    BY RecordsAssumption
<1> QED BY <1>1 DEF Reported

\* What a report changes of the rows.
LEMMA ReportIs ==
  ASSUME RecordInv, NEW c \in Reported, NEW status \in {"dialing", "active", "ended"}, Report(c, status)
  PROVE  /\ up = "up" /\ rows' \in [Reported -> RowType]
         /\ \A d \in Reported : d # c => rows'[d] = rows[d]
         /\ rows'[c].status = status /\ rows'[c].orphaned = rows[c].orphaned
         /\ rows'[c].ends = IF status = "ended" /\ rows[c].status \notin {"none", "ended"}
                            THEN 1 ELSE rows[c].ends
         /\ activeId' = IF status # "ended" THEN c ELSE IF activeId = c THEN 0 ELSE activeId
         /\ emitted' = IF rows[c].status = "none" THEN [emitted EXCEPT ![c] = @ + 1] ELSE emitted
         /\ UNCHANGED <<up, stops, version, shape, entries, counters, line, nextId, speech, barrier, lost>>
<1> DEFINE n == IF status = "ended" /\ rows[c].status \notin {"none", "ended"}
                THEN rows[c].ends + 1 ELSE rows[c].ends
<1>1. rows \in [Reported -> RowType] /\ rows[c] \in RowType
    BY DEF RecordInv, TypeOK, RowType
<1>2. rows' = [rows EXCEPT ![c] = [@ EXCEPT !.status = status, !.ends = n]]
    BY DEF Report, Over
<1>3. n \in 0..1 /\ n = IF status = "ended" /\ rows[c].status \notin {"none", "ended"} THEN 1 ELSE rows[c].ends
    BY <1>1 DEF RecordInv, RowInv, RowType
<1> HIDE DEF n
<1>4. [rows[c] EXCEPT !.status = status, !.ends = n] \in RowType
    BY <1>1, <1>3 DEF RowType
<1>5. /\ rows'[c] = [rows[c] EXCEPT !.status = status, !.ends = n]
      /\ rows' \in [Reported -> RowType] /\ \A d \in Reported : d # c => rows'[d] = rows[d]
    BY <1>1, <1>2, <1>4
<1>6. rows'[c].status = status /\ rows'[c].ends = n /\ rows'[c].orphaned = rows[c].orphaned
    BY <1>1, <1>5 DEF RowType
<1> QED BY <1>3, <1>5, <1>6 DEF Report, Over

\* A report of a call that begins, is answered, or ends.
LEMMA ReportKeeps ==
  ASSUME RecordInv, NEW c \in Reported, Begins(c) \/ Answers(c) \/ Ends(c)
  PROVE  /\ RecordInv'
         /\ \A d \in Reported : rows[d].status = "ended" => rows'[d].status = "ended"
<1>1. PICK status \in {"dialing", "active", "ended"} :
        /\ Report(c, status)
        /\ \/ /\ rows[c].status = "none" /\ status \in {"dialing", "ended"}
              /\ \A d \in 1..(c - 1) : rows[d].status # "none"
           \/ rows[c].status = "dialing" /\ activeId = c /\ status = "active"
           \/ /\ rows[c].status # "none" /\ status = "ended"
              /\ rows[c].status = "ended" => ~rows[c].orphaned
    BY DEF Begins, Answers, Ends
<1>2. /\ up = "up" /\ rows' \in [Reported -> RowType]
      /\ \A d \in Reported : d # c => rows'[d] = rows[d]
      /\ rows'[c].status = status /\ rows'[c].orphaned = rows[c].orphaned
      /\ rows'[c].ends = IF status = "ended" /\ rows[c].status \notin {"none", "ended"}
                         THEN 1 ELSE rows[c].ends
      /\ activeId' = IF status # "ended" THEN c ELSE IF activeId = c THEN 0 ELSE activeId
      /\ emitted' = IF rows[c].status = "none" THEN [emitted EXCEPT ![c] = @ + 1] ELSE emitted
      /\ UNCHANGED <<up, stops, version, shape, entries, counters, line, nextId, speech, barrier, lost>>
    BY <1>1, ReportIs
<1>3. TypeOK /\ RowInv /\ NowInv /\ WordInv
    BY DEF RecordInv
<1>4. c \in Nat /\ c # 0 /\ c \in 0..MaxReported /\ rows \in [Reported -> RowType]
      /\ emitted \in [Reported -> 0..1] /\ activeId \in 0..MaxReported /\ speech \in 0..MaxReported
      /\ \A d \in Reported : d \in Nat /\ d # 0 /\ rows[d] \in RowType
    BY <1>3, RecordBounds DEF TypeOK, RowType
<1>5. emitted'[c] = 1 /\ (\A d \in Reported : d # c => emitted'[d] = emitted[d]) /\ emitted' \in [Reported -> 0..1]
    <2>1. emitted[c] = IF rows[c].status = "none" THEN 0 ELSE 1
        BY <1>3 DEF RowInv
    <2> QED BY <1>2, <1>4, <2>1
<1>6. TypeOK'
    <2>1. activeId' \in 0..MaxReported
        <3>1. activeId' \in {c, 0, activeId} /\ 0 \in 0..MaxReported
            BY <1>2, RecordBounds
        <3> QED BY <1>4, <3>1
    <2>2. rows' \in [Reported -> [status : {"none", "dialing", "active", "ended"}, ends : 0..1, orphaned : BOOLEAN]]
        BY <1>2 DEF RowType
    <2> QED BY <1>2, <1>3, <1>5, <2>1, <2>2 DEF TypeOK
\* No call after c was reported, if c was not.
<1>7. \A d \in Reported : d < c => rows[d].status # "none"
    <2>1. \A d \in Reported : d < c => d \in 1..(c - 1)
        BY <1>4
    <2>2. rows[c].status # "none" => \A d \in Reported : d < c => rows[d].status # "none"
        BY <1>3 DEF RowInv
    <2> QED BY <1>1, <2>1, <2>2
<1>8. RowInv'
    <2>1. ASSUME NEW d \in Reported
          PROVE  /\ emitted'[d] = IF rows'[d].status = "none" THEN 0 ELSE 1
                 /\ rows'[d].status # "ended" => rows'[d].ends = 0 /\ ~rows'[d].orphaned
                 /\ rows'[d].orphaned => rows'[d].ends = 0
        <3>1. CASE d = c
            <4>1. /\ rows[c].status # "ended" => rows[c].ends = 0 /\ ~rows[c].orphaned
                  /\ rows[c].orphaned => rows[c].ends = 0
                BY <1>3 DEF RowInv
            <4> QED BY <1>1, <1>2, <1>5, <3>1, <4>1
        <3>2. CASE d # c
            BY <1>2, <1>3, <1>5, <3>2 DEF RowInv
        <3> QED BY <3>1, <3>2
    <2>2. ASSUME NEW d \in Reported, rows'[d].status # "none", NEW e \in Reported, e < d
          PROVE  rows'[e].status # "none"
        <3>1. CASE d = c
            BY <1>2, <1>4, <1>7, <2>2, <3>1
        <3>2. CASE d # c
            BY <1>2, <1>3, <2>2, <3>2 DEF RowInv
        <3> QED BY <3>1, <3>2
    <2> QED BY <2>1, <2>2 DEF RowInv
<1>9. \A d \in Reported : Newest(d)' => Newest(d)
    BY <1>1, <1>2 DEF Newest
<1>10. NowInv'
    <2>1. activeId' # 0 => rows'[activeId'].status \in {"dialing", "active"}
        <3>1. activeId # 0 => rows[activeId].status \in {"dialing", "active"} /\ activeId \in Reported
            BY <1>3, <1>4, RecordBounds DEF NowInv
        <3> QED BY <1>2, <3>1
    <2>2. speech' # 0 => rows'[speech'].status # "none"
        <3>1. speech # 0 => rows[speech].status # "none" /\ speech \in Reported
            BY <1>3, <1>4, RecordBounds DEF NowInv
        <3> QED BY <1>2, <3>1
    <2>3. ASSUME speech' # 0, rows'[speech'].status = "active", Newest(speech)'
          PROVE  activeId' = speech'
        <3>1. speech \in Reported /\ speech' = speech /\ rows[speech].status # "none"
            BY <1>2, <1>3, <1>4, <2>3, RecordBounds DEF NowInv
        <3>2. CASE speech = c
            BY <1>2, <2>3, <3>1, <3>2
        <3>3. CASE speech # c
            <4>1. rows[speech].status = "active"
                BY <1>2, <2>3, <3>1, <3>3
            <4>2. activeId = speech
                BY <1>3, <1>9, <2>3, <3>1, <4>1 DEF NowInv
            <4>3. rows[c].status = "none" => c < speech
                <5>1. c <= speech
                    BY <1>2, <2>3, <3>1 DEF Newest
                <5> QED BY <1>4, <3>1, <3>3, <5>1
            <4>4. rows[c].status # "none"
                BY <1>3, <3>1, <4>3 DEF RowInv
            <4> QED BY <1>1, <1>2, <3>1, <3>3, <4>2, <4>4
        <3> QED BY <3>2, <3>3
    <2> QED BY <1>2, <1>3, <2>1, <2>2, <2>3 DEF NowInv
<1>11. WordInv'
    <2>1. entries \in [1..MaxEntries -> EntryType]
        BY <1>3 DEF TypeOK, EntryType
    <2>2. \A i \in 1..MaxEntries : entries'[i].call # 0 => rows'[entries'[i].call].status # "none"
        <3>1. \A i \in 1..MaxEntries : entries[i].call # 0 =>
                rows[entries[i].call].status # "none" /\ entries[i].call \in Reported
            BY <1>3, <2>1, RecordBounds DEF WordInv, EntryType
        <3> QED BY <1>2, <3>1
    <2>3. activeId' = 0 \/ activeId' = activeId \/ (activeId' = c /\ rows[c].status = "none")
        BY <1>1, <1>2
    <2>4. ASSUME activeId' = c, rows[c].status = "none"
          PROVE  c # speech /\ \A i \in 1..MaxEntries : entries[i].call # c
        BY <1>3, <1>4, <2>4 DEF NowInv, WordInv
    <2>5. ASSUME NEW r \in Roles, activeId' # 0, activeId' = speech', line'[r] # 0
          PROVE  entries'[line'[r]].call \in {0, speech'}
        <3>1. activeId' = activeId
            BY <1>2, <2>3, <2>4, <2>5
        <3> QED BY <1>2, <1>3, <2>5, <3>1 DEF WordInv
    <2>6. ASSUME NEW i \in 1..MaxEntries, activeId' # 0, entries'[i].call = activeId', ~entries'[i].stray
          PROVE  entries'[i].seq <= counters'[activeId']
        <3>1. activeId' = activeId
            BY <1>2, <2>3, <2>4, <2>6
        <3> QED BY <1>2, <1>3, <2>6, <3>1 DEF WordInv
    <2>7. OneOrder'
        BY <1>2, <1>3 DEF WordInv, OneOrder
    <2> QED BY <1>2, <1>3, <2>2, <2>5, <2>6, <2>7 DEF WordInv
<1> QED BY <1>1, <1>2, <1>6, <1>8, <1>10, <1>11 DEF RecordInv

\* An entry that is written or changed.
LEMMA HeardKeeps ==
  ASSUME RecordInv, NEW r \in Roles, NEW final \in BOOLEAN, Heard(r, final)
  PROVE  RecordInv' /\ rows' = rows
<1> DEFINE i == IF line[r] = 0 THEN nextId ELSE line[r]
<1>1. TypeOK /\ RowInv /\ NowInv /\ WordInv
    BY DEF RecordInv
<1>2. /\ up = "up" /\ speech # 0 /\ i <= MaxEntries /\ Booked(i, final)
      /\ nextId' = IF line[r] = 0 THEN nextId + 1 ELSE nextId
      /\ line' = [line EXCEPT ![r] = IF final THEN 0 ELSE i]
      /\ UNCHANGED <<up, stops, version, shape, rows, barrier, activeId, speech, emitted>>
    BY DEF Heard
<1>3. /\ MaxEntries \in Nat /\ MaxReported \in Nat /\ nextId \in 1..(MaxEntries + 1)
      /\ line \in [Roles -> 0..MaxEntries] /\ entries \in [1..MaxEntries -> EntryType]
      /\ counters \in [Reported -> Nat] /\ activeId \in 0..MaxReported /\ speech \in 0..MaxReported
      /\ lost \subseteq Reported
    BY <1>1, RecordBounds DEF TypeOK, EntryType
<1>4. i \in 1..MaxEntries /\ nextId' \in 1..(MaxEntries + 1) /\ nextId' >= nextId
    <2>1. line[r] \in 0..MaxEntries
        BY <1>3
    <2> QED BY <1>2, <1>3, <2>1
<1>5. line[r] = 0 => entries[i].call = 0 /\ nextId' > i
    BY <1>1, <1>3, <1>4, <1>2 DEF WordInv
<1> HIDE DEF i
<1>6. line' \in [Roles -> 0..MaxEntries] /\ \A q \in Roles : line'[q] \in {0, i, line[q]}
    BY <1>2, <1>3, <1>4
<1>7. i < nextId' /\ \A q \in Roles : line'[q] < nextId'
    <2>1. \A q \in Roles : line[q] < nextId
        BY <1>1 DEF NowInv
    <2>2. i < nextId'
        BY <1>2, <1>3, <1>4, <2>1 DEF i
    <2>3. 0 < nextId'
        BY <1>4
    <2>4. \A q \in Roles : line[q] < nextId'
        BY <1>3, <1>4, <2>1
    <2> QED BY <1>6, <2>2, <2>3, <2>4
\* Nothing is active: nothing is written, and no word of a call that is on.
<1>8. CASE activeId = 0
    <2>1. ~(rows[speech].status = "active" /\ Newest(speech))
        BY <1>1, <1>2, <1>8 DEF NowInv
    <2>2. lost' = lost /\ UNCHANGED <<entries, counters>>
        BY <1>2, <1>8, <2>1 DEF Booked
    <2>3. TypeOK'
        BY <1>1, <1>2, <1>4, <1>6, <2>2 DEF TypeOK
    <2>4. RowInv'
        BY <1>1, <1>2 DEF RowInv
    <2>5. NowInv'
        BY <1>1, <1>2, <1>7, <2>2 DEF NowInv, Newest
    <2>6. WordInv'
        <3>1. \A j \in 1..MaxEntries : j >= nextId' => j >= nextId
            BY <1>3, <1>4
        <3>2. OneOrder'
            BY <1>1, <2>2 DEF WordInv, OneOrder
        <3> QED BY <1>1, <1>2, <1>8, <2>2, <3>1, <3>2 DEF WordInv
    <2> QED BY <1>2, <2>3, <2>4, <2>5, <2>6 DEF RecordInv
\* The entry has the next place of the active call.
<1>9. CASE activeId # 0
    <2> DEFINE place == counters[activeId] + 1
               e == entries[i]
               new == Placed(e, final)
    <2>1. activeId \in Reported /\ counters[activeId] \in Nat /\ place \in Nat
        BY <1>3, <1>9, RecordBounds
    <2>2. e \in EntryType
        BY <1>3, <1>4
    <2>3. /\ entries' = [entries EXCEPT ![i] = new] /\ lost' = lost
          /\ counters' = [counters EXCEPT ![activeId] = place]
        BY <1>2, <1>9 DEF Booked
    <2>4. /\ new \in EntryType /\ new.seq = place
          /\ new.call = IF e.call = 0 THEN activeId ELSE e.call
          /\ activeId # speech => new.stray
          /\ (e.call # 0 /\ e.stray) => new.stray
        BY <1>3, <2>1, <2>2 DEF EntryType, Placed
    <2> HIDE DEF new, e
    <2>5. /\ entries' \in [1..MaxEntries -> EntryType] /\ entries'[i] = new
          /\ \A j \in 1..MaxEntries : j # i => entries'[j] = entries[j]
        BY <1>3, <1>4, <2>3, <2>4
    <2>6. /\ counters' \in [Reported -> Nat] /\ counters'[activeId] = place
        BY <1>3, <2>1, <2>3
    <2>7. TypeOK'
        BY <1>1, <1>2, <1>4, <1>6, <2>3, <2>5, <2>6 DEF TypeOK, EntryType
    <2>8. RowInv'
        BY <1>1, <1>2 DEF RowInv
    <2>9. NowInv'
        BY <1>1, <1>2, <1>7, <2>3 DEF NowInv, Newest
    \* An entry that is not crossed is of the call that speaks, the active one.
    <2>10. ~new.stray => new.call = activeId
        <3>1. ASSUME ~new.stray, e.call # 0 PROVE e.call = activeId
            <4>1. activeId = speech
                BY <2>4, <3>1
            <4>2. line[r] = i
                BY <1>5, <3>1 DEF e, i
            <4>3. line[r] # 0
                BY <1>3, <1>4, <4>2
            <4>4. entries[line[r]].call \in {0, speech}
                BY <1>1, <1>9, <4>1, <4>3 DEF WordInv
            <4> QED BY <3>1, <4>1, <4>2, <4>4 DEF e
        <3> QED BY <2>4, <3>1
    <2>11. WordInv'
        <3>1. ASSUME NEW j \in 1..MaxEntries, entries'[j].call # 0
              PROVE  rows'[entries'[j].call].status # "none"
            <4>1. rows[activeId].status # "none"
                BY <1>1, <1>9 DEF NowInv
            <4>2. CASE j = i
                BY <1>1, <1>2, <1>4, <2>4, <2>5, <4>1, <4>2 DEF WordInv, e
            <4>3. CASE j # i
                BY <1>1, <1>2, <2>5, <3>1, <4>3 DEF WordInv
            <4> QED BY <4>2, <4>3
        <3>2. ASSUME NEW j \in 1..MaxEntries, j >= nextId' PROVE entries'[j].call = 0
            <4>1. j >= nextId
                BY <1>3, <1>4, <3>2
            <4>2. entries[j].call = 0
                BY <1>1, <4>1 DEF WordInv
            <4>3. j # i
                BY <1>4, <1>7, <3>2
            <4> QED BY <2>5, <4>2, <4>3
        <3>3. ASSUME NEW q \in Roles, activeId' # 0, activeId' = speech', line'[q] # 0
              PROVE  entries'[line'[q]].call \in {0, speech'}
            <4>1. entries[i].call \in {0, activeId}
                <5>1. CASE line[r] = 0
                    BY <1>5, <5>1
                <5>2. CASE line[r] # 0
                    BY <1>1, <1>2, <1>9, <3>3, <5>2 DEF WordInv, i
                <5> QED BY <5>1, <5>2
            <4>2. CASE line'[q] = i
                BY <1>2, <2>4, <2>5, <3>3, <4>1, <4>2 DEF e
            <4>3. CASE line'[q] # i
                <5>1. line'[q] = line[q] /\ line[q] # 0 /\ line[q] \in 1..MaxEntries
                    BY <1>3, <1>6, <3>3, <4>3
                <5>2. entries[line[q]].call \in {0, speech}
                    BY <1>1, <1>2, <3>3, <5>1 DEF WordInv
                <5> QED BY <1>2, <2>5, <4>3, <5>1, <5>2
            <4> QED BY <4>2, <4>3
        <3>4. ASSUME NEW j \in 1..MaxEntries, activeId' # 0, entries'[j].call = activeId', ~entries'[j].stray
              PROVE  entries'[j].seq <= counters'[activeId']
            <4>1. CASE j = i
                BY <1>2, <2>1, <2>4, <2>5, <2>6, <4>1
            <4>2. CASE j # i
                <5>1. entries[j].seq <= counters[activeId] /\ entries[j].seq \in Nat
                    BY <1>1, <1>2, <1>3, <1>9, <2>5, <3>4, <4>2 DEF WordInv, EntryType
                <5> QED BY <1>2, <2>1, <2>5, <2>6, <4>2, <5>1
            <4> QED BY <4>1, <4>2
        \* No other entry has the new place.
        <3>5. ASSUME NEW j \in 1..MaxEntries, j # i, entries'[j].call = new.call, entries'[j].seq = new.seq
              PROVE  new.stray \/ entries'[j].stray
            <4>1. SUFFICES ASSUME ~new.stray, ~entries[j].stray PROVE FALSE
                BY <2>5, <3>5
            <4>2. entries[j].call = activeId
                BY <2>5, <2>10, <3>5, <4>1
            <4>3. entries[j].seq <= counters[activeId] /\ entries[j].seq \in Nat
                BY <1>1, <1>3, <1>9, <4>1, <4>2 DEF WordInv, EntryType
            <4> QED BY <2>1, <2>4, <2>5, <3>5, <4>3
        <3>6. ASSUME NEW j \in 1..MaxEntries, NEW k \in 1..MaxEntries, j # k, entries'[j].call # 0,
                     entries'[j].call = entries'[k].call, entries'[j].seq = entries'[k].seq
              PROVE  entries'[j].stray \/ entries'[k].stray
            <4>1. CASE j = i
                BY <2>5, <3>5, <3>6, <4>1
            <4>2. CASE k = i
                BY <2>5, <3>5, <3>6, <4>2
            <4>3. CASE j # i /\ k # i
                BY <1>1, <2>5, <3>6, <4>3 DEF WordInv, OneOrder
            <4> QED BY <4>1, <4>2, <4>3
        <3>7. OneOrder'
            BY <3>6 DEF OneOrder
        <3> QED BY <3>1, <3>2, <3>3, <3>4, <3>7 DEF WordInv
    <2> QED BY <1>2, <2>7, <2>8, <2>9, <2>11 DEF RecordInv
<1> QED BY <1>8, <1>9

\* Every step keeps the invariant, and what is over over.
LEMMA RecordStep ==
  RecordInv /\ [Next]_recordVars =>
    /\ RecordInv'
    /\ \A c \in Reported : rows[c].status = "ended" => rows'[c].status = "ended"
<1> SUFFICES ASSUME RecordInv, [Next]_recordVars
             PROVE  /\ RecordInv'
                    /\ \A c \in Reported : rows[c].status = "ended" => rows'[c].status = "ended"
    OBVIOUS
<1>1. TypeOK /\ RowInv /\ NowInv /\ WordInv
    BY DEF RecordInv
<1>2. MaxReported \in Nat /\ MaxEntries \in Nat /\ MaxStops \in Nat
    BY RecordBounds
\* Steps that leave the rows, the entries and what is in memory.
<1>3. ASSUME UNCHANGED <<rows, emitted, activeId, entries, counters, line, nextId, speech, lost>>,
             TypeOK', up' = up \/ (activeId = 0 /\ speech = 0)
      PROVE  /\ RecordInv'
             /\ \A c \in Reported : rows[c].status = "ended" => rows'[c].status = "ended"
    <2>1. RowInv'
        BY <1>1, <1>3 DEF RowInv
    <2>2. NowInv'
        BY <1>1, <1>3 DEF NowInv, Newest
    <2>3. OneOrder'
        BY <1>1, <1>3 DEF WordInv, OneOrder
    <2>4. WordInv'
        BY <1>1, <1>3, <2>3 DEF WordInv
    <2> QED BY <1>3, <2>1, <2>2, <2>4 DEF RecordInv
<1>4. CASE Open \/ Creates \/ Numbers \/ Migrate \/ ScopesTenants \/ ScopingFails
    <2>1. UNCHANGED <<rows, emitted, activeId, entries, counters, line, nextId, speech, lost, barrier, stops>>
        BY <1>4, Zenon DEF Open, Creates, Numbers, Migrate, ScopesTenants, ScopingFails,
           Migrating, durable, memory
    <2>2. up # "up" /\ up' \in {"down", "opening", "up"}
        BY <1>1, <1>4 DEF Open, Creates, Numbers, Migrate, ScopesTenants, ScopingFails, Migrating,
           TypeOK
    <2>3. {version', shape'} \subseteq 0..Latest
        BY <1>1, <1>4 DEF Open, Creates, Numbers, Migrate, ScopesTenants, ScopingFails, Migrating,
           durable, TypeOK, Latest
    <2>4. TypeOK'
        BY <1>1, <2>1, <2>2, <2>3 DEF TypeOK
    <2>5. activeId = 0 /\ speech = 0
        BY <1>1, <2>2 DEF NowInv
    <2> QED BY <1>3, <2>1, <2>4, <2>5
<1>5. CASE Opened
    <2>1. PICK old \in SUBSET {c \in Reported : rows[c].status = "dialing"} :
            /\ rows' = [c \in Reported |-> IF c \in old THEN [rows[c] EXCEPT !.status = "ended", !.orphaned = TRUE]
                                           ELSE rows[c]]
            /\ up # "up" /\ up' = "up"
            /\ UNCHANGED <<stops, version, shape, entries, barrier, emitted, lost,
                           activeId, counters, line, nextId, speech>>
        BY <1>5, Zenon DEF Opened, memory
    <2>2. activeId = 0 /\ speech = 0
        BY <1>1, <2>1 DEF NowInv
    <2>3. rows \in [Reported -> RowType]
        BY <1>1 DEF TypeOK, RowType
    <2>4. \A c \in Reported : c \notin old => rows'[c] = rows[c]
        BY <2>1
    <2>5. ASSUME NEW c \in old
          PROVE  /\ c \in Reported /\ rows[c].status = "dialing" /\ rows'[c] \in RowType
                 /\ rows'[c].status = "ended" /\ rows'[c].orphaned /\ rows'[c].ends = rows[c].ends
        <3>1. c \in Reported /\ rows'[c] = [rows[c] EXCEPT !.status = "ended", !.orphaned = TRUE]
            BY <2>1
        <3> QED BY <2>1, <2>3, <3>1 DEF RowType
    <2>6. rows' \in [Reported -> RowType]
        <3>1. \A c \in Reported : rows'[c] \in RowType
            BY <2>3, <2>4, <2>5
        <3> QED BY <2>1, <3>1
    <2>7. \A c \in Reported : (rows'[c].status = "none" <=> rows[c].status = "none")
                              /\ (rows[c].status = "ended" => rows'[c].status = "ended")
        BY <2>4, <2>5
    <2>8. TypeOK'
        BY <1>1, <2>1, <2>6 DEF TypeOK, RowType
    <2>9. RowInv'
        <3>1. ASSUME NEW c \in Reported
              PROVE  /\ rows'[c].status # "ended" => rows'[c].ends = 0 /\ ~rows'[c].orphaned
                     /\ rows'[c].orphaned => rows'[c].ends = 0
            BY <1>1, <2>4, <2>5 DEF RowInv
        <3>2. ASSUME NEW c \in Reported
              PROVE  /\ emitted'[c] = IF rows'[c].status = "none" THEN 0 ELSE 1
                     /\ rows'[c].status # "none" => \A d \in Reported : d < c => rows'[d].status # "none"
            BY <1>1, <2>1, <2>7 DEF RowInv
        <3> QED BY <3>1, <3>2 DEF RowInv
    <2>10. NowInv'
        BY <1>1, <2>1, <2>2 DEF NowInv
    <2>11. WordInv'
        <3>1. \A i \in 1..MaxEntries : entries[i].call # 0 => entries[i].call \in Reported
            BY <1>1, RecordBounds DEF TypeOK
        <3>2. OneOrder'
            BY <1>1, <2>1 DEF WordInv, OneOrder
        <3> QED BY <1>1, <2>1, <2>2, <2>7, <3>1, <3>2 DEF WordInv
    <2> QED BY <2>7, <2>8, <2>9, <2>10, <2>11 DEF RecordInv
<1>6. CASE Stop
    <2>1. /\ activeId' = 0 /\ speech' = 0 /\ up' = "down" /\ stops < MaxStops /\ stops' = stops + 1
          /\ counters' = [c \in Reported |-> 0] /\ line' = [r \in Roles |-> 0]
          /\ UNCHANGED <<rows, entries, emitted, nextId, lost, version, shape, barrier>>
        BY <1>6 DEF Stop, durable
    <2>2. TypeOK'
        BY <1>1, <1>2, <2>1 DEF TypeOK
    <2>3. RowInv'
        BY <1>1, <2>1 DEF RowInv
    <2>4. NowInv'
        <3>1. nextId \in 1..(MaxEntries + 1)
            BY <1>1 DEF TypeOK
        <3>2. \A r \in Roles : line'[r] = 0 /\ 0 < nextId
            BY <1>2, <2>1, <3>1
        <3> QED BY <1>1, <2>1, <3>2 DEF NowInv
    <2>5. OneOrder'
        BY <1>1, <2>1 DEF WordInv, OneOrder
    <2>6. WordInv'
        BY <1>1, <2>1, <2>5 DEF WordInv
    <2> QED BY <2>1, <2>2, <2>3, <2>4, <2>6 DEF RecordInv
<1>7. CASE VoiceStarts \/ VoiceCloses
    <2>1. /\ up = "up" /\ UNCHANGED <<up, stops, version, shape, rows, entries, barrier, activeId, counters,
                                      nextId, emitted, lost>>
          /\ \/ speech = 0 /\ activeId # 0 /\ rows[activeId].status = "active" /\ speech' = activeId /\ line' = line
             \/ speech' = 0 /\ line' = [r \in Roles |-> 0]
        BY <1>7 DEF VoiceStarts, VoiceCloses, durable
    <2>2. line' = [r \in Roles |-> 0]
        <3>1. speech = 0 => \A r \in Roles : line[r] = 0
            BY <1>1 DEF NowInv
        <3>2. line = [r \in Roles |-> line[r]]
            BY <1>1 DEF TypeOK
        <3> QED BY <2>1, <3>1, <3>2
    <2>3. TypeOK'
        <3>1. line' \in [Roles -> 0..MaxEntries]
            BY <1>2, <2>2
        <3>2. speech' \in 0..MaxReported
            BY <1>1, <1>2, <2>1 DEF TypeOK
        <3>3. /\ up' = up /\ stops' = stops /\ version' = version /\ shape' = shape
              /\ rows' = rows /\ entries' = entries /\ barrier' = barrier
              /\ activeId' = activeId /\ counters' = counters /\ nextId' = nextId
              /\ emitted' = emitted /\ lost' = lost
            BY <2>1
        <3>4. {activeId', speech'} \subseteq 0..MaxReported
            BY <1>1, <3>2, <3>3, Zenon DEF TypeOK
        <3> QED BY <1>1, <3>1, <3>3, <3>4, Zenon DEF TypeOK
    <2>4. RowInv'
        BY <1>1, <2>1 DEF RowInv
    <2>5. NowInv'
        <3>1. nextId \in 1..(MaxEntries + 1)
            BY <1>1 DEF TypeOK
        <3>2. \A r \in Roles : line'[r] = 0 /\ 0 < nextId
            BY <1>2, <2>2, <3>1
        <3> QED BY <1>1, <2>1, <3>2 DEF NowInv, Newest
    <2>6. OneOrder'
        BY <1>1, <2>1 DEF WordInv, OneOrder
    <2>7. WordInv'
        BY <1>1, <2>1, <2>2, <2>6 DEF WordInv
    <2> QED BY <2>1, <2>3, <2>4, <2>5, <2>7 DEF RecordInv
<1>8. CASE EndRequested
    <2>1. /\ up = "up" /\ activeId # 0 /\ barrier' = barrier \cup {activeId}
          /\ UNCHANGED <<up, stops, version, shape, rows, emitted, activeId, entries, counters, line, nextId, speech, lost>>
        BY <1>8 DEF EndRequested, memory
    <2>2. activeId \in Reported
        BY <1>1, <2>1, RecordBounds DEF TypeOK
    <2>3. TypeOK'
        BY <1>1, <2>1, <2>2 DEF TypeOK
    <2> QED BY <1>3, <2>1, <2>3
<1>9. CASE UNCHANGED recordVars
    <2>1. TypeOK'
        BY <1>1, <1>9 DEF TypeOK, recordVars
    <2> QED BY <1>3, <1>9, <2>1 DEF recordVars
<1>10. ASSUME NEW c \in Reported, Begins(c) \/ Answers(c) \/ Ends(c)
       PROVE  /\ RecordInv'
              /\ \A d \in Reported : rows[d].status = "ended" => rows'[d].status = "ended"
    BY <1>10, ReportKeeps
<1>11. ASSUME NEW r \in Roles, NEW final \in BOOLEAN, Heard(r, final)
       PROVE  /\ RecordInv'
              /\ \A d \in Reported : rows[d].status = "ended" => rows'[d].status = "ended"
    BY <1>11, HeardKeeps
<1> QED BY <1>4, <1>5, <1>6, <1>7, <1>8, <1>9, <1>10, <1>11 DEF Next

\* CallRecords keeps what is promised of it.
LEMMA RecordsSafe ==
  Init /\ [][Next]_recordVars => /\ [](TypeOK /\ OwnWordsAreKept /\ OneOrder /\ EndedOnce)
                                 /\ OverStaysOver
<1>1. Init => RecordInv
    <2> SUFFICES ASSUME Init PROVE RecordInv
        OBVIOUS
    <2>1. MaxReported \in Nat /\ MaxEntries \in Nat /\ MaxStops \in Nat
        BY RecordBounds
    <2>2. TypeOK
        BY <2>1 DEF Init, TypeOK, None, Latest
    <2>3. RowInv
        BY DEF Init, RowInv
    <2>4. NowInv
        BY DEF Init, NowInv
    <2>5. WordInv
        BY DEF Init, WordInv, OneOrder, None
    <2> QED BY <2>2, <2>3, <2>4, <2>5 DEF RecordInv
<1>2. RecordInv => TypeOK /\ OwnWordsAreKept /\ OneOrder /\ EndedOnce
    <2> SUFFICES ASSUME RecordInv PROVE TypeOK /\ OwnWordsAreKept /\ OneOrder /\ EndedOnce
        OBVIOUS
    <2>1. \A c \in Reported : rows[c].ends \in 0..1 /\ emitted[c] \in 0..1
        BY DEF RecordInv, TypeOK
    <2>2. EndedOnce
        BY <2>1 DEF RecordInv, RowInv, EndedOnce
    <2> QED BY <2>2 DEF RecordInv, NowInv, WordInv, OwnWordsAreKept
<1>3. RecordInv /\ [Next]_recordVars
        => [\A c \in Reported : rows[c].status = "ended" => rows'[c].status = "ended"]_recordVars
    BY RecordStep
<1> QED BY <1>1, <1>2, <1>3, RecordStep, PTL DEF OverStaysOver

-----------------------------------------------------------------------------
(* The requests *)

RequestType == [route : Api!Routes \cup {"none"}, state : {"idle", "reading", "waiting", "answered", "gone"},
                life : 0..MaxStarts, answer : {"none", "done", "failed", "denied", "refused"}, audits : 0..1]

\* A request that is going on is one of this life, and has no answer yet.
RequestInv ==
  /\ aRunning \/ (aLife < MaxStarts /\ \A k \in Api!Keyed : aCache[k] = 0)
  /\ \A r \in Api!Requests :
       /\ aReqs[r].life <= aLife
       /\ aReqs[r].state \in {"reading", "waiting"} =>
            aRunning /\ aReqs[r].life = aLife /\ aReqs[r].audits = 0
       /\ aReqs[r].state = "waiting" => aReqs[r].route = "wait"
       /\ aReqs[r].state # "answered" => aReqs[r].answer = "none"

\* A key that is remembered was dispatched once, and that request is answered;
\* of one that is not, nobody was told that it is done.
KeyInv == \A k \in Api!Keyed :
  /\ aRuns[k] = IF aCache[k] = 0 THEN 0 ELSE 1
  /\ aCache[k] # 0 => aReqs[aCache[k]].state = "answered" /\ aReqs[aCache[k]].route = k
  /\ \A r \in Api!Requests :
       aRunning /\ aReqs[r].route = k /\ aReqs[r].life = aLife /\ aReqs[r].answer = "done" =>
         aCache[k] # 0 /\ aReqs[aCache[k]].answer = "done"

\* An approval that was not decided on has nobody who was told they did.
ApprovalInv ==
  /\ aRunning /\ aApproval # "settled" =>
       \A r \in Api!Requests : aReqs[r].route = "decide" /\ aReqs[r].life = aLife => aReqs[r].answer # "done"
  /\ Api!OneDecision

ApiInv == Api!TypeOK /\ RequestInv /\ KeyInv /\ Api!OneTaskPerKey /\ ApprovalInv

\* The request r is as it was, or, if it was not over, is not answered with
\* done: it has come, waits, or went with the application.
Calm(r) ==
  /\ aReqs[r].state \in {"answered", "gone"} => aReqs'[r] = aReqs[r]
  /\ aReqs'[r].answer = "done" => aReqs'[r] = aReqs[r]

\* The request r, which was going on, is answered; all others are as they were.
Gets(r, what) ==
  /\ aReqs[r].state \in {"reading", "waiting"} /\ aReqs' \in [Api!Requests -> RequestType]
  /\ aReqs'[r].route = aReqs[r].route /\ aReqs'[r].life = aReqs[r].life
  /\ aReqs'[r].state = "answered" /\ aReqs'[r].answer = what
  /\ \A q \in Api!Requests : q # r => aReqs'[q] = aReqs[q]
  /\ UNCHANGED <<aLife, aRunning, aScoped, aToken>>

\* The bounds, and the names of requests.
LEMMA RequestBounds ==
  /\ MaxRequests \in Nat /\ MaxStarts \in Nat \ {0}
  /\ \A r \in Api!Requests : r # 0 /\ r \in 0..MaxRequests
  /\ \A r \in 0..MaxRequests : r # 0 => r \in Api!Requests
<1>1. MaxRequests \in Nat /\ MaxStarts \in Nat \ {0}
    BY HostAssumption
<1> QED BY <1>1 DEF Api!Requests

\* The types, one by one.
LEMMA Typed ==
  ASSUME Api!TypeOK
  PROVE  /\ aReqs \in [Api!Requests -> RequestType] /\ aCache \in [Api!Keyed -> 0..MaxRequests]
         /\ aRuns \in [Api!Keyed -> Nat] /\ aLife \in 1..MaxStarts /\ aRunning \in BOOLEAN
         /\ aTasks \in Nat /\ aSpare \in BOOLEAN /\ aApproval \in {"none", "pending", "settled"}
         /\ \A r \in Api!Requests : aReqs[r] \in RequestType
BY DEF Api!TypeOK, RequestType

\* Told, of a request that was going on, is such an answer.
LEMMA ToldGets ==
  ASSUME ApiInv, NEW r \in Api!Requests, NEW what \in {"none", "done", "failed", "denied", "refused"},
         NEW n \in {0, 1}, aReqs[r].state \in {"reading", "waiting"},
         UNCHANGED <<aLife, aRunning, aScoped, aToken>>, aReqs' = Api!Told(r, what, n)
  PROVE  Gets(r, what)
<1>1. aReqs \in [Api!Requests -> RequestType] /\ aReqs[r] \in RequestType /\ aReqs[r].audits = 0
    BY Typed DEF ApiInv, RequestInv
<1> DEFINE row == [route |-> aReqs[r].route, state |-> "answered", life |-> aReqs[r].life,
                   answer |-> what, audits |-> n]
<1>2. aReqs' = [aReqs EXCEPT ![r] = row]
    <2>1. aReqs[r].audits + n = n
        BY <1>1
    <2> QED BY <2>1 DEF Api!Told
<1>3. row \in RequestType /\ row.route = aReqs[r].route /\ row.life = aReqs[r].life
      /\ row.state = "answered" /\ row.answer = what
    BY <1>1 DEF RequestType
<1> HIDE DEF row
<1>4. aReqs'[r] = row /\ aReqs' \in [Api!Requests -> RequestType]
      /\ \A q \in Api!Requests : q # r => aReqs'[q] = aReqs[q]
    BY <1>1, <1>2, <1>3
<1> QED BY <1>3, <1>4 DEF Gets

\* So is the answer that is audited.
LEMMA AnsweredGets ==
  ASSUME ApiInv, NEW r \in Api!Requests, NEW what \in {"none", "done", "failed", "denied", "refused"},
         aReqs[r].state \in {"reading", "waiting"}, UNCHANGED <<aLife, aRunning, aScoped, aToken>>,
         aReqs' = Api!Answered(r, what)
  PROVE  Gets(r, what)
BY ToldGets DEF Api!Answered

\* What an answer is to the types and to RequestInv, the rest being typed.
LEMMA GetsKeeps ==
  ASSUME ApiInv, NEW r \in Api!Requests, NEW what, Gets(r, what),
         aCache' \in [Api!Keyed -> 0..MaxRequests], aRuns' \in [Api!Keyed -> Nat],
         aTasks' \in Nat, aSpare' \in BOOLEAN, aApproval' \in {"none", "pending", "settled"}
  PROVE  Api!TypeOK' /\ RequestInv'
<1>1. aRunning /\ aReqs[r].life = aLife
    BY DEF Gets, ApiInv, RequestInv
<1>2. Api!TypeOK'
    BY DEF Gets, ApiInv, Api!TypeOK, RequestType
<1>3. ASSUME NEW q \in Api!Requests
      PROVE  /\ aReqs'[q].life <= aLife'
             /\ aReqs'[q].state \in {"reading", "waiting"} =>
                  aRunning' /\ aReqs'[q].life = aLife' /\ aReqs'[q].audits = 0
             /\ aReqs'[q].state = "waiting" => aReqs'[q].route = "wait"
             /\ aReqs'[q].state # "answered" => aReqs'[q].answer = "none"
    <2>1. CASE q = r
        BY <2>1 DEF Gets, ApiInv, RequestInv
    <2>2. CASE q # r
        BY <2>2 DEF Gets, ApiInv, RequestInv
    <2> QED BY <2>1, <2>2
<1> QED BY <1>1, <1>2, <1>3 DEF Gets, RequestInv

\* A step in which nobody is told that anything is done.
LEMMA CalmKeeps ==
  ASSUME ApiInv, Api!TypeOK', RequestInv', \A r \in Api!Requests : Calm(r),
         UNCHANGED <<aCache, aRuns, aTasks, aSpare, aRunning, aLife>>,
         aApproval' # aApproval => aApproval \in {"none", "pending"}
  PROVE  ApiInv'
<1>1. KeyInv /\ ApprovalInv /\ Api!OneTaskPerKey /\ Api!OneDecision
    BY DEF ApiInv, ApprovalInv
<1>2. aCache \in [Api!Keyed -> 0..MaxRequests]
    BY Typed DEF ApiInv
<1>3. \A r \in Api!Requests :
        /\ aReqs[r].state \in {"answered", "gone"} => aReqs'[r] = aReqs[r]
        /\ aReqs'[r].answer = "done" => aReqs'[r] = aReqs[r]
    BY DEF Calm
<1>4. KeyInv'
    <2>1. \A k \in Api!Keyed : aCache[k] # 0 => aReqs'[aCache[k]] = aReqs[aCache[k]]
        BY <1>1, <1>2, <1>3, RequestBounds DEF KeyInv
    <2> QED BY <1>1, <1>3, <2>1 DEF KeyInv
<1>5. Api!OneTaskPerKey'
    <2>1. ASSUME aSpare PROVE \E r \in Api!Requests :
            /\ aReqs'[r].route \in {"tasks", "submit"}
            /\ (aReqs'[r].answer = "failed" \/ aReqs'[r].state = "gone")
        <3>1. PICK r \in Api!Requests : /\ aReqs[r].route \in {"tasks", "submit"}
                                        /\ (aReqs[r].answer = "failed" \/ aReqs[r].state = "gone")
            BY <1>1, <2>1 DEF Api!OneTaskPerKey
        <3>2. aReqs[r].state \in {"answered", "gone"}
            BY <3>1 DEF ApiInv, RequestInv
        <3> QED BY <1>3, <3>1, <3>2
    <2> QED BY <1>1, <1>3, <2>1 DEF Api!OneTaskPerKey
<1>6. ApprovalInv'
    <2>1. Api!OneDecision'
        BY <1>1, <1>3 DEF Api!OneDecision
    <2>2. ASSUME aRunning', aApproval' # "settled", NEW r \in Api!Requests, aReqs'[r].route = "decide",
                 aReqs'[r].life = aLife'
          PROVE  aReqs'[r].answer # "done"
        BY <1>1, <1>3, <2>2 DEF ApprovalInv
    <2> QED BY <2>1, <2>2 DEF ApprovalInv
<1> QED BY <1>4, <1>5, <1>6 DEF ApiInv

\* An answer and the keys, the table of keys being as it was.
LEMMA GetsKeepsKeys ==
  ASSUME ApiInv, NEW r \in Api!Requests, NEW what, Gets(r, what), UNCHANGED <<aCache, aRuns>>,
         (aReqs[r].route \in Api!Keyed /\ what = "done") =>
           aCache[aReqs[r].route] # 0 /\ aReqs[aCache[aReqs[r].route]].answer = "done"
  PROVE  KeyInv'
<1>1. KeyInv /\ aCache \in [Api!Keyed -> 0..MaxRequests]
    BY Typed DEF ApiInv
<1>2. \A k \in Api!Keyed : aCache[k] # 0 => aReqs'[aCache[k]] = aReqs[aCache[k]]
    BY <1>1, RequestBounds DEF KeyInv, Gets
<1>3. ASSUME NEW k \in Api!Keyed, NEW q \in Api!Requests, aRunning', aReqs'[q].route = k,
             aReqs'[q].life = aLife', aReqs'[q].answer = "done"
      PROVE  aCache'[k] # 0 /\ aReqs'[aCache'[k]].answer = "done"
    <2>1. CASE q = r
        BY <1>2, <1>3, <2>1 DEF Gets
    <2>2. CASE q # r
        BY <1>1, <1>2, <1>3, <2>2 DEF Gets, KeyInv
    <2> QED BY <2>1, <2>2
<1>4. ASSUME NEW k \in Api!Keyed
      PROVE  /\ aRuns'[k] = IF aCache'[k] = 0 THEN 0 ELSE 1
             /\ aCache'[k] # 0 => aReqs'[aCache'[k]].state = "answered" /\ aReqs'[aCache'[k]].route = k
    BY <1>1, <1>2 DEF KeyInv
<1> QED BY <1>3, <1>4 DEF KeyInv

\* An answer and the task of the key.
LEMMA GetsKeepsTask ==
  ASSUME ApiInv, NEW r \in Api!Requests, NEW what, Gets(r, what), aTasks' \in {aTasks, 1},
         (aReqs[r].route \in {"tasks", "submit"} /\ what = "done") => aTasks' = 1,
         aSpare' => aSpare \/ (aReqs[r].route \in {"tasks", "submit"} /\ what = "failed")
  PROVE  Api!OneTaskPerKey'
<1>1. Api!OneTaskPerKey /\ aTasks \in Nat
    BY Typed DEF ApiInv
<1>2. aTasks' <= 1
    BY <1>1 DEF Api!OneTaskPerKey
<1>3. ASSUME aSpare'
      PROVE  \E q \in Api!Requests : /\ aReqs'[q].route \in {"tasks", "submit"}
                                     /\ (aReqs'[q].answer = "failed" \/ aReqs'[q].state = "gone")
    <2>1. CASE aSpare
        <3>1. PICK q \in Api!Requests : /\ aReqs[q].route \in {"tasks", "submit"}
                                        /\ (aReqs[q].answer = "failed" \/ aReqs[q].state = "gone")
            BY <1>1, <2>1 DEF Api!OneTaskPerKey
        <3>2. q # r
            BY <3>1 DEF Gets, ApiInv, RequestInv
        <3> QED BY <3>1, <3>2 DEF Gets
    <2>2. CASE ~aSpare
        BY <1>3, <2>2 DEF Gets
    <2> QED BY <2>1, <2>2
<1>4. ASSUME NEW q \in Api!Requests, aReqs'[q].route \in {"tasks", "submit"}, aReqs'[q].answer = "done"
      PROVE  aTasks' = 1
    <2>1. CASE q = r
        BY <1>4, <2>1 DEF Gets
    <2>2. CASE q # r
        BY <1>1, <1>4, <2>2 DEF Gets, Api!OneTaskPerKey
    <2> QED BY <2>1, <2>2
<1> QED BY <1>2, <1>3, <1>4 DEF Api!OneTaskPerKey

\* An answer and the approval.
LEMMA GetsKeepsApproval ==
  ASSUME ApiInv, NEW r \in Api!Requests, NEW what, Gets(r, what),
         aApproval' # "settled" => aApproval # "settled",
         (aReqs[r].route = "decide" /\ what = "done") => aApproval # "settled" /\ aApproval' = "settled"
  PROVE  ApprovalInv'
<1>1. ApprovalInv /\ aRunning /\ aReqs[r].life = aLife
    BY DEF ApiInv, Gets, RequestInv
<1>2. ASSUME NEW q \in Api!Requests, aReqs'[q].route = "decide", aReqs'[q].answer = "done",
             q # r, aReqs'[r].route = "decide", aReqs'[r].answer = "done"
      PROVE  aReqs'[q].life # aReqs'[r].life
    BY <1>1, <1>2 DEF Gets, ApprovalInv
<1>3. Api!OneDecision'
    <2> SUFFICES ASSUME NEW p \in Api!Requests, NEW q \in Api!Requests, p # q,
                        aReqs'[p].route = "decide", aReqs'[q].route = "decide",
                        aReqs'[p].answer = "done", aReqs'[q].answer = "done",
                        aReqs'[p].life = aReqs'[q].life
                 PROVE  FALSE
        BY DEF Api!OneDecision
    <2>1. CASE p = r
        BY <1>2, <2>1
    <2>2. CASE q = r
        BY <1>2, <2>2
    <2>3. CASE p # r /\ q # r
        BY <1>1, <2>3 DEF Gets, ApprovalInv, Api!OneDecision
    <2> QED BY <2>1, <2>2, <2>3
<1>4. ASSUME aApproval' # "settled", NEW q \in Api!Requests, aReqs'[q].route = "decide",
             aReqs'[q].life = aLife'
      PROVE  aReqs'[q].answer # "done"
    <2>1. CASE q = r
        BY <1>4, <2>1 DEF Gets
    <2>2. CASE q # r
        BY <1>1, <1>4, <2>2 DEF Gets, ApprovalInv
    <2> QED BY <2>1, <2>2
<1> QED BY <1>3, <1>4 DEF ApprovalInv

\* A submission makes the task there is, or fails, and what fails may leave a campaign.
LEMMA SubmittedIs ==
  ASSUME ApiInv, NEW what \in {"done", "failed"}, Api!Submitted(what)
  PROVE  /\ aTasks' \in {aTasks, 1} /\ aTasks' \in Nat /\ aSpare' \in BOOLEAN
         /\ what = "done" => aTasks' = 1
         /\ aSpare' => aSpare \/ what = "failed"
<1>1. aTasks \in {0, 1} /\ aTasks \in Nat /\ aSpare \in BOOLEAN
    BY Typed DEF ApiInv, Api!OneTaskPerKey
<1>2. \/ what = "failed" /\ aTasks' = aTasks /\ aSpare' = aSpare
      \/ what = "done" /\ aTasks # 0 /\ aTasks' = aTasks /\ aSpare' = aSpare
      \/ what = "failed" /\ aTasks' = aTasks /\ aSpare' = TRUE
      \/ what = "done" /\ aTasks = 0 /\ aTasks' = aTasks + 1 /\ aSpare' = aSpare
    BY <1>1 DEF Api!Submitted, Api!ContactRefused, Api!Normalized, Api!Created, Api!stored
<1>3. aTasks' \in {0, 1} /\ aTasks' \in {aTasks, 1} /\ (what = "done" => aTasks' = 1)
    <2>1. CASE aTasks' = aTasks /\ (what = "done" => aTasks # 0)
        BY <1>1, <2>1
    <2>2. CASE aTasks = 0 /\ aTasks' = aTasks + 1
        <3>1. aTasks' = 1
            BY <2>2
        <3> QED BY <3>1
    <2>3. what = "failed" => what # "done"
        OBVIOUS
    <2> QED BY <1>2, <2>1, <2>2, <2>3
<1>4. aTasks' \in Nat
    BY <1>3
<1>5. aSpare' \in BOOLEAN /\ (aSpare' => aSpare \/ what = "failed")
    <2>1. what = "failed" \/ aSpare' = aSpare
        BY <1>2, Zenon
    <2>2. aSpare' = aSpare \/ aSpare' = TRUE
        BY <1>2, Zenon
    <2>3. CASE aSpare' = aSpare
        BY <1>1, <2>3, Zenon
    <2>4. CASE aSpare' = TRUE
        <3>1. what = "failed" \/ aSpare
            BY <2>1, <2>4, Zenon
        <3>2. aSpare' \in BOOLEAN
            BY <2>4
        <3> QED BY <3>1, <3>2, Zenon
    <2> QED BY <2>2, <2>3, <2>4, Zenon
<1> QED BY <1>3, <1>4, <1>5

\* The application stops, or is started.
LEMMA LivesKeep == ASSUME ApiInv, Api!Halt \/ Api!Launch PROVE ApiInv'
<1>1. Api!TypeOK /\ RequestInv /\ KeyInv /\ Api!OneTaskPerKey /\ ApprovalInv /\ Api!OneDecision
    BY DEF ApiInv, ApprovalInv
<1>2. /\ aReqs \in [Api!Requests -> RequestType] /\ aCache \in [Api!Keyed -> 0..MaxRequests]
      /\ aLife \in 1..MaxStarts /\ aTasks \in Nat /\ aSpare \in BOOLEAN
      /\ MaxRequests \in Nat /\ MaxStarts \in Nat
    BY <1>1, Typed, RequestBounds
<1>3. CASE Api!Halt
    <2> DEFINE row(r) == IF aReqs[r].state \in {"reading", "waiting"}
                         THEN [aReqs[r] EXCEPT !.state = "gone"] ELSE aReqs[r]
    <2>1. /\ aRunning /\ aLife < MaxStarts /\ aRunning' = FALSE /\ aReqs' = [r \in Api!Requests |-> row(r)]
          /\ aCache' = [k \in Api!Keyed |-> 0] /\ aRuns' = [k \in Api!Keyed |-> 0] /\ aApproval' = "none"
          /\ UNCHANGED <<aLife, aScoped, aToken>>
        BY <1>3 DEF Api!Halt
    <2>2. ASSUME NEW r \in Api!Requests
          PROVE  /\ row(r) \in RequestType /\ row(r).route = aReqs[r].route /\ row(r).life = aReqs[r].life
                 /\ row(r).state \notin {"reading", "waiting"} /\ row(r).answer = aReqs[r].answer
                 /\ aReqs[r].state \in {"reading", "waiting"} => row(r).state = "gone" /\ row(r).answer = "none"
                 /\ aReqs[r].state \notin {"reading", "waiting"} => row(r) = aReqs[r]
        BY <1>1, <1>2 DEF RequestType, RequestInv
    <2> HIDE DEF row
    <2>3. aReqs' \in [Api!Requests -> RequestType] /\ \A r \in Api!Requests : aReqs'[r] = row(r)
        BY <2>1, <2>2
    <2>4. /\ aTasks' \in {aTasks, 1} /\ aTasks' \in Nat /\ aSpare' \in BOOLEAN /\ (aTasks' = aTasks \/ aTasks = 0)
          /\ aSpare' => aSpare \/ \E r \in Api!Requests :
               aReqs[r].state = "reading" /\ aReqs[r].route \in {"tasks", "submit"}
        <3>1. \/ aTasks' = aTasks /\ aSpare' = aSpare
              \/ /\ aTasks = 0 /\ \E r \in Api!Requests : Api!Reading(r, {"tasks", "submit"})
                 /\ \/ aSpare' = TRUE /\ aTasks' = aTasks
                    \/ aTasks' = 1 /\ aSpare' = aSpare
            BY <1>3 DEF Api!Halt, Api!stored
        <3>2. CASE aTasks' = aTasks /\ aSpare' = aSpare
            BY <1>2, <3>2
        <3>3. CASE /\ aTasks = 0 /\ \E r \in Api!Requests : Api!Reading(r, {"tasks", "submit"})
                   /\ \/ aSpare' = TRUE /\ aTasks' = aTasks
                      \/ aTasks' = 1 /\ aSpare' = aSpare
            <4>1. \E r \in Api!Requests : aReqs[r].state = "reading" /\ aReqs[r].route \in {"tasks", "submit"}
                BY <3>3 DEF Api!Reading
            <4>2. CASE aSpare' = TRUE /\ aTasks' = aTasks
                <5>1. aTasks' \in {aTasks, 1} /\ aTasks' \in Nat
                    BY <1>2, <4>2
                <5>2. aSpare' \in BOOLEAN
                    BY <4>2
                <5> QED BY <3>3, <4>1, <5>1, <5>2
            <4>3. CASE aTasks' = 1 /\ aSpare' = aSpare
                <5>1. aTasks' \in {aTasks, 1} /\ aTasks' \in Nat
                    BY <4>3
                <5>2. aSpare' \in BOOLEAN
                    BY <1>2, <4>3
                <5> QED BY <3>3, <4>1, <5>1, <5>2
            <4> QED BY <3>3, <4>2, <4>3
        <3> QED BY <3>1, <3>2, <3>3
    <2>5. Api!TypeOK'
        <3>4. aLife' \in 1..MaxStarts /\ {aScoped', aToken'} \subseteq BOOLEAN
            BY <1>1, <2>1 DEF Api!TypeOK
        <3>5. aRunning' \in BOOLEAN /\ aApproval' \in {"none", "pending", "settled"}
            BY <2>1
        <3>1. aCache' \in [Api!Keyed -> 0..MaxRequests] /\ aRuns' \in [Api!Keyed -> Nat]
            BY <1>2, <2>1
        <3>2. aReqs' \in [Api!Requests -> RequestType]
            BY <2>3
        <3>3. aLife' \in 1..MaxStarts /\ {aRunning', aScoped', aToken'} \subseteq BOOLEAN
              /\ aApproval' \in {"none", "pending", "settled"}
            BY <3>4, <3>5
        <3> QED BY <2>4, <3>1, <3>2, <3>3 DEF Api!TypeOK, RequestType
    <2>6. RequestInv'
        BY <1>1, <2>1, <2>2, <2>3 DEF RequestInv
    <2>7. KeyInv'
        BY <2>1 DEF KeyInv
    <2>8. Api!OneTaskPerKey'
        <3>1. ASSUME aSpare'
              PROVE  \E q \in Api!Requests : /\ aReqs'[q].route \in {"tasks", "submit"}
                                             /\ (aReqs'[q].answer = "failed" \/ aReqs'[q].state = "gone")
            <4>1. CASE aSpare
                BY <1>1, <2>2, <2>3, <4>1 DEF Api!OneTaskPerKey
            <4>2. CASE ~aSpare
                BY <2>2, <2>3, <2>4, <3>1, <4>2
            <4> QED BY <4>1, <4>2
        <3>2. aTasks' <= 1
            BY <1>1, <2>4 DEF Api!OneTaskPerKey
        <3>3. \A r \in Api!Requests :
                aReqs'[r].route \in {"tasks", "submit"} /\ aReqs'[r].answer = "done" => aTasks' = 1
            BY <1>1, <2>2, <2>3, <2>4 DEF Api!OneTaskPerKey
        <3> QED BY <3>1, <3>2, <3>3 DEF Api!OneTaskPerKey
    <2>9. Api!OneDecision'
        BY <1>1, <2>2, <2>3 DEF Api!OneDecision
    <2> QED BY <2>1, <2>5, <2>6, <2>7, <2>8, <2>9 DEF ApiInv, ApprovalInv
<1>4. CASE Api!Launch
    <2>1. /\ ~aRunning /\ aRunning' /\ aLife' = aLife + 1
          /\ UNCHANGED <<aScoped, aToken, aReqs, aCache, aRuns, aTasks, aSpare, aApproval>>
        BY <1>4 DEF Api!Launch, Api!stored
    <2>2. aLife < MaxStarts /\ \A k \in Api!Keyed : aCache[k] = 0
        BY <1>1, <2>1 DEF RequestInv
    <2>3. aLife' \in 1..MaxStarts /\ aRunning' \in BOOLEAN
        BY <1>1, <1>2, <1>4, <2>1, <2>2 DEF Api!Launch
    <2>4. \A r \in Api!Requests : aReqs[r].life <= aLife /\ aReqs[r].life \in Nat
        BY <1>1, <1>2 DEF RequestInv, RequestType
    <2>5. \A r \in Api!Requests : aReqs[r].life < aLife'
        BY <1>2, <2>1, <2>4
    <2>6. Api!TypeOK'
        BY <1>1, <2>1, <2>3 DEF Api!TypeOK
    <2>7. RequestInv'
        <3>1. \A r \in Api!Requests : aReqs[r].life <= aLife' /\ aReqs[r].state \notin {"reading", "waiting"}
            BY <1>1, <1>2, <2>1, <2>4 DEF RequestInv
        <3> QED BY <1>1, <2>1, <3>1 DEF RequestInv
    <2>8. KeyInv'
        BY <1>1, <1>2, <2>1, <2>2, <2>4, <2>5 DEF KeyInv
    <2>9. ApprovalInv'
        <3>1. Api!OneDecision'
            BY <1>1, <2>1 DEF Api!OneDecision
        <3>2. \A r \in Api!Requests : aReqs'[r].life # aLife'
            BY <1>2, <2>1, <2>4, <2>5
        <3> QED BY <3>1, <3>2 DEF ApprovalInv
    <2>10. Api!OneTaskPerKey'
        BY <1>1, <2>1 DEF Api!OneTaskPerKey
    <2> QED BY <2>6, <2>7, <2>8, <2>9, <2>10 DEF ApiInv
<1> QED BY <1>3, <1>4

\* A request comes, or waits.
LEMMA ComesKeep ==
  ASSUME ApiInv, NEW r \in Api!Requests,
         (\E route \in Api!Routes : Api!Arrive(r, route)) \/ Api!Waits(r)
  PROVE  ApiInv'
<1>1. Api!TypeOK /\ RequestInv
    BY DEF ApiInv
<1>2. /\ aReqs \in [Api!Requests -> RequestType] /\ aReqs[r] \in RequestType
      /\ aLife \in 1..MaxStarts /\ MaxStarts \in Nat
    BY <1>1, Typed, RequestBounds
<1>3. PICK row \in RequestType :
        /\ aReqs' = [aReqs EXCEPT ![r] = row] /\ aRunning /\ aReqs[r].state \in {"idle", "reading"}
        /\ row.life = aLife /\ row.answer \in {"none", "refused"}
        /\ row.state \in {"reading", "waiting"} => row.audits = 0
        /\ row.state = "waiting" => row.route = "wait"
        /\ row.state # "answered" => row.answer = "none"
        /\ UNCHANGED <<aLife, aRunning, aScoped, aToken, aCache, aRuns, aTasks, aSpare, aApproval>>
    <2>1. ASSUME NEW route \in Api!Routes, Api!Arrive(r, route)
          PROVE  \E row \in RequestType :
                   /\ aReqs' = [aReqs EXCEPT ![r] = row] /\ aRunning /\ aReqs[r].state \in {"idle", "reading"}
                   /\ row.life = aLife /\ row.answer \in {"none", "refused"}
                   /\ row.state \in {"reading", "waiting"} => row.audits = 0
                   /\ row.state = "waiting" => row.route = "wait"
                   /\ row.state # "answered" => row.answer = "none"
                   /\ UNCHANGED <<aLife, aRunning, aScoped, aToken, aCache, aRuns, aTasks, aSpare, aApproval>>
        <3> DEFINE come == [route |-> route, state |-> "reading", life |-> aLife, answer |-> "none", audits |-> 0]
                   refused == [route |-> route, state |-> "answered", life |-> aLife, answer |-> "refused",
                               audits |-> IF route = "submit" THEN 0 ELSE 1]
        <3>1. come \in RequestType /\ refused \in RequestType
            BY <1>2 DEF RequestType
        <3>2. /\ aRunning /\ aReqs[r].state = "idle"
              /\ UNCHANGED <<aLife, aRunning, aScoped, aToken, aCache, aRuns, aTasks, aSpare, aApproval>>
            BY <2>1 DEF Api!Arrive, Api!machine, Api!stored
        <3>5. aReqs' = [aReqs EXCEPT ![r] =
                [route |-> route, life |-> aLife,
                 state |-> IF aToken THEN "reading" ELSE "answered",
                 answer |-> IF aToken THEN "none" ELSE "refused",
                 audits |-> IF aToken \/ route = "submit" THEN 0 ELSE 1]]
            BY <2>1 DEF Api!Arrive
        <3>3. CASE aToken
            <4>1. aReqs' = [aReqs EXCEPT ![r] = come]
                BY <3>3, <3>5
            <4> QED BY <3>1, <3>2, <4>1
        <3>4. CASE ~aToken
            <4>1. aReqs' = [aReqs EXCEPT ![r] = refused]
                BY <3>4, <3>5
            <4> QED BY <3>1, <3>2, <4>1
        <3> QED BY <3>3, <3>4
    <2>2. ASSUME Api!Waits(r)
          PROVE  \E row \in RequestType :
                   /\ aReqs' = [aReqs EXCEPT ![r] = row] /\ aRunning /\ aReqs[r].state \in {"idle", "reading"}
                   /\ row.life = aLife /\ row.answer \in {"none", "refused"}
                   /\ row.state \in {"reading", "waiting"} => row.audits = 0
                   /\ row.state = "waiting" => row.route = "wait"
                   /\ row.state # "answered" => row.answer = "none"
                   /\ UNCHANGED <<aLife, aRunning, aScoped, aToken, aCache, aRuns, aTasks, aSpare, aApproval>>
        <3> DEFINE held == [aReqs[r] EXCEPT !.state = "waiting"]
        <3>1. /\ aRunning /\ aReqs[r].state = "reading" /\ aReqs[r].route = "wait"
              /\ aReqs' = [aReqs EXCEPT ![r] = held]
              /\ UNCHANGED <<aLife, aRunning, aScoped, aToken, aCache, aRuns, aTasks, aSpare, aApproval>>
            BY <2>2 DEF Api!Waits, Api!Reading, Api!machine, Api!stored
        <3>2. aReqs[r].life = aLife /\ aReqs[r].audits = 0 /\ aReqs[r].answer = "none"
            BY <1>1, <3>1 DEF RequestInv
        <3>3. /\ held \in RequestType /\ held.state = "waiting" /\ held.route = "wait" /\ held.life = aLife
              /\ held.audits = 0 /\ held.answer = "none"
            BY <1>2, <3>1, <3>2 DEF RequestType
        <3> HIDE DEF held
        <3> QED BY <3>1, <3>3
    <2> QED BY <2>1, <2>2
<1>4. /\ aReqs' \in [Api!Requests -> RequestType] /\ aReqs'[r] = row
      /\ \A q \in Api!Requests : q # r => aReqs'[q] = aReqs[q]
    BY <1>2, <1>3
<1>5. Api!TypeOK'
    BY <1>1, <1>3, <1>4 DEF Api!TypeOK, RequestType
<1>6. RequestInv'
    <2>1. ASSUME NEW q \in Api!Requests
          PROVE  /\ aReqs'[q].life <= aLife'
                 /\ aReqs'[q].state \in {"reading", "waiting"} =>
                      aRunning' /\ aReqs'[q].life = aLife' /\ aReqs'[q].audits = 0
                 /\ aReqs'[q].state = "waiting" => aReqs'[q].route = "wait"
                 /\ aReqs'[q].state # "answered" => aReqs'[q].answer = "none"
        <3>1. CASE q = r
            BY <1>2, <1>3, <1>4, <3>1
        <3>2. CASE q # r
            BY <1>1, <1>3, <1>4, <3>2 DEF RequestInv
        <3> QED BY <3>1, <3>2
    <2> QED BY <1>3, <2>1 DEF RequestInv
<1>7. \A q \in Api!Requests : Calm(q)
    BY <1>3, <1>4 DEF Calm
<1> QED BY <1>3, <1>5, <1>6, <1>7, CalmKeeps


\* A body that does not come.
LEMMA BodyFailsKeeps ==
  ASSUME ApiInv, NEW r \in Api!Requests, Api!BodyFails(r)
  PROVE  ApiInv'
<1>1. /\ aReqs \in [Api!Requests -> RequestType] /\ aReqs[r] \in RequestType /\ aReqs[r].audits = 0
      /\ aReqs[r].state = "reading" /\ aRunning
      /\ aCache \in [Api!Keyed -> 0..MaxRequests] /\ aRuns \in [Api!Keyed -> Nat]
      /\ aTasks \in Nat /\ aSpare \in BOOLEAN /\ aApproval \in {"none", "pending", "settled"}
    BY Typed DEF ApiInv, RequestInv, Api!BodyFails, Api!Reading
<1>2. UNCHANGED <<aLife, aRunning, aScoped, aToken, aCache, aRuns, aTasks, aSpare, aApproval>>
    BY DEF Api!BodyFails, Api!machine, Api!stored
<1>3. aReqs' = Api!Told(r, "failed", IF aReqs[r].route = "submit" THEN 0 ELSE 1)
    BY DEF Api!BodyFails
<1>4. (IF aReqs[r].route = "submit" THEN 0 ELSE 1) \in {0, 1}
    OBVIOUS
<1>5. Gets(r, "failed")
    BY <1>1, <1>2, <1>3, <1>4, ToldGets
<1>6. Api!TypeOK' /\ RequestInv'
    BY <1>1, <1>2, <1>5, GetsKeeps
<1>7. KeyInv'
    BY <1>2, <1>5, GetsKeepsKeys
<1>8. Api!OneTaskPerKey'
    BY <1>1, <1>2, <1>5, GetsKeepsTask
<1>9. ApprovalInv'
    BY <1>2, <1>5, GetsKeepsApproval
<1> QED BY <1>6, <1>7, <1>8, <1>9 DEF ApiInv

\* A key that was seen: what the first was told.
LEMMA ReplayedKeeps ==
  ASSUME ApiInv, NEW r \in Api!Requests, Api!Replayed(r)
  PROVE  ApiInv'
<1> DEFINE k == aReqs[r].route
           what == aReqs[aCache[k]].answer
<1>1. /\ k \in Api!Keyed /\ aCache[k] # 0 /\ aReqs[r].state = "reading" /\ aRunning
      /\ aReqs' = Api!Answered(r, what)
      /\ UNCHANGED <<aLife, aRunning, aScoped, aToken, aCache, aRuns, aTasks, aSpare, aApproval>>
    BY DEF Api!Replayed, Api!Reading, Api!machine, Api!stored
<1>2. /\ aCache \in [Api!Keyed -> 0..MaxRequests] /\ aRuns \in [Api!Keyed -> Nat]
      /\ aTasks \in Nat /\ aSpare \in BOOLEAN /\ aApproval \in {"none", "pending", "settled"}
    BY Typed DEF ApiInv
<1>3. aCache[k] \in Api!Requests /\ aReqs[aCache[k]].state = "answered"
    BY <1>1, <1>2, RequestBounds DEF ApiInv, KeyInv
<1>4. what \in {"none", "done", "failed", "denied", "refused"}
    BY <1>3, Typed DEF ApiInv, RequestType
<1>5. Gets(r, what)
    BY <1>1, <1>4, AnsweredGets
<1>6. Api!TypeOK' /\ RequestInv'
    BY <1>1, <1>2, <1>5, GetsKeeps
<1>7. KeyInv'
    BY <1>1, <1>5, GetsKeepsKeys
<1>8. Api!OneTaskPerKey'
    <2>1. k = "tasks" /\ what = "done" => aTasks' = 1
        BY <1>1, <1>3 DEF ApiInv, KeyInv, Api!OneTaskPerKey
    <2>2. k # "submit"
        BY <1>1 DEF Api!Keyed
    <2>3. aTasks' \in {aTasks, 1} /\ (aSpare' => aSpare)
        BY <1>1
    <2> HIDE DEF what
    <2> QED BY <1>5, <2>1, <2>2, <2>3, GetsKeepsTask
<1>9. ApprovalInv'
    <2>1. k # "decide"
        BY <1>1 DEF Api!Keyed
    <2> HIDE DEF what
    <2> QED BY <1>1, <1>5, <2>1, GetsKeepsApproval
<1> QED BY <1>6, <1>7, <1>8, <1>9 DEF ApiInv

\* The tool that submits.
LEMMA InvokedKeeps ==
  ASSUME ApiInv, NEW r \in Api!Requests, Api!Invoked(r)
  PROVE  ApiInv'
<1>1. /\ aReqs[r].state = "reading" /\ aReqs[r].route = "submit"
      /\ UNCHANGED <<aLife, aRunning, aScoped, aToken, aCache, aRuns, aApproval>>
    BY DEF Api!Invoked, Api!Reading, Api!machine
<1>2. /\ aCache \in [Api!Keyed -> 0..MaxRequests] /\ aRuns \in [Api!Keyed -> Nat]
      /\ aTasks \in Nat /\ aSpare \in BOOLEAN /\ aApproval \in {"none", "pending", "settled"}
    BY Typed DEF ApiInv
<1>3. PICK what \in {"done", "failed", "denied"} :
        /\ aReqs' = Api!Answered(r, what)
        /\ aTasks' \in {aTasks, 1} /\ aTasks' \in Nat /\ aSpare' \in BOOLEAN
        /\ what = "done" => aTasks' = 1
        /\ aSpare' => aSpare \/ what = "failed"
    <2>1. CASE aScoped
        <3>1. PICK what \in {"done", "failed"} : Api!Submitted(what) /\ aReqs' = Api!Answered(r, what)
            BY <2>1 DEF Api!Invoked
        <3> QED BY <3>1, SubmittedIs
    <2>2. CASE ~aScoped
        <3>1. aTasks' = aTasks /\ aSpare' = aSpare /\ aReqs' = Api!Answered(r, "denied")
            BY <2>2 DEF Api!Invoked, Api!stored
        <3>2. /\ aTasks' \in {aTasks, 1} /\ aTasks' \in Nat /\ aSpare' \in BOOLEAN
              /\ "denied" # "done" /\ (aSpare' => aSpare \/ "denied" = "failed")
            BY <1>2, <3>1
        <3> QED BY <3>1, <3>2
    <2> QED BY <2>1, <2>2
<1>4. Gets(r, what)
    BY <1>1, <1>3, AnsweredGets
<1>5. Api!TypeOK' /\ RequestInv'
    BY <1>1, <1>2, <1>3, <1>4, GetsKeeps
<1>6. KeyInv'
    <2>1. aReqs[r].route \notin Api!Keyed
        BY <1>1 DEF Api!Keyed
    <2> QED BY <1>1, <1>4, <2>1, GetsKeepsKeys
<1>7. Api!OneTaskPerKey'
    BY <1>1, <1>3, <1>4, GetsKeepsTask
<1>8. ApprovalInv'
    BY <1>1, <1>4, GetsKeepsApproval
<1> QED BY <1>5, <1>6, <1>7, <1>8 DEF ApiInv

\* A wait ends.
LEMMA WaitEndsKeeps ==
  ASSUME ApiInv, NEW r \in Api!Requests, Api!WaitEnds(r)
  PROVE  ApiInv'
<1>1. /\ aReqs[r].state = "waiting" /\ aReqs' = Api!Answered(r, "done")
      /\ UNCHANGED <<aLife, aRunning, aScoped, aToken, aCache, aRuns, aTasks, aSpare, aApproval>>
    BY DEF Api!WaitEnds, Api!machine, Api!stored
<1>2. aReqs[r].route = "wait" /\ "wait" \notin Api!Keyed
    BY <1>1 DEF ApiInv, RequestInv, Api!Keyed
<1>3. Gets(r, "done")
    BY <1>1, AnsweredGets
<1>4. Api!TypeOK' /\ RequestInv'
    BY <1>1, <1>3, Typed, GetsKeeps DEF ApiInv
<1>5. KeyInv'
    BY <1>1, <1>2, <1>3, GetsKeepsKeys
<1>6. Api!OneTaskPerKey'
    BY <1>1, <1>2, <1>3, GetsKeepsTask
<1>7. ApprovalInv'
    BY <1>1, <1>2, <1>3, GetsKeepsApproval
<1> QED BY <1>4, <1>5, <1>6, <1>7 DEF ApiInv

\* Somebody decides on the approval.
LEMMA DecidesKeeps ==
  ASSUME ApiInv, NEW r \in Api!Requests, Api!Decides(r)
  PROVE  ApiInv'
<1>1. /\ aReqs[r].state = "reading" /\ aReqs[r].route = "decide" /\ "decide" \notin Api!Keyed
      /\ UNCHANGED <<aLife, aRunning, aScoped, aToken, aCache, aRuns, aTasks, aSpare>>
    BY DEF Api!Decides, Api!Reading, Api!machine, Api!stored, Api!Keyed
<1>2. PICK what \in {"done", "failed"} :
        /\ aReqs' = Api!Answered(r, what)
        /\ what = "done" => aApproval = "pending" /\ aApproval' = "settled"
        /\ what = "failed" => aApproval' = aApproval
    BY DEF Api!Decides
<1>3. Gets(r, what)
    BY <1>1, <1>2, AnsweredGets
<1>4. aApproval \in {"none", "pending", "settled"} /\ aApproval' \in {"none", "pending", "settled"}
    BY <1>2, Typed DEF ApiInv
<1>5. Api!TypeOK' /\ RequestInv'
    BY <1>1, <1>3, <1>4, Typed, GetsKeeps DEF ApiInv
<1>6. KeyInv'
    BY <1>1, <1>3, GetsKeepsKeys
<1>7. Api!OneTaskPerKey'
    BY <1>1, <1>3, GetsKeepsTask
<1>8. ApprovalInv'
    BY <1>1, <1>2, <1>3, GetsKeepsApproval
<1> QED BY <1>5, <1>6, <1>7, <1>8 DEF ApiInv

\* A key that is new: it is remembered, and acted on.
LEMMA DispatchedKeeps ==
  ASSUME ApiInv, NEW r \in Api!Requests, NEW what \in {"done", "failed"}, Api!Dispatched(r, what)
  PROVE  ApiInv'
<1> DEFINE k == aReqs[r].route
<1>1. /\ k \in Api!Keyed /\ aCache[k] = 0 /\ aReqs[r].state = "reading" /\ aRunning
      /\ aCache' = [aCache EXCEPT ![k] = r] /\ aRuns' = [aRuns EXCEPT ![k] = @ + 1]
      /\ aReqs' = Api!Answered(r, what) /\ UNCHANGED <<aLife, aRunning, aScoped, aToken>>
      /\ aApproval' \in {aApproval, "pending"} /\ (aApproval' # aApproval => aApproval = "none")
    BY DEF Api!Dispatched, Api!Reading, Api!machine
<1>2. /\ aCache \in [Api!Keyed -> 0..MaxRequests] /\ aRuns \in [Api!Keyed -> Nat]
      /\ aTasks \in Nat /\ aSpare \in BOOLEAN /\ aApproval \in {"none", "pending", "settled"}
      /\ KeyInv
    BY Typed DEF ApiInv
<1>3. Gets(r, what)
    BY <1>1, AnsweredGets
<1>4. /\ aTasks' \in {aTasks, 1} /\ aTasks' \in Nat /\ aSpare' \in BOOLEAN
      /\ k = "tasks" /\ what = "done" => aTasks' = 1
      /\ aSpare' => aSpare \/ (k = "tasks" /\ what = "failed")
    <2>1. CASE k = "tasks"
        <3>1. Api!Submitted(what)
            BY <2>1 DEF Api!Dispatched
        <3> QED BY <2>1, <3>1, SubmittedIs
    <2>2. CASE k # "tasks"
        <3>1. aTasks' = aTasks /\ aSpare' = aSpare
            BY <2>2 DEF Api!Dispatched, Api!stored
        <3>2. aTasks' \in {aTasks, 1} /\ aTasks' \in Nat /\ aSpare' \in BOOLEAN
            BY <1>2, <3>1
        <3> QED BY <2>2, <3>1, <3>2
    <2> QED BY <2>1, <2>2
<1>5. Api!TypeOK' /\ RequestInv'
    <2>1. aCache' \in [Api!Keyed -> 0..MaxRequests] /\ aRuns' \in [Api!Keyed -> Nat]
        BY <1>1, <1>2, RequestBounds
    <2>2. aApproval' \in {"none", "pending", "settled"}
        BY <1>1, <1>2
    <2> QED BY <1>3, <1>4, <2>1, <2>2, GetsKeeps
<1>6. KeyInv'
    <2>1. r # 0 /\ \A q \in Api!Requests : q # r => aReqs'[q] = aReqs[q]
        BY <1>3, RequestBounds DEF Gets
    <2>2. /\ aReqs'[r].state = "answered" /\ aReqs'[r].route = k /\ aReqs'[r].answer = what
          /\ aReqs'[r].life = aReqs[r].life
        BY <1>3 DEF Gets
    <2>3. ASSUME NEW j \in Api!Keyed
          PROVE  /\ aRuns'[j] = IF aCache'[j] = 0 THEN 0 ELSE 1
                 /\ aCache'[j] # 0 => aReqs'[aCache'[j]].state = "answered" /\ aReqs'[aCache'[j]].route = j
                 /\ \A q \in Api!Requests :
                      aRunning' /\ aReqs'[q].route = j /\ aReqs'[q].life = aLife' /\ aReqs'[q].answer = "done" =>
                        aCache'[j] # 0 /\ aReqs'[aCache'[j]].answer = "done"
        <3>1. CASE j = k
            <4>1. aCache'[j] = r /\ aRuns'[j] = 1
                BY <1>1, <1>2, <3>1 DEF KeyInv
            <4>2. ASSUME NEW q \in Api!Requests, q # r, aRunning', aReqs'[q].route = j,
                         aReqs'[q].life = aLife', aReqs'[q].answer = "done"
                  PROVE  FALSE
                BY <1>1, <1>2, <2>1, <3>1, <4>2 DEF KeyInv
            <4> QED BY <2>1, <2>2, <3>1, <4>1, <4>2
        <3>2. CASE j # k
            <4>1. aCache'[j] = aCache[j] /\ aRuns'[j] = aRuns[j]
                BY <1>1, <1>2, <3>2
            <4>2. aCache[j] # 0 => aCache[j] \in Api!Requests /\ aCache[j] # r
                BY <1>1, <1>2, RequestBounds DEF KeyInv
            <4>3. ASSUME NEW q \in Api!Requests, aRunning', aReqs'[q].route = j,
                         aReqs'[q].life = aLife', aReqs'[q].answer = "done"
                  PROVE  aCache'[j] # 0 /\ aReqs'[aCache'[j]].answer = "done"
                BY <1>1, <1>2, <2>1, <2>2, <3>2, <4>1, <4>2, <4>3 DEF KeyInv
            <4> QED BY <1>2, <2>1, <4>1, <4>2, <4>3 DEF KeyInv
        <3> QED BY <3>1, <3>2
    <2> QED BY <2>3 DEF KeyInv
<1>7. Api!OneTaskPerKey'
    <2>1. k # "submit"
        BY <1>1 DEF Api!Keyed
    <2> QED BY <1>3, <1>4, <2>1, GetsKeepsTask
<1>8. ApprovalInv'
    <2>1. k # "decide"
        BY <1>1 DEF Api!Keyed
    <2>2. aApproval' # "settled" => aApproval # "settled"
        BY <1>1
    <2> QED BY <1>3, <2>1, <2>2, GetsKeepsApproval
<1> QED BY <1>5, <1>6, <1>7, <1>8 DEF ApiInv

\* Steps of the settings, the windows and the dial, and those that stutter.
LEMMA QuietKeeps ==
  ASSUME ApiInv,
         \/ Api!SetScopes \/ Api!RotateToken \/ Api!Asked \/ Api!WindowDecides \/ UNCHANGED Api!apiVars
  PROVE  ApiInv'
<1>1. /\ UNCHANGED <<aLife, aRunning, aReqs, aCache, aRuns, aTasks, aSpare>>
      /\ aApproval' # aApproval => aApproval \in {"none", "pending"}
    BY DEF Api!SetScopes, Api!RotateToken, Api!Asked, Api!WindowDecides, Api!apiVars, Api!machine,
       Api!stored
<1>2. aApproval' \in {aApproval, "pending", "settled"}
    BY DEF Api!SetScopes, Api!RotateToken, Api!Asked, Api!WindowDecides, Api!apiVars, Api!machine,
       Api!stored
<1>3. aScoped' \in BOOLEAN /\ aToken' \in BOOLEAN
    <2>1. aScoped \in BOOLEAN /\ aToken \in BOOLEAN
        BY DEF ApiInv, Api!TypeOK
    <2>2. aScoped' = aScoped \/ aScoped' = ~aScoped
        BY DEF Api!SetScopes, Api!RotateToken, Api!Asked, Api!WindowDecides, Api!apiVars,
           Api!machine
    <2>3. aToken' = aToken \/ aToken' = FALSE
        BY DEF Api!SetScopes, Api!RotateToken, Api!Asked, Api!WindowDecides, Api!apiVars,
           Api!machine
    <2> QED BY <2>1, <2>2, <2>3
<1>4. Api!TypeOK'
    BY <1>1, <1>2, <1>3 DEF ApiInv, Api!TypeOK
<1>5. RequestInv' /\ \A r \in Api!Requests : Calm(r)
    BY <1>1 DEF ApiInv, RequestInv, Calm
<1> QED BY <1>1, <1>4, <1>5, CalmKeeps

\* Every step of the requests keeps the invariant.
LEMMA ApiStep == ASSUME ApiInv, [Api!Next]_(Api!apiVars) PROVE ApiInv'
<1>1. CASE Api!Halt \/ Api!Launch
    BY <1>1, LivesKeep
<1>2. CASE \/ Api!SetScopes \/ Api!RotateToken \/ Api!Asked \/ Api!WindowDecides \/ UNCHANGED Api!apiVars
    BY <1>2, QuietKeeps
<1>3. ASSUME NEW r \in Api!Requests, Api!Handle(r) PROVE ApiInv'
    BY <1>3, BodyFailsKeeps, ReplayedKeeps, InvokedKeeps, ComesKeep, WaitEndsKeeps, DecidesKeeps,
       DispatchedKeeps
       DEF Api!Handle
<1>4. ASSUME NEW r \in Api!Requests, NEW route \in Api!Routes, Api!Arrive(r, route) PROVE ApiInv'
    BY <1>4, ComesKeep
<1> QED BY <1>1, <1>2, <1>3, <1>4 DEF Api!Next

\* The invariant holds at first.
LEMMA ApiStarts == ASSUME Api!Init PROVE ApiInv
<1>1. /\ aLife = 1 /\ aRunning = TRUE /\ aScoped \in BOOLEAN /\ aToken = TRUE
      /\ aReqs = [r \in Api!Requests |-> Api!Idle] /\ aCache = [k \in Api!Keyed |-> 0]
      /\ aRuns = [k \in Api!Keyed |-> 0] /\ aTasks = 0 /\ aSpare = FALSE /\ aApproval = "none"
    BY DEF Api!Init
<1>2. MaxRequests \in Nat /\ MaxStarts \in Nat \ {0}
    BY RequestBounds
<1>3. Api!Idle \in RequestType
    BY <1>2 DEF Api!Idle, RequestType
<1>4. \A r \in Api!Requests : aReqs[r] = Api!Idle
    BY <1>1
<1>5. Api!TypeOK
    <2>1. aReqs \in [Api!Requests -> RequestType] /\ aCache \in [Api!Keyed -> 0..MaxRequests]
          /\ aRuns \in [Api!Keyed -> Nat]
        BY <1>1, <1>2, <1>3
    <2>2. aLife \in 1..MaxStarts /\ aApproval \in {"none", "pending", "settled"} /\ aTasks \in Nat
        BY <1>1, <1>2
    <2>3. aRunning \in BOOLEAN /\ aToken \in BOOLEAN /\ aSpare \in BOOLEAN
        BY <1>1
    <2>4. {aRunning, aScoped, aToken} \subseteq BOOLEAN
        BY <1>1, <2>3
    <2> QED BY <2>1, <2>2, <2>3, <2>4 DEF Api!TypeOK, RequestType
<1>6. RequestInv
    BY <1>1, <1>4 DEF RequestInv, Api!Idle
<1>7. KeyInv
    BY <1>1, <1>4 DEF KeyInv, Api!Idle
<1>8. Api!OneTaskPerKey
    BY <1>1, <1>4 DEF Api!OneTaskPerKey, Api!Idle
<1>9. ApprovalInv
    BY <1>4 DEF ApprovalInv, Api!OneDecision, Api!Idle
<1> QED BY <1>5, <1>6, <1>7, <1>8, <1>9 DEF ApiInv

\* What is promised of requests follows from the invariant.
LEMMA ApiPromised ==
  ASSUME ApiInv PROVE Api!TypeOK /\ Api!OneAnswerPerKey /\ Api!OneTaskPerKey /\ Api!OneDecision
<1>1. ASSUME NEW k \in Api!Keyed
      PROVE  /\ aRuns[k] <= 1
             /\ aCache[k] # 0 => \A r \in Api!Requests :
                  aReqs[r].route = k /\ aReqs[r].life = aLife /\ aReqs[r].answer = "done" =>
                    aReqs[aCache[k]].answer = "done"
    BY DEF ApiInv, KeyInv, RequestInv
<1> QED BY <1>1 DEF ApiInv, ApprovalInv, Api!OneAnswerPerKey

\* The promise about requests, of any behaviour of theirs.
LEMMA ApiSafe ==
  Api!Init /\ [][Api!Next]_(Api!apiVars) =>
    [](Api!TypeOK /\ Api!OneAnswerPerKey /\ Api!OneTaskPerKey /\ Api!OneDecision)
<1>1. Api!Init => ApiInv
    BY ApiStarts
<1>2. ApiInv /\ [Api!Next]_(Api!apiVars) => ApiInv'
    BY ApiStep
<1>3. ApiInv => Api!TypeOK /\ Api!OneAnswerPerKey /\ Api!OneTaskPerKey /\ Api!OneDecision
    BY ApiPromised
<1> QED BY <1>1, <1>2, <1>3, PTL

-----------------------------------------------------------------------------
(* The settings *)

Setting == [Config!Fields -> Config!Values]

\* Every variable has its type, the environment is that of the user, and a
\* save is made while the application runs.
SettingTypes ==
  /\ cRunning \in {"mock", "twilio", Absent} /\ cEnv = cOverride
  /\ cDisk \in [Config!Categories -> {Absent, Torn} \cup Setting]
  /\ cMemory \in [Config!ReadOnce -> Setting]
  /\ cSaving \in {Absent} \cup [category : Config!Categories, value : Setting]
  /\ cSaving # Absent => cRunning # Absent
  /\ cRelaunch \in BOOLEAN /\ cWrites \in 0..MaxWrites

\* A file that is renamed is never torn, and holds what was answered or what
\* was about to be; the application that runs has it in memory.
FilesInv ==
  \A c \in Config!Renamed :
    /\ cDisk[c] # Torn
    /\ cDisk[c] # Absent => cDisk[c] \in {cAcked[c], cCut[c]}
    /\ cAcked[c] # Absent => cDisk[c] # Absent
    /\ cRunning # Absent => cMemory[c] = Config!Stored(c)

\* A save that is being written differs in one field from what is shown.
SavingInv ==
  cSaving # Absent =>
    \E f \in Config!Fields : cSaving.value[f] = Config!Shown(cSaving.category)[f]

SettingsInv ==
  /\ SettingTypes /\ FilesInv /\ SavingInv
  /\ DOMAIN cAcked = Config!Categories /\ DOMAIN cCut = Config!Categories

\* The categories there are.
LEMMA CategoriesAre ==
  /\ Config!Categories = {"twilio", "voice", "general", "appointments"}
  /\ Config!Renamed = {"twilio", "voice"} /\ Config!InPlace = {"general", "appointments"}
  /\ Config!ReadOnce = {"twilio", "voice", "general"}
  /\ Config!Default \in Setting
BY DEF Config!Categories, Config!Renamed, Config!InPlace, Config!ReadOnce, Config!Default, Setting,
   Config!Fields, Config!Values

\* What is stored and what is shown are settings, and a mode is decided.
LEMMA StoredIs ==
  ASSUME SettingTypes
  PROVE  /\ \A c \in Config!Categories : Config!Stored(c) \in Setting /\ Config!Shown(c) \in Setting
         /\ \A v, o : Config!Resolved(v, o) \in {"mock", "twilio"}
<1>1. ASSUME NEW c \in Config!Categories PROVE Config!Stored(c) \in Setting
    BY <1>1, CategoriesAre DEF SettingTypes, Config!Stored
<1>2. ASSUME NEW c \in Config!Categories PROVE Config!Shown(c) \in Setting
    BY <1>1, <1>2, CategoriesAre DEF SettingTypes, Config!Shown
<1> QED BY <1>1, <1>2 DEF Config!Resolved

\* A save begins with a setting that has one field of what is shown.
LEMMA SaveKeeps ==
  ASSUME SettingsInv, NEW c \in Config!Categories, Config!Save(c) PROVE SettingsInv'
<1>1. PICK f \in Config!Fields, v \in Config!Values :
        cSaving' = [category |-> c, value |-> [Config!Shown(c) EXCEPT ![f] = v]]
    BY DEF Config!Save
<1>2. /\ cRunning # Absent /\ cWrites < MaxWrites /\ cWrites' = cWrites + 1
      /\ UNCHANGED <<cCut, cDisk, cMemory, cAcked, cOverride, cEnv, cRunning, cRelaunch>>
    BY Zenon DEF Config!Save
<1>3. Config!Shown(c) \in Setting
    BY StoredIs DEF SettingsInv
<1>4. [Config!Shown(c) EXCEPT ![f] = v] \in Setting
    BY <1>3 DEF Setting
<1>5. \E g \in Config!Fields : [Config!Shown(c) EXCEPT ![f] = v][g] = Config!Shown(c)[g]
    BY <1>3 DEF Setting, Config!Fields
<1>6. cSaving' \in [category : Config!Categories, value : Setting]
    BY <1>1, <1>4
<1>7. cSaving'.category = c /\ cSaving'.value = [Config!Shown(c) EXCEPT ![f] = v]
    BY <1>1
<1>8. cWrites' \in 0..MaxWrites
    BY <1>2, SettingsAssumption DEF SettingsInv, SettingTypes
<1>9. Config!Shown(c)' = Config!Shown(c) /\ \A d : Config!Stored(d)' = Config!Stored(d)
    BY <1>2, Zenon DEF Config!Shown, Config!Stored
<1>10. SettingTypes'
    BY <1>2, <1>6, <1>8 DEF SettingsInv, SettingTypes
<1>11. FilesInv'
    BY <1>2, <1>9, Zenon DEF SettingsInv, FilesInv
<1>12. SavingInv'
    BY <1>5, <1>7, <1>9, Zenon DEF SavingInv
<1> QED BY <1>2, <1>10, <1>11, <1>12 DEF SettingsInv

\* The file of a save is complete.
LEMMA SavedKeeps == ASSUME SettingsInv, Config!Saved PROVE SettingsInv'
<1> DEFINE k == cSaving.category
           v == cSaving.value
<1>1. /\ cSaving # Absent /\ cSaving' = Absent
      /\ cDisk' = [cDisk EXCEPT ![k] = v]
      /\ cMemory' = [c \in Config!ReadOnce |-> IF c = k THEN v ELSE cMemory[c]]
      /\ cAcked' = [cAcked EXCEPT ![k] = v] /\ cCut' = [cCut EXCEPT ![k] = Absent]
      /\ UNCHANGED <<cOverride, cEnv, cRunning, cRelaunch, cWrites>>
    BY Zenon DEF Config!Saved
<1>2. k \in Config!Categories /\ v \in Setting
    BY <1>1 DEF SettingsInv, SettingTypes
<1> HIDE DEF k, v
<1>3. v # Absent /\ v # Torn
    BY <1>2, SettingsAssumption DEF Setting
<1>4. SettingTypes'
    <2>1. cDisk' \in [Config!Categories -> {Absent, Torn} \cup Setting]
        BY <1>1, <1>2 DEF SettingsInv, SettingTypes
    <2>2. cMemory' \in [Config!ReadOnce -> Setting]
        BY <1>1, <1>2 DEF SettingsInv, SettingTypes
    <2> QED BY <1>1, <2>1, <2>2 DEF SettingsInv, SettingTypes
<1>5. ASSUME NEW c \in Config!Renamed
      PROVE  /\ cDisk'[c] # Torn
             /\ cDisk'[c] # Absent => cDisk'[c] \in {cAcked'[c], cCut'[c]}
             /\ cAcked'[c] # Absent => cDisk'[c] # Absent
             /\ cRunning' # Absent => cMemory'[c] = Config!Stored(c)'
    <2>1. c \in Config!Categories /\ c \in Config!ReadOnce
        BY CategoriesAre
    <2>2. CASE c = k
        <3>1. cDisk'[c] = v /\ cAcked'[c] = v /\ cMemory'[c] = v
            BY <1>1, <2>1, <2>2 DEF SettingsInv, SettingTypes
        <3>2. Config!Stored(c)' = v
            BY <3>1, <1>3 DEF Config!Stored
        <3> QED BY <1>3, <3>1, <3>2
    <2>3. CASE c # k
        <3>1. /\ cDisk'[c] = cDisk[c] /\ cAcked'[c] = cAcked[c] /\ cCut'[c] = cCut[c]
              /\ cMemory'[c] = cMemory[c]
            BY <1>1, <2>1, <2>3 DEF SettingsInv, SettingTypes
        <3>2. Config!Stored(c)' = Config!Stored(c)
            BY <3>1 DEF Config!Stored
        <3> QED BY <1>1, <3>1, <3>2 DEF SettingsInv, FilesInv
    <2> QED BY <2>2, <2>3
<1>6. FilesInv'
    BY <1>5 DEF FilesInv
<1>7. DOMAIN cAcked' = Config!Categories /\ DOMAIN cCut' = Config!Categories
    BY <1>1 DEF SettingsInv
<1> QED BY <1>1, <1>4, <1>6, <1>7 DEF SettingsInv, SavingInv

\* What a crash leaves is what was there, what was to be there, or a torn file
\* of those written in place.
LEMMA CrashKeeps == ASSUME SettingsInv, Config!Crash PROVE SettingsInv'
<1> DEFINE k == cSaving.category
           v == cSaving.value
<1>1. /\ cRunning' = Absent /\ cSaving' = Absent /\ cRelaunch' = FALSE /\ cEnv' = cOverride
      /\ UNCHANGED <<cMemory, cAcked, cOverride, cWrites>>
    BY Zenon DEF Config!Crash
<1>2. CASE cSaving = Absent
    <2>1. UNCHANGED <<cDisk, cCut>>
        BY <1>2, Zenon DEF Config!Crash
    <2> QED BY <1>1, <2>1, Zenon DEF SettingsInv, SettingTypes, FilesInv, SavingInv, Config!Stored
<1>3. CASE cSaving # Absent
    <2>1. PICK left \in Config!Remains(cSaving) :
            /\ cDisk' = [cDisk EXCEPT ![k] = left]
            /\ cCut' = [cCut EXCEPT ![k] = IF left = v THEN left ELSE cCut[k]]
        BY <1>3 DEF Config!Crash
    <2>2. k \in Config!Categories /\ v \in Setting
        BY <1>3 DEF SettingsInv, SettingTypes
    <2>3. left \in {cDisk[k], v} \cup (IF k \in Config!InPlace THEN {Torn} ELSE {})
        BY <2>1, Zenon DEF Config!Remains
    <2> HIDE DEF k, v
    <2>4. v # Absent /\ v # Torn
        BY <2>2, SettingsAssumption DEF Setting
    <2>5. cDisk' \in [Config!Categories -> {Absent, Torn} \cup Setting]
        <3>1. left \in {Absent, Torn} \cup Setting
            BY <2>2, <2>3 DEF SettingsInv, SettingTypes
        <3> QED BY <2>1, <3>1 DEF SettingsInv, SettingTypes
    <2>6. ASSUME NEW c \in Config!Renamed
          PROVE  /\ cDisk'[c] # Torn
                 /\ cDisk'[c] # Absent => cDisk'[c] \in {cAcked'[c], cCut'[c]}
                 /\ cAcked'[c] # Absent => cDisk'[c] # Absent
        <3>1. c \in Config!Categories /\ c \notin Config!InPlace
            BY CategoriesAre
        <3>2. CASE c = k
            <4>1. /\ cDisk'[c] = left /\ cCut'[c] = IF left = v THEN left ELSE cCut[c]
                  /\ cAcked'[c] = cAcked[c]
                BY <1>1, <2>1, <3>1, <3>2 DEF SettingsInv, SettingTypes
            <4>2. left \in {cDisk[c], v}
                BY <2>3, <3>1, <3>2
            <4> QED BY <2>4, <4>1, <4>2 DEF SettingsInv, FilesInv
        <3>3. CASE c # k
            <4>1. cDisk'[c] = cDisk[c] /\ cAcked'[c] = cAcked[c] /\ cCut'[c] = cCut[c]
                BY <1>1, <2>1, <3>1, <3>3 DEF SettingsInv, SettingTypes
            <4> QED BY <4>1 DEF SettingsInv, FilesInv
        <3> QED BY <3>2, <3>3
    <2>7. SettingTypes'
        BY <1>1, <2>5 DEF SettingsInv, SettingTypes
    <2>8. FilesInv'
        BY <1>1, <2>6, Zenon DEF FilesInv
    <2>9. DOMAIN cAcked' = Config!Categories /\ DOMAIN cCut' = Config!Categories
        BY <1>1, <2>1 DEF SettingsInv
    <2> QED BY <1>1, <2>7, <2>8, <2>9 DEF SettingsInv, SavingInv
<1> QED BY <1>2, <1>3

\* A start reads the files.
LEMMA StartKeeps == ASSUME SettingsInv, Config!Start PROVE SettingsInv'
<1>1. /\ cRunning = Absent /\ cMemory' = [c \in Config!ReadOnce |-> Config!Stored(c)]
      /\ cRunning' = Config!Resolved(Config!Stored("twilio"), cEnv)
      /\ UNCHANGED <<cCut, cDisk, cAcked, cSaving, cOverride, cEnv, cRelaunch, cWrites>>
    BY Zenon DEF Config!Start
<1>2. \A c : Config!Stored(c)' = Config!Stored(c)
    BY <1>1, Zenon DEF Config!Stored
<1>3. cMemory' \in [Config!ReadOnce -> Setting]
    BY <1>1, StoredIs, CategoriesAre DEF SettingsInv
<1>4. \A c \in Config!Renamed : cMemory'[c] = Config!Stored(c)'
    BY <1>1, <1>2, CategoriesAre
<1>5. cSaving' = Absent
    BY <1>1, Zenon DEF SettingsInv, SettingTypes
<1>6. cRunning' \in {"mock", "twilio", Absent}
    BY <1>1, StoredIs DEF SettingsInv
<1>7. SettingTypes'
    BY <1>1, <1>3, <1>5, <1>6 DEF SettingsInv, SettingTypes
<1>8. FilesInv'
    BY <1>1, <1>4, Zenon DEF SettingsInv, FilesInv
<1> QED BY <1>1, <1>5, <1>7, <1>8, Zenon DEF SettingsInv, SavingInv

\* Every step of the settings keeps the invariant.
LEMMA SettingsStep == ASSUME SettingsInv, [Config!Next]_(Config!vars) PROVE SettingsInv'
<1>1. ASSUME UNCHANGED <<cDisk, cMemory, cAcked, cCut, cOverride, cSaving, cWrites>>,
             cEnv' = cOverride, cRunning' \in {cRunning, Absent}, cRelaunch' \in BOOLEAN,
             cSaving = Absent \/ cRunning' = cRunning
      PROVE  SettingsInv'
    <2>1. \A c : Config!Stored(c)' = Config!Stored(c) /\ Config!Shown(c)' = Config!Shown(c)
        BY <1>1, Zenon DEF Config!Stored, Config!Shown
    <2>2. SettingTypes'
        BY <1>1 DEF SettingsInv, SettingTypes
    <2>3. FilesInv'
        BY <1>1, <2>1, Zenon DEF SettingsInv, FilesInv
    <2>4. SavingInv'
        BY <1>1, <2>1, Zenon DEF SettingsInv, SavingInv
    <2> QED BY <1>1, <2>2, <2>3, <2>4, Zenon DEF SettingsInv
<1>2. CASE Config!Call \/ Config!Relaunch \/ Config!RelaunchTimer \/ UNCHANGED Config!vars
    <2>1. UNCHANGED <<cDisk, cMemory, cAcked, cCut, cOverride, cSaving, cWrites>>
        BY <1>2, Zenon DEF Config!Call, Config!Relaunch, Config!RelaunchTimer, Config!vars
    <2>2. cEnv' = cOverride /\ cRelaunch' \in BOOLEAN
        BY <1>2, Zenon DEF Config!Call, Config!Relaunch, Config!RelaunchTimer, Config!vars, SettingsInv, SettingTypes
    <2>3. cRunning' \in {cRunning, Absent} /\ (cSaving = Absent \/ cRunning' = cRunning)
        BY <1>2, Zenon DEF Config!Call, Config!Relaunch, Config!RelaunchTimer, Config!vars
    <2> QED BY <1>1, <2>1, <2>2, <2>3
<1> QED BY <1>2, SaveKeeps, SavedKeeps, CrashKeeps, StartKeeps, Zenon DEF Config!Next

\* The invariant holds at first.
LEMMA SettingsStart == ASSUME Config!Init PROVE SettingsInv
<1>1. /\ cDisk = [c \in Config!Categories |-> Absent] /\ cMemory = [c \in Config!ReadOnce |-> Config!Default]
      /\ cAcked = [c \in Config!Categories |-> Absent] /\ cCut = [c \in Config!Categories |-> Absent]
      /\ cSaving = Absent /\ cRelaunch = FALSE /\ cWrites = 0 /\ cEnv = cOverride
      /\ cRunning = Config!Resolved(Config!Default, cOverride)
    BY Zenon DEF Config!Init
<1>2. SettingTypes
    <2>1. cRunning \in {"mock", "twilio", Absent}
        BY <1>1 DEF Config!Resolved
    <2>2. cDisk \in [Config!Categories -> {Absent, Torn} \cup Setting]
        BY <1>1
    <2>3. cMemory \in [Config!ReadOnce -> Setting]
        BY <1>1, CategoriesAre
    <2>4. cWrites \in 0..MaxWrites
        BY <1>1, SettingsAssumption
    <2> QED BY <1>1, <2>1, <2>2, <2>3, <2>4, Zenon DEF SettingTypes
<1>3. \A c \in Config!Renamed : cDisk[c] = Absent /\ cAcked[c] = Absent /\ cMemory[c] = Config!Default
    BY <1>1, CategoriesAre
<1>4. \A c \in Config!Renamed : Config!Stored(c) = Config!Default
    BY <1>3 DEF Config!Stored
<1>5. FilesInv
    BY <1>3, <1>4, SettingsAssumption DEF FilesInv
<1> QED BY <1>1, <1>2, <1>5 DEF SettingsInv, SavingInv

\* A step changes what a file holds only to a save of one field, and the mode
\* only by a start.
LEMMA SettingsMove ==
  ASSUME SettingsInv, [Config!Next]_(Config!vars)
  PROVE  /\ \A c \in Config!Categories : cDisk'[c] # cDisk[c] /\ cDisk'[c] # Torn =>
              \E f \in Config!Fields : cDisk'[c][f] = Config!Shown(c)[f]
         /\ cRunning' # cRunning =>
              \/ cRunning' = Absent
              \/ cRunning = Absent /\ cRunning' = Config!Resolved(Config!Stored("twilio"), cOverride)
<1> DEFINE k == cSaving.category
           v == cSaving.value
<1>1. ASSUME NEW c \in Config!Categories, cDisk'[c] # cDisk[c], cDisk'[c] # Torn
      PROVE  \E f \in Config!Fields : cDisk'[c][f] = Config!Shown(c)[f]
    <2>1. ASSUME NEW x, cDisk' = [cDisk EXCEPT ![k] = x], x = v \/ x = Torn \/ x = cDisk[k], cSaving # Absent
          PROVE  \E f \in Config!Fields : cDisk'[c][f] = Config!Shown(c)[f]
        <3>1. k \in Config!Categories
            BY <2>1 DEF SettingsInv, SettingTypes
        <3>2. k = c /\ cDisk'[c] = v
            <4> HIDE DEF k, v
            <4> QED BY <1>1, <2>1, <3>1 DEF SettingsInv, SettingTypes
        <3> QED BY <2>1, <3>2 DEF SettingsInv, SavingInv
    <2>2. CASE Config!Saved
        <3>1. cSaving # Absent /\ cDisk' = [cDisk EXCEPT ![k] = v]
            BY <2>2, Zenon DEF Config!Saved
        <3> QED BY <2>1, <3>1
    <2>3. CASE Config!Crash
        <3>1. CASE cSaving = Absent
            BY <1>1, <2>3, <3>1, Zenon DEF Config!Crash
        <3>2. CASE cSaving # Absent
            <4>1. PICK left \in Config!Remains(cSaving) : cDisk' = [cDisk EXCEPT ![k] = left]
                BY <2>3, <3>2 DEF Config!Crash
            <4>2. left = v \/ left = Torn \/ left = cDisk[k]
                BY <4>1 DEF Config!Remains
            <4> QED BY <2>1, <3>2, <4>1, <4>2
        <3> QED BY <3>1, <3>2
    <2>4. CASE cDisk' = cDisk
        BY <1>1, <2>4
    <2>5. Config!Saved \/ Config!Crash \/ cDisk' = cDisk
        BY Zenon DEF Config!Next, Config!Save, Config!Start, Config!Call, Config!Relaunch,
           Config!RelaunchTimer, Config!vars
    <2> QED BY <2>2, <2>3, <2>4, <2>5
<1>2. CASE Config!Start
    <2>1. cRunning = Absent /\ cRunning' = Config!Resolved(Config!Stored("twilio"), cEnv) /\ cEnv = cOverride
        BY <1>2, Zenon DEF Config!Start, SettingsInv, SettingTypes
    <2> QED BY <1>1, <2>1, Zenon
<1>3. Config!Start \/ cRunning' \in {cRunning, Absent}
    BY Zenon DEF Config!Next, Config!Save, Config!Saved, Config!Crash, Config!Call, Config!Relaunch,
       Config!RelaunchTimer, Config!vars
<1> QED BY <1>1, <1>2, <1>3

\* What is promised of settings, of any behaviour of theirs.
LEMMA SettingsSafe ==
  Config!Init /\ [][Config!Next]_(Config!vars) =>
    /\ [](Config!TypeOK /\ Config!AnsweredIsDurable)
    /\ Config!SaveKeepsTheRest /\ Config!ModeChangesByStart
<1>1. Config!Init => SettingsInv
    BY SettingsStart
<1>2. SettingsInv /\ [Config!Next]_(Config!vars) => SettingsInv'
    BY SettingsStep
<1>3. SettingsInv => Config!TypeOK /\ Config!AnsweredIsDurable
    <2> SUFFICES ASSUME SettingsInv PROVE Config!TypeOK /\ Config!AnsweredIsDurable
        OBVIOUS
    <2>1. \A c \in Config!Categories : cDisk[c] \in {Absent, Torn} \cup Setting
        BY DEF SettingsInv, SettingTypes
    <2> QED BY <2>1, Zenon DEF SettingsInv, SettingTypes, FilesInv, Config!TypeOK,
               Config!AnsweredIsDurable, Setting
<1>4. SettingsInv /\ [Config!Next]_(Config!vars) =>
        /\ [\A c \in Config!Categories : (cDisk'[c] # cDisk[c] /\ cDisk'[c] # Torn) =>
              \E f \in Config!Fields : cDisk'[c][f] = Config!Shown(c)[f]]_(Config!vars)
        /\ [cRunning' # cRunning =>
              \/ cRunning' = Absent
              \/ cRunning = Absent /\ cRunning' = Config!Resolved(Config!Stored("twilio"), cOverride)]_(Config!vars)
    BY SettingsMove
<1> QED BY <1>1, <1>2, <1>3, <1>4, PTL DEF Config!SaveKeepsTheRest, Config!ModeChangesByStart

-----------------------------------------------------------------------------
(* The application *)

\* The parts whose disposal has still to come when n steps have.
Rest(n) == {Host!Steps[i] : i \in 1..n}

\* The parts that exist whenever the application runs.
Lasting == Host!Parts \ {"codex", "window"}

\* The steps that are left are the first of the list, backwards; what exists
\* while they are run is among them, and what was disposed of has been told.
QuitInv ==
  /\ Host!TypeOK /\ hTodo \in Seq(Host!Parts) /\ Len(hTodo) <= 11
  /\ \A i \in 1..Len(hTodo) : hTodo[i] = Host!Steps[Len(hTodo) - i + 1]
  /\ hPhase = "up" => Lasting \subseteq hLive
  /\ hPhase = "disposing" => hLive \subseteq Rest(Len(hTodo)) /\ Lasting \subseteq hLive \cup hTold
  /\ hPhase \in {"quitting", "gone"} => Lasting \subseteq hTold
  /\ hPhase = "quitting" /\ hLate = {} => hLive = {}

\* The steps there are.
LEMMA StepsAre ==
  /\ Host!Steps \in Seq(Host!Parts) /\ Len(Host!Steps) = 11 /\ DOMAIN Host!Steps = 1..11
  /\ Host!Parts = Rest(11)
  /\ Host!Steps[1] = "campaigns" /\ Host!Steps[2] = "store" /\ Host!Steps[3] = "recorder"
  /\ Host!Steps[4] = "bridge" /\ Host!Steps[5] = "codex" /\ Host!Steps[6] = "gateway"
  /\ Host!Steps[7] = "services" /\ Host!Steps[8] = "approvals" /\ Host!Steps[9] = "modules"
  /\ Host!Steps[10] = "window" /\ Host!Steps[11] = "tray"
<1>1. Len(Host!Steps) = 11 /\ DOMAIN Host!Steps = 1..11
    BY DEF Host!Steps
<1>2. Host!Parts = Rest(11)
    BY <1>1 DEF Host!Parts, Host!ToSet, Rest
<1>3. \A i \in 1..11 : Host!Steps[i] \in Host!Parts
    BY <1>2 DEF Rest
<1>4. Host!Steps \in Seq(Host!Parts)
    BY <1>1, <1>3 DEF Host!Steps
<1> QED BY <1>1, <1>2, <1>4 DEF Host!Steps

\* The parts there are.
LEMMA PartsAre ==
  Host!Parts = {"campaigns", "store", "recorder", "bridge", "codex", "gateway", "services", "approvals",
                "modules", "window", "tray"}
BY StepsAre DEF Rest

\* No part uses one that was registered after it, nor itself.
LEMMA UsesAreEarlier ==
  ASSUME NEW n \in 1..11, NEW i \in 1..n PROVE Host!Steps[n] \notin Host!Uses[Host!Steps[i]]
<1> DEFINE p == Host!Steps[i]
<1>1. p \in Host!Parts
    BY StepsAre DEF Rest
<1>2. Host!Uses[p] = CASE p \in {"recorder", "bridge"} -> {"store"}
                       [] p = "services" -> {"store", "campaigns", "recorder", "bridge", "gateway"}
                       [] p = "approvals" -> {"services"}
                       [] p = "modules" -> {"services", "approvals", "store", "gateway", "codex", "bridge"}
                       [] p = "tray" -> {"services"}
                       [] OTHER -> {}
    BY <1>1, Zenon DEF Host!Uses
<1>3. CASE p \in {"recorder", "bridge"}
    <2>1. i \in {3, 4} /\ Host!Uses[p] = {"store"}
        BY <1>2, <1>3, StepsAre
    <2> QED BY <2>1, StepsAre
<1>4. CASE p = "services"
    <2>1. i = 7 /\ Host!Uses[p] = {"store", "campaigns", "recorder", "bridge", "gateway"}
        BY <1>2, <1>4, StepsAre
    <2> QED BY <2>1, StepsAre
<1>5. CASE p \in {"approvals", "tray"}
    <2>1. i \in {8, 11} /\ Host!Uses[p] = {"services"}
        BY <1>2, <1>5, StepsAre
    <2> QED BY <2>1, StepsAre
<1>6. CASE p = "modules"
    <2>1. i = 9 /\ Host!Uses[p] = {"services", "approvals", "store", "gateway", "codex", "bridge"}
        BY <1>2, <1>6, StepsAre
    <2> QED BY <2>1, StepsAre
<1>7. CASE p \notin {"recorder", "bridge", "services", "approvals", "tray", "modules"}
    BY <1>2, <1>7, SMT
<1> QED BY <1>3, <1>4, <1>5, <1>6, <1>7

\* A step of the shutdown disposes of the last part that is left.
LEMMA StepIs ==
  ASSUME QuitInv, Host!Step
  PROVE  /\ hPhase = "disposing" /\ Len(hTodo) \in 1..11
         /\ hLive' = hLive \ {Host!Steps[Len(hTodo)]}
         /\ hTold' = (IF Host!Steps[Len(hTodo)] \in hLive THEN hTold \cup {Host!Steps[Len(hTodo)]} ELSE hTold)
         /\ hTodo' \in Seq(Host!Parts) /\ Len(hTodo') = Len(hTodo) - 1
         /\ \A i \in 1..Len(hTodo') : hTodo'[i] = Host!Steps[Len(hTodo') - i + 1]
         /\ hChild' \in {hChild, "stopping"} /\ UNCHANGED <<hPhase, hHidden, hFaulty, hLate>>
<1>1. /\ hPhase = "disposing" /\ hTodo # <<>> /\ hTodo' = Tail(hTodo)
      /\ hLive' = hLive \ {Head(hTodo)}
      /\ hTold' = (IF Head(hTodo) \in hLive THEN hTold \cup {Head(hTodo)} ELSE hTold)
      /\ hChild' \in {hChild, "stopping"} /\ UNCHANGED <<hPhase, hHidden, hFaulty, hLate>>
    BY Zenon DEF Host!Step
<1>2. hTodo \in Seq(Host!Parts) /\ Len(hTodo) <= 11
    BY DEF QuitInv
<1>3. Len(hTodo) \in 1..11 /\ Head(hTodo) = hTodo[1]
    <2>1. hTodo # <<>>
        BY <1>1
    <2>2. Len(hTodo) \in Nat \ {0}
        BY <1>2, <2>1, EmptySeq
    <2>3. Head(hTodo) = hTodo[1]
        OBVIOUS
    <2>4. \A n \in Nat \ {0} : n <= 11 => n \in 1..11
        BY SMT
    <2> QED BY <1>2, <2>2, <2>3, <2>4, Zenon
<1>4. /\ Tail(hTodo) \in Seq(Host!Parts) /\ Len(Tail(hTodo)) = Len(hTodo) - 1
      /\ \A i \in 1..Len(Tail(hTodo)) : Tail(hTodo)[i] = hTodo[i + 1]
    BY <1>1, <1>2, HeadTailProperties
<1>5. hTodo[1] = Host!Steps[Len(hTodo)]
    BY <1>3 DEF QuitInv
<1>6. ASSUME NEW i \in 1..Len(hTodo') PROVE hTodo'[i] = Host!Steps[Len(hTodo') - i + 1]
    <2>1. i + 1 \in 1..Len(hTodo) /\ hTodo'[i] = hTodo[i + 1]
        BY <1>1, <1>3, <1>4
    <2>2. hTodo[i + 1] = Host!Steps[Len(hTodo) - (i + 1) + 1]
        BY <2>1 DEF QuitInv
    <2>3. Len(hTodo) - (i + 1) + 1 = Len(hTodo') - i + 1
        BY <1>1, <1>3, <1>4
    <2> QED BY <2>1, <2>2, <2>3
<1> QED BY <1>1, <1>3, <1>4, <1>5, <1>6

\* Every step of the application keeps the invariant.
LEMMA QuitStep == ASSUME QuitInv, [Host!Next]_(Host!hostVars) PROVE QuitInv'
<1>1. /\ hPhase \in {"booting", "up", "disposing", "quitting", "gone"} /\ hLive \cup hTold \cup hFaulty \subseteq Host!Parts
      /\ hHidden \in BOOLEAN /\ hChild \in {"none", "up", "stopping"} /\ hLate \subseteq {"notification", "window"}
    BY DEF QuitInv, Host!TypeOK
<1>2. ASSUME /\ hPhase' \in {"booting", "up", "quitting", "gone"} /\ hLive' \subseteq Host!Parts
             /\ hHidden' \in BOOLEAN /\ hChild' \in {"none", "up", "stopping"}
             /\ hLate' \subseteq {"notification", "window"}, UNCHANGED <<hTodo, hTold, hFaulty>>,
             hPhase' = "up" => Lasting \subseteq hLive',
             hPhase' \in {"quitting", "gone"} => Lasting \subseteq hTold,
             hPhase' = "quitting" /\ hLate' = {} => hLive' = {}
      PROVE  QuitInv'
    <2>1. Host!ToSet(hTodo)' = Host!ToSet(hTodo)
        BY <1>2 DEF Host!ToSet
    <2>2. Host!TypeOK'
        BY <1>1, <1>2, <2>1 DEF QuitInv, Host!TypeOK
    <2> QED BY <1>2, <2>2 DEF QuitInv
<1>3. CASE Host!Boot
    BY <1>1, <1>2, <1>3 DEF Host!Boot, Lasting
<1>4. CASE Host!NeedsCodex
    <2>1. hPhase = "up" /\ hLive' = hLive \cup {"codex"}
        BY <1>4 DEF Host!NeedsCodex
    <2> QED BY <1>1, <1>2, <1>4, <2>1, PartsAre DEF Host!NeedsCodex, QuitInv
<1>5. CASE Host!ChildExits
    BY <1>1, <1>2, <1>5 DEF Host!ChildExits, QuitInv, Lasting
<1>6. ASSUME NEW tray \in BOOLEAN, Host!CloseWindow(tray) PROVE QuitInv'
    <2>1. /\ hPhase \in {"up", "quitting"} /\ hLive' \in {hLive, hLive \ {"window"}} /\ hHidden' \in {hHidden, TRUE}
          /\ UNCHANGED <<hPhase, hTodo, hTold, hFaulty, hChild, hLate>>
        BY <1>6 DEF Host!CloseWindow
    <2> QED BY <1>1, <1>2, <2>1 DEF QuitInv, Lasting
<1>7. CASE Host!ShowWindow
    <2>1. /\ hPhase \in {"up", "quitting"} /\ hLive' = hLive \cup {"window"} /\ hHidden' = FALSE
          /\ hLate' = (IF hPhase = "quitting" THEN hLate \cup {"window"} ELSE hLate)
          /\ UNCHANGED <<hPhase, hTodo, hTold, hFaulty, hChild>>
        BY <1>7 DEF Host!ShowWindow
    <2> QED BY <1>1, <1>2, <2>1, PartsAre DEF QuitInv, Lasting
<1>8. CASE Host!Quit
    <2>1. /\ hPhase = "up" /\ hPhase' = "disposing" /\ hTodo' = Host!Reverse(Host!Steps)
          /\ UNCHANGED <<hLive, hHidden, hTold, hFaulty, hChild, hLate>>
        BY <1>8 DEF Host!Quit
    <2>2. hTodo' = [i \in 1..11 |-> Host!Steps[11 - i + 1]]
        BY <2>1, StepsAre DEF Host!Reverse
    <2>3. ASSUME NEW i \in 1..11 PROVE hTodo'[i] = Host!Steps[11 - i + 1] /\ hTodo'[i] \in Host!Parts
        BY <2>2, StepsAre DEF Rest
    <2>4. hTodo' \in Seq(Host!Parts) /\ Len(hTodo') = 11
        BY <2>2, <2>3
    <2>5. Host!ToSet(hTodo)' \subseteq Host!Parts
        <3>1. DOMAIN hTodo' = 1..11
            BY <2>2
        <3> QED BY <2>3, <3>1, Zenon DEF Host!ToSet
    <2>6. Host!TypeOK'
        BY <1>1, <2>1, <2>5 DEF Host!TypeOK
    <2>7. hLive' \subseteq Rest(11) /\ Lasting \subseteq hLive'
        BY <1>1, <2>1, StepsAre DEF QuitInv
    <2> QED BY <2>1, <2>3, <2>4, <2>6, <2>7 DEF QuitInv
<1>9. CASE Host!Step
    <2> DEFINE n == Len(hTodo)
               p == Host!Steps[n]
    <2>1. /\ hPhase = "disposing" /\ n \in 1..11 /\ hLive' = hLive \ {p}
          /\ hTold' = (IF p \in hLive THEN hTold \cup {p} ELSE hTold)
          /\ hTodo' \in Seq(Host!Parts) /\ Len(hTodo') = n - 1
          /\ \A i \in 1..Len(hTodo') : hTodo'[i] = Host!Steps[Len(hTodo') - i + 1]
          /\ hChild' \in {hChild, "stopping"} /\ UNCHANGED <<hPhase, hHidden, hFaulty, hLate>>
        BY <1>9, StepIs
    <2>2. hLive \subseteq Rest(n) /\ Lasting \subseteq hLive \cup hTold
        BY <2>1 DEF QuitInv
    <2> HIDE DEF n
    <2>3. hLive' \subseteq Rest(n - 1)
        BY <2>1, <2>2 DEF Rest
    <2>4. Lasting \subseteq hLive' \cup hTold'
        BY <2>1, <2>2
    <2>5. Host!ToSet(hTodo)' \subseteq Host!Parts
        BY <2>1 DEF Host!ToSet
    <2>6. Host!TypeOK'
        BY <1>1, <2>1, <2>5 DEF Host!TypeOK
    <2> QED BY <2>1, <2>3, <2>4, <2>6 DEF QuitInv
<1>10. CASE Host!Begun
    <2>1. /\ hPhase = "disposing" /\ hTodo = <<>> /\ hPhase' = "quitting"
          /\ UNCHANGED <<hLive, hHidden, hTodo, hTold, hFaulty, hChild, hLate>>
        BY <1>10 DEF Host!Begun
    <2>2. hLive \subseteq Rest(0) /\ Lasting \subseteq hLive \cup hTold
        BY <2>1 DEF QuitInv
    <2>3. hLive = {}
        BY <2>2 DEF Rest
    <2> QED BY <1>1, <1>2, <2>1, <2>2, <2>3
<1>11. CASE Host!Notification
    <2>1. /\ hPhase \in {"up", "quitting"} /\ hLive' = hLive \cup Host!Made
          /\ hLate' = (IF hPhase = "quitting" THEN hLate \cup {"notification"} ELSE hLate)
          /\ UNCHANGED <<hPhase, hHidden, hTodo, hTold, hFaulty, hChild>>
        BY <1>11 DEF Host!Notification
    <2> QED BY <1>1, <1>2, <2>1, PartsAre DEF QuitInv, Lasting, Host!Made
<1>12. CASE Host!WindowAsks
    <2>1. /\ hPhase \in {"up", "quitting"} /\ "window" \in hLive /\ hLive' = hLive \cup Host!Made
          /\ UNCHANGED <<hPhase, hHidden, hTodo, hTold, hFaulty, hChild, hLate>>
        BY <1>12 DEF Host!WindowAsks
    <2> QED BY <1>1, <1>2, <2>1, PartsAre DEF QuitInv, Lasting, Host!Made
<1>13. CASE Host!Leave
    BY <1>1, <1>2, <1>13 DEF Host!Leave, QuitInv
<1>14. CASE UNCHANGED Host!hostVars
    <2>1. Host!TypeOK'
        BY <1>14, Zenon DEF Host!hostVars, QuitInv, Host!TypeOK, Host!ToSet
    <2> QED BY <1>14, <2>1, Zenon DEF Host!hostVars, QuitInv
<1> QED BY <1>3, <1>4, <1>5, <1>6, <1>7, <1>8, <1>9, <1>10, <1>11, <1>12, <1>13, <1>14, Zenon DEF Host!Next

\* What is promised of the quit, of any behaviour of the application.
LEMMA QuitSafe ==
  Host!Init /\ [][Host!Next]_(Host!hostVars) =>
    /\ [](Host!TypeOK /\ Host!NothingIsLeftBehind /\ Host!ReopenedByEventOnly)
    /\ Host!UsersFirst
<1>1. Host!Init => QuitInv
    <2> SUFFICES ASSUME Host!Init PROVE QuitInv
        OBVIOUS
    <2>1. /\ hPhase = "booting" /\ hLive = {} /\ hHidden = FALSE /\ hTodo = <<>> /\ hTold = {}
          /\ hChild = "none" /\ hLate = {}
          /\ hFaulty \in {{}, {"services"}, {"modules", "window"}, {"bridge"}, {"store"}}
        BY DEF Host!Init
    <2>2. hFaulty \subseteq Host!Parts
        BY <2>1, PartsAre
    <2>3. Host!ToSet(hTodo) = {}
        BY <2>1 DEF Host!ToSet
    <2>4. Host!TypeOK
        BY <2>1, <2>2, <2>3 DEF Host!TypeOK
    <2>5. hTodo \in Seq(Host!Parts) /\ Len(hTodo) = 0
        BY <2>1
    <2>6. \A i \in 1..Len(hTodo) : FALSE
        BY <2>5
    <2> QED BY <2>1, <2>4, <2>5, <2>6 DEF QuitInv
<1>2. QuitInv /\ [Host!Next]_(Host!hostVars) => QuitInv'
    BY QuitStep
<1>3. QuitInv => Host!TypeOK /\ Host!NothingIsLeftBehind /\ Host!ReopenedByEventOnly
    BY DEF QuitInv, Lasting, Host!NothingIsLeftBehind, Host!ReopenedByEventOnly
<1>4. QuitInv /\ [Host!Next]_(Host!hostVars) =>
        [\A p \in Host!Parts : hPhase = "disposing" /\ p \in hTold' \ hTold =>
           \A q \in Host!Parts \ hTold : p \in Host!Uses[q] => q \notin hLive]_(Host!hostVars)
    <2> SUFFICES ASSUME QuitInv, Host!Next, hPhase = "disposing",
                        NEW p \in hTold' \ hTold, NEW q \in hLive
                 PROVE  p \notin Host!Uses[q]
        BY Zenon
    <2>1. CASE Host!Step
        <3>1. Len(hTodo) \in 1..11 /\ p = Host!Steps[Len(hTodo)]
            BY <2>1, StepIs
        <3>2. q \in Rest(Len(hTodo))
            BY DEF QuitInv
        <3>3. PICK i \in 1..Len(hTodo) : q = Host!Steps[i]
            BY <3>2 DEF Rest
        <3> QED BY <3>1, <3>3, UsesAreEarlier
    <2>2. ~Host!Step => hTold' = hTold
        BY Zenon DEF Host!Next, Host!Boot, Host!NeedsCodex, Host!ChildExits, Host!CloseWindow,
           Host!ShowWindow, Host!Quit, Host!Begun, Host!Notification, Host!WindowAsks, Host!Leave
    <2> QED BY <2>1, <2>2
<1> QED BY <1>1, <1>2, <1>3, <1>4, PTL DEF Host!UsersFirst

-----------------------------------------------------------------------------
(* The control server *)

\* What is held is up, and so is what is named, unless a life that is over
\* named it; what is not running has no server.
NamesInv ==
  /\ sRunning => (sHeld # 0 => sListener[sHeld] = "up")
  /\ sRunning => (sNamed # 0 /\ sNamed # sStale => sListener[sNamed] = "up")
  /\ ~sRunning => /\ sHeld = 0 /\ sNamed \in {0, sStale}
                  /\ \A s \in Server!Servers : sListener[s] \in {"none", "closed"}

\* As long as nothing crossed a server that was being opened, there is one
\* server at most, it is held once it is up, and it is there only while the
\* setting that was saved says so and the controller was not disposed of.
OneServerInv ==
  sRunning /\ ~sCrossed =>
    /\ \A s \in Server!Servers : sListener[s] = "up" => sHeld = s
    /\ \A s \in Server!Servers : sListener[s] = "binding" =>
         sHeld = 0 /\ \A t \in Server!Servers : sListener[t] = "binding" => t = s
    /\ ~sAttached \/ ~sSaved => \A s \in Server!Servers : sListener[s] \notin {"up", "binding"}

ServerInv == Server!TypeOK /\ NamesInv /\ OneServerInv

\* A server is a number from 1.
LEMMA ServersAre ==
  /\ \A s \in Server!Servers : s \in 0..MaxServers /\ s # 0
  /\ \A s \in 0..MaxServers : s # 0 => s \in Server!Servers
  /\ 0 \in 0..MaxServers /\ MaxLives \in Nat
<1>1. MaxServers \in Nat /\ MaxLives \in Nat
    BY HostAssumption
<1> QED BY <1>1 DEF Server!Servers

\* The types, one by one.
LEMMA ServerTypes ==
  ASSUME ServerInv
  PROVE  /\ sLife \in 0..MaxLives /\ sRunning \in BOOLEAN /\ sAttached \in BOOLEAN /\ sEnabled \in BOOLEAN
         /\ sSaved \in BOOLEAN /\ sTimer \in BOOLEAN /\ sCrossed \in BOOLEAN
         /\ sListener \in [Server!Servers -> {"none", "binding", "up", "closed"}]
         /\ sHeld \in 0..MaxServers /\ sNamed \in 0..MaxServers /\ sStale \in 0..MaxServers
BY DEF ServerInv, Server!TypeOK

\* What a start of the server changes.
LEMMA StartIs ==
  ASSUME ServerInv, Server!StartServer
  PROVE  /\ sListener' \in [Server!Servers -> {"none", "binding", "up", "closed"}]
         /\ sListener' = sListener \/ sHeld = 0
         /\ \A s \in Server!Servers :
              sListener'[s] # sListener[s] => sListener[s] = "none" /\ sListener'[s] = "binding"
         /\ \A s, t \in Server!Servers :
              sListener'[s] # sListener[s] /\ sListener'[t] # sListener[t] => s = t
<1>1. CASE sHeld # 0
    <2>1. sListener' = sListener
        BY <1>1, Zenon DEF Server!StartServer
    <2> QED BY <2>1, ServerTypes
<1>2. CASE sHeld = 0
    <2>1. PICK s \in Server!Servers : sListener[s] = "none" /\ sListener' = [sListener EXCEPT ![s] = "binding"]
        BY <1>2 DEF Server!StartServer
    <2> QED BY <1>2, <2>1, ServerTypes
<1> QED BY <1>1, <1>2

\* What a stop of the server changes.
LEMMA StopIs ==
  ASSUME ServerInv, Server!StopServer
  PROVE  /\ sHeld' = 0 /\ sTimer' = FALSE /\ sNamed' = 0
         /\ sListener' \in [Server!Servers -> {"none", "binding", "up", "closed"}]
         /\ \A s \in Server!Servers : sListener'[s] = IF s = sHeld THEN "closed" ELSE sListener[s]
<1>1. CASE sHeld = 0
    <2>1. sListener' = sListener
        BY <1>1, Zenon DEF Server!StopServer
    <2> QED BY <1>1, <2>1, ServerTypes, ServersAre DEF Server!StopServer
<1>2. CASE sHeld # 0
    <2>1. sListener' = [sListener EXCEPT ![sHeld] = "closed"]
        BY <1>2, Zenon DEF Server!StopServer
    <2> QED BY <1>2, <2>1, ServerTypes, ServersAre DEF Server!StopServer
<1> QED BY <1>1, <1>2

\* A server is opened, or cannot be.
LEMMA BindsKeep ==
  ASSUME ServerInv, NEW s \in Server!Servers, Server!Bound(s) \/ Server!BindFails(s) PROVE ServerInv'
<1>1. /\ sRunning /\ sListener[s] = "binding"
      /\ UNCHANGED <<sLife, sRunning, sAttached, sEnabled, sSaved, sStale, sCrossed>>
    BY Zenon DEF Server!Bound, Server!BindFails
<1>2. CASE Server!Bound(s)
    <2>1. /\ sListener' = [sListener EXCEPT ![s] = "up"] /\ sHeld' = s
          /\ (sNamed' = s /\ sTimer' = TRUE) \/ (sNamed' = sNamed /\ sTimer' = sTimer)
        BY <1>2, Zenon DEF Server!Bound
    <2>2. /\ sListener' \in [Server!Servers -> {"none", "binding", "up", "closed"}]
          /\ sListener'[s] = "up" /\ \A t \in Server!Servers : t # s => sListener'[t] = sListener[t]
        BY <2>1, ServerTypes
    <2>3. Server!TypeOK'
        BY <1>1, <2>1, <2>2, ServersAre, ServerTypes DEF Server!TypeOK
    <2>4. NamesInv'
        BY <1>1, <2>1, <2>2, ServersAre, ServerTypes DEF ServerInv, NamesInv
    <2>5. OneServerInv'
        BY <1>1, <2>1, <2>2, ServersAre, ServerTypes DEF ServerInv, OneServerInv
    <2> QED BY <2>3, <2>4, <2>5 DEF ServerInv
<1>3. CASE Server!BindFails(s)
    <2>1. sListener' = [sListener EXCEPT ![s] = "closed"] /\ UNCHANGED <<sHeld, sNamed, sTimer>>
        BY <1>3, Zenon DEF Server!BindFails
    <2>2. /\ sListener' \in [Server!Servers -> {"none", "binding", "up", "closed"}]
          /\ sListener'[s] = "closed" /\ \A t \in Server!Servers : t # s => sListener'[t] = sListener[t]
        BY <2>1, ServerTypes
    <2>3. Server!TypeOK'
        BY <1>1, <2>1, <2>2, ServersAre, ServerTypes DEF Server!TypeOK
    <2>4. NamesInv'
        BY <1>1, <2>1, <2>2, ServersAre, ServerTypes DEF ServerInv, NamesInv
    <2>5. OneServerInv'
        BY <1>1, <2>1, <2>2, ServersAre, ServerTypes DEF ServerInv, OneServerInv
    <2> QED BY <2>3, <2>4, <2>5 DEF ServerInv
<1> QED BY <1>2, <1>3

\* The server is started, by a launch or by the setting.
LEMMA StartsKeep ==
  ASSUME ServerInv, Server!StartServer \/ sListener' = sListener,
         UNCHANGED <<sHeld, sTimer, sNamed, sStale>>, sRunning', (sAttached' /\ sSaved') \/ (~sRunning /\ sListener' = sListener),
         sLife' \in 0..MaxLives, {sAttached', sEnabled', sSaved', sCrossed'} \subseteq BOOLEAN,
         sRunning => sAttached' = sAttached /\ sCrossed' = (sCrossed \/ Server!Binding),
         sRunning \/ sCrossed' = sCrossed
  PROVE  ServerInv'
<1>1. /\ sListener' \in [Server!Servers -> {"none", "binding", "up", "closed"}]
      /\ sListener' = sListener \/ sHeld = 0
      /\ \A s \in Server!Servers :
           sListener'[s] # sListener[s] => sListener[s] = "none" /\ sListener'[s] = "binding"
      /\ \A s, t \in Server!Servers :
           sListener'[s] # sListener[s] /\ sListener'[t] # sListener[t] => s = t
    BY StartIs, ServerTypes
<1>2. Server!TypeOK'
    BY <1>1, ServersAre, ServerTypes DEF Server!TypeOK
<1>3. NamesInv'
    BY <1>1, ServersAre, ServerTypes DEF ServerInv, NamesInv
<1>4. ASSUME ~sCrossed' PROVE OneServerInv'
    <2>1. ASSUME NEW s \in Server!Servers PROVE sListener[s] # "binding" /\ (sListener[s] = "up" => sHeld = s)
        BY <1>4, ServersAre, ServerTypes DEF ServerInv, NamesInv, OneServerInv, Server!Binding
    <2>2. CASE sListener' = sListener
        <3>1. (sAttached' /\ sSaved') \/ \A s \in Server!Servers : sListener[s] \in {"none", "closed"}
            BY <2>2 DEF ServerInv, NamesInv
        <3> QED BY <2>1, <2>2, <3>1 DEF OneServerInv
    <2>3. CASE sListener' # sListener
        <3>1. sHeld = 0 /\ sHeld' = 0 /\ sAttached' /\ sSaved'
            BY <1>1, <2>3
        <3>2. \A s \in Server!Servers : sListener'[s] # "up"
            BY <1>1, <2>1, <3>1, ServersAre
        <3>3. \A s, t \in Server!Servers : sListener'[s] = "binding" /\ sListener'[t] = "binding" => s = t
            BY <1>1, <2>1
        <3> QED BY <3>1, <3>2, <3>3, Zenon DEF OneServerInv
    <2> QED BY <2>2, <2>3
<1> QED BY <1>2, <1>3, <1>4 DEF ServerInv, OneServerInv

\* The server is stopped, by the setting or when the controller is disposed of.
LEMMA StopsKeep ==
  ASSUME ServerInv, Server!StopServer, UNCHANGED <<sLife, sRunning, sStale>>, sRunning,
         {sAttached', sEnabled', sSaved', sCrossed'} \subseteq BOOLEAN,
         sCrossed' = (sCrossed \/ Server!Binding)
  PROVE  ServerInv'
<1>1. Server!TypeOK'
    BY StopIs, ServersAre, ServerTypes DEF Server!TypeOK
<1>2. NamesInv'
    BY StopIs, ServersAre, ServerTypes DEF ServerInv, NamesInv
<1>3. OneServerInv'
    BY StopIs, ServersAre, ServerTypes DEF ServerInv, OneServerInv, Server!Binding
<1> QED BY <1>1, <1>2, <1>3 DEF ServerInv

\* Every step of the server keeps the invariant.
LEMMA ServerStep == ASSUME ServerInv, [Server!Next]_(Server!serverVars) PROVE ServerInv'
<1>1. CASE Server!Launch
    <2>1. /\ ~sRunning /\ sLife < MaxLives /\ sLife' = sLife + 1 /\ sRunning' /\ sAttached' = TRUE /\ sEnabled' = sSaved
          /\ IF sSaved THEN Server!StartServer ELSE UNCHANGED sListener
          /\ UNCHANGED <<sSaved, sHeld, sTimer, sNamed, sStale, sCrossed>>
        BY <1>1 DEF Server!Launch
    <2>2. sLife' \in 0..MaxLives
        BY <2>1, ServerTypes, ServersAre
    <2>3. {sAttached', sEnabled', sSaved', sCrossed'} \subseteq BOOLEAN
        BY <2>1, ServerTypes
    <2> QED BY <2>1, <2>2, <2>3, StartsKeep
<1>2. ASSUME NEW on \in BOOLEAN, Server!Switch(on) PROVE ServerInv'
    <2>1. /\ sRunning /\ sAttached /\ sEnabled' = on /\ sSaved' = on /\ sCrossed' = (sCrossed \/ Server!Binding)
          /\ IF on THEN Server!StartServer /\ UNCHANGED <<sHeld, sTimer, sNamed>> ELSE Server!StopServer
          /\ UNCHANGED <<sLife, sRunning, sAttached, sStale>>
        BY <1>2 DEF Server!Switch, Server!SetEnabled, Server!Crossing
    <2>2. sCrossed' \in BOOLEAN
        BY <2>1, ServerTypes
    <2>3. {sAttached', sEnabled', sSaved', sCrossed'} \subseteq BOOLEAN /\ sLife' \in 0..MaxLives
        BY <2>1, <2>2, ServerTypes
    <2> QED BY <2>1, <2>3, StartsKeep, StopsKeep
<1>3. ASSUME NEW on \in BOOLEAN, Server!SaveFails(on) PROVE ServerInv'
    <2>1. /\ sEnabled' = on
          /\ UNCHANGED <<sLife, sRunning, sAttached, sSaved, sListener, sHeld, sTimer, sNamed, sStale, sCrossed>>
        BY <1>3, Zenon DEF Server!SaveFails
    <2>2. Server!TypeOK'
        BY <2>1, ServerTypes DEF Server!TypeOK
    <2> QED BY <2>1, <2>2, Zenon DEF ServerInv, NamesInv, OneServerInv
<1>4. CASE Server!Dispose
    <2>1. /\ sRunning /\ sAttached' = FALSE /\ Server!StopServer /\ sCrossed' = (sCrossed \/ Server!Binding)
          /\ UNCHANGED <<sLife, sRunning, sEnabled, sSaved, sStale>>
        BY <1>4 DEF Server!Dispose, Server!Crossing
    <2>2. sCrossed' \in BOOLEAN
        BY <2>1, ServerTypes
    <2>3. {sAttached', sEnabled', sSaved', sCrossed'} \subseteq BOOLEAN
        BY <2>1, <2>2, ServerTypes
    <2> QED BY <2>1, <2>3, StopsKeep
<1>5. CASE Server!FileLost \/ Server!HealthCheck
    <2>1. /\ UNCHANGED <<sLife, sRunning, sAttached, sEnabled, sSaved, sListener, sHeld, sTimer, sStale, sCrossed>>
          /\ sNamed' = 0 \/ (sRunning /\ sHeld # 0 /\ sNamed' = sHeld)
        BY <1>5, Zenon DEF Server!FileLost, Server!HealthCheck
    <2>2. Server!TypeOK'
        BY <2>1, ServersAre, ServerTypes DEF Server!TypeOK
    <2>3. NamesInv'
        BY <2>1, Zenon DEF ServerInv, NamesInv
    <2> QED BY <2>1, <2>2, <2>3, Zenon DEF ServerInv, OneServerInv
<1>6. CASE Server!Halt
    <2>1. /\ sRunning' = FALSE /\ sAttached' = FALSE /\ sHeld' = 0 /\ sTimer' = FALSE /\ sStale' = sNamed
          /\ sListener' = [s \in Server!Servers |-> IF sListener[s] = "none" THEN "none" ELSE "closed"]
          /\ UNCHANGED <<sLife, sEnabled, sSaved, sNamed, sCrossed>>
        BY <1>6 DEF Server!Halt
    <2>2. Server!TypeOK'
        BY <2>1, ServersAre, ServerTypes DEF Server!TypeOK
    <2>3. NamesInv'
        BY <2>1, ServersAre, ServerTypes DEF ServerInv, NamesInv
    <2> QED BY <2>1, <2>2, <2>3 DEF ServerInv, OneServerInv
<1>7. CASE UNCHANGED Server!serverVars
    <2>1. UNCHANGED <<sLife, sRunning, sAttached, sEnabled, sSaved, sListener, sHeld, sTimer, sNamed, sStale, sCrossed>>
        BY <1>7, Zenon DEF Server!serverVars
    <2> QED BY <2>1, Zenon DEF ServerInv, NamesInv, OneServerInv, Server!TypeOK
<1> QED BY <1>1, <1>2, <1>3, <1>4, <1>5, <1>6, <1>7, BindsKeep, Zenon DEF Server!Next

\* What is promised of the server, of any behaviour of it.
LEMMA ServerSafe ==
  Server!Init /\ [][Server!Next]_(Server!serverVars) =>
    [](Server!TypeOK /\ Server!NamedListens /\ Server!OffIsClosed)
<1>1. Server!Init => ServerInv
    <2> SUFFICES ASSUME Server!Init PROVE ServerInv
        OBVIOUS
    <2>1. /\ sLife = 0 /\ sRunning = FALSE /\ sAttached = FALSE /\ sEnabled = FALSE /\ sSaved \in BOOLEAN
          /\ sListener = [s \in Server!Servers |-> "none"] /\ sHeld = 0 /\ sTimer = FALSE /\ sNamed = 0
          /\ sStale = 0 /\ sCrossed = FALSE
        BY DEF Server!Init
    <2>2. Server!TypeOK
        <3>1. sListener \in [Server!Servers -> {"none", "binding", "up", "closed"}]
            BY <2>1
        <3>2. sLife \in 0..MaxLives /\ {sHeld, sNamed, sStale} \subseteq 0..MaxServers
            BY <2>1, ServersAre
        <3>3. {sRunning, sAttached, sEnabled, sSaved, sTimer, sCrossed} \subseteq BOOLEAN
            BY <2>1
        <3> QED BY <3>1, <3>2, <3>3 DEF Server!TypeOK
    <2>3. \A s \in Server!Servers : sListener[s] = "none"
        BY <2>1
    <2> QED BY <2>1, <2>2, <2>3 DEF ServerInv, NamesInv, OneServerInv
<1>2. ServerInv /\ [Server!Next]_(Server!serverVars) => ServerInv'
    BY ServerStep
<1>3. ServerInv => Server!TypeOK /\ Server!NamedListens /\ Server!OffIsClosed
    <2> SUFFICES ASSUME ServerInv PROVE Server!NamedListens /\ Server!OffIsClosed
        BY DEF ServerInv
    <2>1. Server!NamedListens
        BY Zenon DEF ServerInv, NamesInv, Server!NamedListens
    <2>2. Server!OffIsClosed
        BY DEF ServerInv, OneServerInv, Server!OffIsClosed
    <2> QED BY <2>1, <2>2
<1> QED BY <1>1, <1>2, <1>3, PTL

-----------------------------------------------------------------------------
(* The command-line client *)

\* What the command is, which does not change.
Posting == iCmd.kind \in {"call", "submit"}
Following == iCmd.kind = "wait" \/ (Posting /\ iCmd.waits)
Changing == iCmd.kind = "change"

\* Where an invocation can be, for each command, and that only the end of it
\* has something to show.
StepInv ==
  /\ iReq # "none" => iStep \in {"first", "second", "poll"}
  /\ iStep \in {"poll", "pause"} => Following
  /\ iStep = "second" => iCmd.kind = "pair" \/ (iCmd.kind = "call" /\ iThing = "over")
  /\ iStep = "write" => iCmd.kind = "recording"
  /\ iStep \notin {"start", "done"} => iCmd.fault \notin Client!Early
  /\ iStep # "done" => iCode = "none" /\ iShown = "none" /\ iRuns > 0
  /\ iShown = "over" => iThing = "over"

\* Of what was made by then: nothing before the first request is carried out,
\* and one thing when its answer has come.
MadeInv ==
  /\ iMade \in {iBefore, iBefore + 1} /\ iBefore \in Nat /\ iRuns \in Nat
  /\ iRuns > 0 => iBefore < iRuns
  /\ iRuns = 0 => iMade = 0
  /\ iStep = "start" \/ (iStep = "first" /\ iReq = "sent") => iMade = iBefore
  /\ (Posting \/ Changing) /\ (iStep \in {"second", "poll", "pause"} \/ (iStep = "first" /\ iReq = "ok"))
       => iMade = iBefore + 1
  /\ iCode = "USAGE" /\ iCmd.fault \in Client!Early => iMade = iBefore

CliInv == Client!TypeOK /\ StepInv /\ MadeInv /\ Client!CodesAreTrue

\* The commands there are.
LEMMA CommandsAre ==
  /\ Client!Posts(iCmd) = Posting /\ Client!Follows(iCmd) = Following
  /\ (iCmd.kind \in Client!Changes) = Changing
  /\ Client!TypeOK => iCmd.kind \in {"call", "submit", "wait", "recording", "pair", "read", "change"}
BY DEF Client!Posts, Client!Follows, Client!Changes, Client!Kinds, Client!Reads, Client!TypeOK, Posting,
   Following, Changing

\* The types, one by one.
LEMMA CliTypes ==
  ASSUME CliInv
  PROVE  /\ iCmd \in [kind : Client!Kinds, waits : BOOLEAN, fault : Client!Faults, local : BOOLEAN]
         /\ iApp \in {"up", "rotated", "down"} /\ iThing \in {"none", "approval", "open", "over"}
         /\ iStep \in {"start", "first", "second", "poll", "write", "pause", "done"}
         /\ iReq \in {"none", "sent", "ok", "error", "unauthorized", "refused", "lost", "cut"}
         /\ iCode \in Client!Codes \cup {"none"} /\ iShown \in {"none", "approval", "open", "over"}
         /\ iLate \in BOOLEAN /\ iFile \in BOOLEAN
         /\ iMade \in 0..MaxRuns /\ iBefore \in 0..MaxRuns /\ iRuns \in 0..MaxRuns /\ MaxRuns \in Nat
BY HostAssumption, Zenon DEF CliInv, Client!TypeOK

\* The command does not change, and so neither does what it is.
LEMMA SameCommand ==
  ASSUME iCmd' = iCmd
  PROVE  /\ Posting' = Posting /\ Following' = Following /\ Changing' = Changing
         /\ Client!Early' = Client!Early
BY Zenon DEF Posting, Following, Changing, Client!Early

\* An invocation that ends with a code keeps the invariant when the code is true.
LEMMA EndsKeep ==
  ASSUME CliInv, UNCHANGED <<iCmd, iApp, iMade, iThing, iBefore, iRuns>>,
         iStep' = "done", iReq' = "none", iLate' = iLate, iStep # "done",
         iCode' \in Client!Codes, iShown' \in {"none", "approval", "open", "over"}, iFile' \in BOOLEAN,
         iShown' = "over" => iThing = "over",
         iCode' = "USAGE" /\ iCmd.fault \in Client!Early => iMade = iBefore,
         iCode' = "OK" /\ Following => iShown' \in {"over", "approval"},
         iCode' = "OK" /\ (Posting \/ Changing) => iMade = iBefore + 1,
         iCode' = "OK" /\ iCmd.kind = "recording" => iFile',
         iCode' = "TIMEOUT" => iLate /\ Following /\ (Posting => iMade = iBefore + 1)
  PROVE  CliInv'
<1>1. Client!TypeOK'
    BY CliTypes DEF Client!TypeOK
<1>2. StepInv'
    BY SameCommand, Zenon DEF StepInv
<1>3. MadeInv'
    BY SameCommand, Zenon DEF MadeInv, CliInv
<1>4. Client!CodesAreTrue'
    BY SameCommand, CommandsAre, Zenon DEF Client!CodesAreTrue, Client!Posts, Client!Follows, Posting, Following, Changing,
       Client!Changes
<1> QED BY <1>1, <1>2, <1>3, <1>4 DEF CliInv

\* An invocation that goes on keeps the invariant when it goes where its command leads.
LEMMA GoesOnKeeps ==
  ASSUME CliInv, UNCHANGED <<iCmd, iApp, iMade, iThing, iBefore, iRuns, iCode, iShown, iFile>>, iStep # "done",
         iLate' \in BOOLEAN, iStep' \in {"first", "second", "poll", "write", "pause"},
         iReq' \in {"none", "sent", "ok"}, iReq' # "none" => iStep' \in {"first", "second", "poll"},
         iStep' \in {"poll", "pause"} => Following,
         iStep' = "second" => iCmd.kind = "pair" \/ (iCmd.kind = "call" /\ iThing = "over"),
         iStep' = "write" => iCmd.kind = "recording",
         iCmd.fault \notin Client!Early,
         iStep' = "first" => iMade = iBefore /\ iReq' = "sent",
         iStep' \in {"second", "poll", "pause"} /\ (Posting \/ Changing) => iMade = iBefore + 1
  PROVE  CliInv'
<1>1. Client!TypeOK'
    BY CliTypes DEF Client!TypeOK
<1>2. iCode = "none" /\ iShown = "none" /\ iRuns > 0
    BY DEF CliInv, StepInv
<1>3. StepInv'
    BY <1>2, SameCommand, Zenon DEF StepInv
<1>4. MadeInv'
    BY <1>2, SameCommand DEF MadeInv, CliInv
<1>5. Client!CodesAreTrue'
    BY <1>2 DEF Client!CodesAreTrue
<1> QED BY <1>1, <1>3, <1>4, <1>5 DEF CliInv

\* Every step of an invocation keeps the invariant.
LEMMA ProceedKeeps == ASSUME CliInv, Client!Proceed PROVE CliInv'
<1>1. /\ StepInv /\ MadeInv
      /\ iCmd.kind \in {"call", "submit", "wait", "recording", "pair", "read", "change"}
      /\ {"OK", "APP_UNAVAILABLE", "NETWORK", "AUTH", "API", "USAGE", "TIMEOUT"} \subseteq Client!Codes
    BY CommandsAre DEF CliInv, Client!Codes
<1>w. UNCHANGED Client!world <=> UNCHANGED <<iCmd, iApp, iMade, iThing, iBefore, iRuns>>
    BY DEF Client!world
<1>e. \A c : Client!Exit(c) <=> /\ iStep' = "done" /\ iCode' = c /\ iReq' = "none"
                                /\ iLate' = iLate /\ iShown' = iShown /\ iFile' = iFile
    BY DEF Client!Exit
<1>p. \A x : Client!Prints(x) <=> /\ iStep' = "done" /\ iCode' = "OK" /\ iReq' = "none" /\ iShown' = x
                                  /\ iLate' = iLate /\ iFile' = iFile
    BY DEF Client!Prints
<1>a. \A s : Client!Ask(s) <=> /\ iStep' = s /\ iReq' = "sent" /\ iLate' = iLate /\ iCode' = iCode
                               /\ iShown' = iShown /\ iFile' = iFile
    BY DEF Client!Ask
<1>n. iStep # "done" => iCode = "none" /\ iShown = "none"
    BY <1>1 DEF StepInv
<1>x. ASSUME NEW c \in Client!Codes \ {"OK", "TIMEOUT"}, iStep # "done", Client!Exit(c), UNCHANGED Client!world,
             c = "USAGE" /\ iCmd.fault \in Client!Early => iMade = iBefore
      PROVE  CliInv'
    BY <1>x, <1>e, <1>n, <1>w, CliTypes, EndsKeep
<1>2. CASE Client!Begin
    <2>1. iStep = "start" /\ UNCHANGED Client!world /\ iMade = iBefore
        BY <1>1, <1>2 DEF Client!Begin, MadeInv
    <2>2. CASE Client!Exit("APP_UNAVAILABLE") \/ Client!Exit("USAGE")
        BY <1>1, <1>x, <2>1, <2>2
    <2>3. CASE iCmd.fault \notin Client!Early /\ Client!Ask(IF iCmd.kind = "wait" THEN "poll" ELSE "first")
        BY <1>1, <1>a, <1>w, <2>1, <2>3, CliTypes, GoesOnKeeps DEF Following, Posting, Changing
    <2> QED BY <1>2, <2>2, <2>3, Zenon DEF Client!Begin
<1>3. CASE Client!Failed
    <2>1. /\ iReq \in {"refused", "lost", "cut", "error", "unauthorized"} /\ UNCHANGED Client!world
          /\ Client!Exit(CASE iReq = "refused" /\ iCmd.local -> "APP_UNAVAILABLE"
                           [] iReq = "lost" \/ (iReq = "refused" /\ ~iCmd.local) -> "NETWORK"
                           [] iReq = "unauthorized" -> "AUTH"
                           [] OTHER -> "API")
        BY <1>3, Zenon DEF Client!Failed
    <2>2. PICK c \in {"APP_UNAVAILABLE", "NETWORK", "AUTH", "API"} : Client!Exit(c)
        BY <2>1
    <2>3. iStep # "done"
        BY <1>1, <2>1 DEF StepInv
    <2> QED BY <1>1, <1>x, <2>1, <2>2, <2>3
<1>4. CASE Client!FirstAnswered
    <2>1. /\ iStep = "first" /\ iReq = "ok" /\ UNCHANGED Client!world
          /\ Posting \/ Changing => iMade = iBefore + 1
          /\ iCmd.fault \notin Client!Early
        BY <1>1, <1>4 DEF Client!FirstAnswered, Client!Answered, StepInv, MadeInv
    <2>2. ASSUME NEW x \in {"none", "approval", "open"}, Client!Prints(x), iCmd.kind # "recording",
                 Following => x = "approval"
          PROVE  CliInv'
        BY <1>1, <1>p, <1>w, <2>1, <2>2, CliTypes, EndsKeep
    <2>3. CASE iCmd.kind = "call" /\ iThing = "approval"
        BY <1>4, <2>2, <2>3 DEF Client!FirstAnswered
    <2>4. CASE ~(iCmd.kind = "call" /\ iThing = "approval") /\ Posting /\ ~iCmd.waits
        <3>1. Client!Prints("open")
            BY <1>4, <2>4, CommandsAre, Zenon DEF Client!FirstAnswered
        <3> QED BY <2>2, <2>4, <3>1 DEF Following, Posting
    <2>5. CASE ~(iCmd.kind = "call" /\ iThing = "approval") /\ ~(Posting /\ ~iCmd.waits)
        <3>1. \/ Following /\ iCmd.fault # "none" /\ Client!Exit("USAGE")
              \/ Following /\ iCmd.fault = "none" /\ Client!Ask("poll")
              \/ iCmd.kind = "pair" /\ Client!Ask("second")
              \/ iCmd.kind = "recording" /\ iStep' = "write" /\ iReq' = "none" /\ UNCHANGED <<iLate, iCode, iShown, iFile>>
              \/ iCmd.kind \in Client!Reads \cup Client!Changes /\ Client!Prints("none")
            BY <1>4, <2>5, CommandsAre, Zenon DEF Client!FirstAnswered
        <3>2. CASE Client!Exit("USAGE")
            BY <1>1, <1>x, <2>1, <3>2
        <3>3. CASE Following /\ Client!Ask("poll")
            BY <1>1, <1>a, <1>w, <2>1, <3>3, CliTypes, GoesOnKeeps
        <3>4. CASE iCmd.kind = "pair" /\ Client!Ask("second")
            BY <1>1, <1>a, <1>w, <2>1, <3>4, CliTypes, GoesOnKeeps DEF Posting, Changing
        <3>5. CASE iCmd.kind = "recording" /\ iStep' = "write" /\ iReq' = "none" /\ UNCHANGED <<iLate, iCode, iShown, iFile>>
            BY <1>1, <1>w, <2>1, <3>5, CliTypes, GoesOnKeeps
        <3>6. CASE iCmd.kind \in Client!Reads \cup Client!Changes /\ Client!Prints("none")
            BY <2>2, <3>6 DEF Client!Reads, Client!Changes, Following, Posting
        <3> QED BY <3>1, <3>2, <3>3, <3>4, <3>5, <3>6
    <2> QED BY <2>3, <2>4, <2>5
<1>5. CASE Client!SecondAnswered
    <2>1. /\ iStep = "second" /\ UNCHANGED Client!world
          /\ Client!Prints(IF iCmd.kind = "call" THEN "over" ELSE "none")
          /\ (iCmd.kind = "pair" \/ (iCmd.kind = "call" /\ iThing = "over"))
          /\ Posting \/ Changing => iMade = iBefore + 1
        BY <1>1, <1>5 DEF Client!SecondAnswered, Client!Answered, StepInv, MadeInv
    <2> QED BY <1>1, <1>p, <1>w, <2>1, CliTypes, EndsKeep DEF Following, Posting
<1>6. CASE Client!Write
    <2>1. iStep = "write" /\ UNCHANGED Client!world /\ iCmd.kind = "recording" /\ iReq = "none"
        BY <1>1, <1>6 DEF Client!Write, StepInv
    <2>2. CASE Client!Exit("API")
        BY <1>1, <1>x, <2>1, <2>2
    <2>3. CASE iStep' = "done" /\ iCode' = "OK" /\ iFile' = TRUE /\ UNCHANGED <<iReq, iLate, iShown>>
        BY <1>1, <1>n, <1>w, <2>1, <2>3, CliTypes, EndsKeep DEF Following, Posting, Changing
    <2> QED BY <1>6, <2>2, <2>3, Zenon DEF Client!Write
<1>7. CASE Client!PollAnswered
    <2>1. /\ iStep = "poll" /\ iReq = "ok" /\ UNCHANGED Client!world /\ Following
          /\ Posting \/ Changing => iMade = iBefore + 1
          /\ iCmd.fault \notin Client!Early
        BY <1>1, <1>7 DEF Client!PollAnswered, Client!Answered, StepInv, MadeInv
    <2>2. CASE iThing = "over" /\ iCmd.kind = "call" /\ Client!Ask("second")
        BY <1>1, <1>a, <1>w, <2>1, <2>2, CliTypes, GoesOnKeeps
    <2>3. CASE iThing = "over" /\ Client!Prints("over")
        BY <1>1, <1>p, <1>w, <2>1, <2>3, CliTypes, EndsKeep DEF Following, Posting
    <2>4. CASE iStep' = "pause" /\ iReq' = "none" /\ UNCHANGED <<iLate, iCode, iShown, iFile>>
        BY <1>1, <1>w, <2>1, <2>4, CliTypes, GoesOnKeeps
    <2> QED BY <1>7, <2>2, <2>3, <2>4, Zenon DEF Client!PollAnswered
<1>8. CASE Client!Pause
    <2>1. /\ iStep = "pause" /\ UNCHANGED Client!world /\ Following
          /\ Posting \/ Changing => iMade = iBefore + 1
          /\ iCmd.fault \notin Client!Early
          /\ IF iLate THEN Client!Exit("TIMEOUT") ELSE Client!Ask("poll")
        BY <1>1, <1>8 DEF Client!Pause, StepInv, MadeInv
    <2>2. CASE iLate
        BY <1>1, <1>e, <1>n, <1>w, <2>1, <2>2, CliTypes, EndsKeep
    <2>3. CASE ~iLate
        BY <1>1, <1>a, <1>w, <2>1, <2>3, CliTypes, GoesOnKeeps
    <2> QED BY <2>2, <2>3
<1> QED BY <1>2, <1>3, <1>4, <1>5, <1>6, <1>7, <1>8, Zenon DEF Client!Proceed

\* A command is invoked again.
LEMMA InvokeKeeps == ASSUME CliInv, Client!Invoke PROVE CliInv'
<1>1. /\ iStep = "done" /\ iRuns < MaxRuns /\ iRuns' = iRuns + 1 /\ iBefore' = iMade
      /\ iStep' = "start" /\ iLate' = FALSE /\ iCode' = "none" /\ iShown' = "none" /\ iFile' = FALSE
      /\ iThing' \in {"none", iThing} /\ iApp' \in {"up", iApp} /\ UNCHANGED <<iCmd, iMade, iReq>>
    BY DEF Client!Invoke
<1>2. StepInv /\ MadeInv
    BY DEF CliInv
<1>3. iReq = "none"
    BY <1>1, <1>2 DEF StepInv
<1>4. iRuns' \in 1..MaxRuns /\ iMade <= iRuns /\ iMade \in Nat
    BY <1>1, <1>2, CliTypes DEF MadeInv
<1>5. Client!TypeOK'
    <2>1. iThing' \in {"none", "approval", "open", "over"} /\ iApp' \in {"up", "rotated", "down"}
        BY <1>1, CliTypes
    <2>2. {iMade', iBefore', iRuns'} \subseteq 0..MaxRuns
        BY <1>1, <1>4, CliTypes
    <2>3. {iLate', iFile'} \subseteq BOOLEAN
        BY <1>1
    <2> QED BY <1>1, <2>1, <2>2, <2>3, CliTypes, Zenon DEF Client!TypeOK
<1>6. StepInv'
    BY <1>1, <1>3, <1>4 DEF StepInv
<1>7. MadeInv'
    <2>1. iMade' = iBefore' /\ iBefore' \in Nat /\ iRuns' \in Nat /\ iRuns' # 0 /\ iBefore' < iRuns'
        BY <1>1, <1>4, CliTypes
    <2> QED BY <1>1, <2>1, Zenon DEF MadeInv
<1> QED BY <1>1, <1>5, <1>6, <1>7 DEF CliInv, Client!CodesAreTrue

\* What the application does, or time.
LEMMA WorldKeeps ==
  ASSUME CliInv, \/ Client!Expire \/ Client!Serve \/ Client!Deny \/ Client!Break \/ Client!Ends
                 \/ Client!Stop \/ Client!Rotate
  PROVE  CliInv'
<1>1. UNCHANGED <<iCmd, iStep, iCode, iShown, iBefore, iRuns, iFile>>
    BY Zenon DEF Client!Expire, Client!Serve, Client!Deny, Client!Break, Client!Ends, Client!Stop,
       Client!Rotate, Client!world, Client!client
<1>2. StepInv /\ MadeInv /\ Client!CodesAreTrue
    BY DEF CliInv
<1>3. CASE Client!Serve
    <2>1. /\ iReq = "sent" /\ iReq' \in {"error", "ok"} /\ UNCHANGED <<iApp, iLate>>
          /\ \/ iReq' = "error" /\ UNCHANGED <<iMade, iThing>>
             \/ /\ iReq' = "ok" /\ iStep = "first" /\ Posting
                /\ iMade' = iMade + 1 /\ iThing' \in {"open", "approval"}
             \/ /\ iReq' = "ok" /\ ~(iStep = "first" /\ Posting)
                /\ iThing' = iThing /\ iMade' = IF Changing THEN iMade + 1 ELSE iMade
        BY <1>3, CommandsAre DEF Client!Serve, Client!client
    <2>2. iStep \in {"first", "second", "poll"} /\ iCode = "none" /\ iShown = "none" /\ iRuns > 0
        BY <1>2, <2>1 DEF StepInv
    <2>3. Changing => iStep = "first" /\ ~Posting
        BY <1>2, <2>2 DEF StepInv, Changing, Following, Posting
    <2>4. iStep = "first" => iMade = iBefore /\ iBefore < iRuns
        BY <1>2, <2>1, <2>2 DEF MadeInv
    <2>5. iMade' \in 0..MaxRuns
        BY <2>1, <2>3, <2>4, CliTypes
    <2>6. Client!TypeOK'
        BY <1>1, <2>1, <2>5, CliTypes DEF Client!TypeOK
    <2>7. StepInv'
        BY <1>1, <1>2, <2>1, <2>2, SameCommand DEF StepInv
    <2>8. MadeInv'
        BY <1>1, <1>2, <2>1, <2>2, <2>3, <2>4, SameCommand DEF MadeInv
    <2>9. Client!CodesAreTrue'
        BY <1>1, <2>2 DEF Client!CodesAreTrue
    <2> QED BY <2>6, <2>7, <2>8, <2>9 DEF CliInv
<1>4. CASE Client!Expire \/ Client!Deny \/ Client!Break \/ Client!Ends \/ Client!Stop \/ Client!Rotate
    <2>1. /\ iApp' \in {iApp, "down", "rotated"} /\ iMade' = iMade
          /\ iLate' = iLate \/ iLate' = TRUE
          /\ iReq' = iReq \/ (iReq \in {"sent", "ok"} /\ iReq' \in {"unauthorized", "refused", "lost", "cut"})
          /\ iThing' = iThing \/ iThing' = "over" \/ (iThing = "approval" /\ iThing' = "open")
        BY <1>4 DEF Client!Expire, Client!Deny, Client!Break, Client!Ends, Client!Stop,
           Client!Rotate, Client!world, Client!client
    <2>2. Client!TypeOK'
        <3>1. /\ iThing' \in {"none", "approval", "open", "over"} /\ iApp' \in {"up", "rotated", "down"}
              /\ iReq' \in {"none", "sent", "ok", "error", "unauthorized", "refused", "lost", "cut"}
            BY <2>1, CliTypes
        <3>2. {iMade', iBefore', iRuns'} \subseteq 0..MaxRuns
            BY <1>1, <2>1, CliTypes
        <3>3. {iLate', iFile'} \subseteq BOOLEAN
            BY <1>1, <2>1, CliTypes
        <3> QED BY <1>1, <3>1, <3>2, <3>3, CliTypes, Zenon DEF Client!TypeOK
    <2>3. StepInv'
        BY <1>1, <1>2, <2>1, SameCommand DEF StepInv
    <2>4. MadeInv'
        BY <1>1, <1>2, <2>1, SameCommand DEF MadeInv
    <2>5. Client!CodesAreTrue'
        BY <1>1, <1>2, <2>1, SameCommand, CommandsAre DEF Client!CodesAreTrue, StepInv
    <2> QED BY <2>2, <2>3, <2>4, <2>5 DEF CliInv
<1> QED BY <1>3, <1>4

\* Every step of the client keeps the invariant.
LEMMA CliStep == ASSUME CliInv, [Client!Next]_(Client!cliVars) PROVE CliInv'
<1>1. CASE UNCHANGED Client!cliVars
    <2>1. UNCHANGED <<iCmd, iApp, iMade, iThing, iStep, iReq, iLate, iCode, iShown, iBefore, iRuns, iFile>>
        BY <1>1, Zenon DEF Client!cliVars
    <2>a. Client!TypeOK'
        <3>1. {iMade', iBefore', iRuns'} \subseteq 0..MaxRuns /\ {iLate', iFile'} \subseteq BOOLEAN
            BY <2>1, CliTypes
        <3> QED BY <2>1, <3>1, CliTypes DEF Client!TypeOK
    <2>b. Posting' = Posting /\ Following' = Following /\ Changing' = Changing /\ Client!Early' = Client!Early
        BY <2>1, SameCommand
    <2>2. StepInv'
        BY <2>1, <2>b DEF CliInv, StepInv
    <2>3. MadeInv'
        BY <2>1, <2>b DEF CliInv, MadeInv
    <2>4. Client!CodesAreTrue'
        BY <2>1, Zenon DEF CliInv, Client!CodesAreTrue
    <2> QED BY <2>a, <2>2, <2>3, <2>4 DEF CliInv
<1> QED BY <1>1, ProceedKeeps, InvokeKeeps, WorldKeeps, Zenon DEF Client!Next

\* What is promised of the client, of any behaviour of it.
LEMMA CliSafe ==
  Client!Init /\ [][Client!Next]_(Client!cliVars) =>
    [](Client!TypeOK /\ Client!OnePerRun /\ Client!CodesAreTrue) /\ Client!EndIsTaken
<1>1. Client!Init => CliInv
    <2> SUFFICES ASSUME Client!Init PROVE CliInv
        OBVIOUS
    <2>1. /\ iCmd \in [kind : Client!Kinds, waits : BOOLEAN, fault : Client!Faults, local : BOOLEAN]
          /\ iApp \in {"up", "down"} /\ iMade = 0 /\ iThing \in {"none", "open", "over"}
          /\ iStep = "done" /\ iReq = "none" /\ iLate = FALSE /\ iCode = "none" /\ iShown = "none"
          /\ iBefore = 0 /\ iRuns = 0 /\ iFile = FALSE
        BY DEF Client!Init
    <2>2. 0 \in 0..MaxRuns
        BY HostAssumption
    <2>3. Client!TypeOK
        BY <2>1, <2>2 DEF Client!TypeOK
    <2> QED BY <2>1, <2>3 DEF CliInv, StepInv, MadeInv, Client!CodesAreTrue
<1>2. CliInv /\ [Client!Next]_(Client!cliVars) => CliInv'
    BY CliStep
<1>3. CliInv => Client!TypeOK /\ Client!OnePerRun /\ Client!CodesAreTrue
    BY DEF CliInv, MadeInv, Client!OnePerRun
<1>4. [Client!Next]_(Client!cliVars) =>
        [iStep = "poll" /\ iReq = "ok" /\ iThing = "over" => iStep' # "pause"]_(Client!cliVars)
    <2> SUFFICES ASSUME Client!Next, iStep = "poll", iReq = "ok", iThing = "over" PROVE iStep' # "pause"
        BY Zenon
    <2>1. CASE Client!Proceed
        BY <2>1 DEF Client!Proceed, Client!Begin, Client!Failed, Client!FirstAnswered, Client!SecondAnswered,
           Client!Write, Client!PollAnswered, Client!Pause, Client!Answered, Client!Ask, Client!Prints
    <2>2. CASE Client!Invoke
        BY <2>2 DEF Client!Invoke
    <2>3. CASE ~Client!Proceed /\ ~Client!Invoke
        <3>1. iStep' = iStep
            BY <2>3, Zenon DEF Client!Next, Client!Expire, Client!Serve, Client!Deny, Client!Break, Client!Ends,
               Client!Stop, Client!Rotate, Client!world, Client!client
        <3> QED BY <3>1
    <2> QED BY <2>1, <2>2, <2>3
<1> QED BY <1>1, <1>2, <1>3, <1>4, PTL DEF Client!EndIsTaken

-----------------------------------------------------------------------------
(* The calls of the headless host *)

CloudCall == [status : {"none", "ringing", "connected", "ended"}, direction : {"none", "inbound", "outbound"},
              connecting : BOOLEAN, transfer : Handoffs \cup {"none"}, joining : BOOLEAN]

\* The line and the engine, and what was said of each.
CloudTypes ==
  /\ kOptions \in [delayed : BOOLEAN, outcome : {"joined", "failed", "timeout"}, joinDelayed : BOOLEAN]
  /\ kCall \in [PortCalls -> CloudCall] /\ kSeen \subseteq Commands /\ kStopped \in BOOLEAN
  /\ kSnap \in [call : PortCalls \cup {"none"}, status : {"none", "ended", "active", "ringing", "dialing"},
                mode : {"ai", "human"}]
  /\ DOMAIN kHeard = PortCalls \cup Handoffs /\ DOMAIN kReport = PortCalls

\* The engine follows no call but the one it shows, and that while it is up.
EngineInv ==
  /\ kTracked \subseteq {kSnap.call} \cap PortCalls
  /\ ~kStopped /\ kSnap.call # "none" =>
       /\ kSnap.status = Cloud!PhoneStatusFor(kCall[kSnap.call].status, kCall[kSnap.call].direction)
       /\ kReport[kSnap.call] = kSnap.status
       /\ kSnap.call \in kTracked <=> Cloud!Live(kSnap.call)

\* A transfer that is pending is of one call, which is up, and its owner rings.
TransferInv ==
  \A c \in PortCalls : kCall[c].transfer # "none" =>
    /\ Cloud!Live(c) /\ kHeard[kCall[c].transfer] = "owner_ringing"
    /\ \A d \in PortCalls : kCall[d].transfer = kCall[c].transfer => d = c

CloudInv == CloudTypes /\ EngineInv /\ TransferInv

\* What an observation leaves: the engine shows and reports the call, if it
\* follows it.
Noticed(c, event, track) ==
  /\ DOMAIN kHeard' = PortCalls \cup Handoffs
  /\ \A h \in Handoffs : kHeard'[h] = kHeard[h]
  /\ DOMAIN kReport' = PortCalls
  /\ c \notin track \/ kStopped => kSnap' = kSnap /\ kReport' = kReport /\ kTracked' = track
  /\ c \in track /\ ~kStopped =>
       /\ kSnap'.call = c /\ kSnap'.status = Cloud!PhoneStatusFor(event, kCall'[c].direction)
       /\ kReport'[c] = Cloud!PhoneStatusFor(event, kCall'[c].direction)
       /\ kTracked' = (IF event = "ended" THEN track \ {c} ELSE track)
  /\ kSnap' \in [call : PortCalls \cup {"none"}, status : {"none", "ended", "active", "ringing", "dialing"},
                 mode : {"ai", "human"}]

\* What is observed of a call: the engine shows and reports it when it follows it.
LEMMA ObservedIs ==
  ASSUME CloudInv, NEW c \in PortCalls, NEW event \in {"ringing", "connected", "ended"}, NEW track \in SUBSET PortCalls,
         kCall'[c].direction \in {"none", "inbound", "outbound"}, Cloud!Observed(c, event, track)
  PROVE  Noticed(c, event, track)
<1> DEFINE shown == Cloud!PhoneStatusFor(event, kCall'[c].direction)
<1>1. /\ kHeard' = [kHeard EXCEPT ![c] = event]
      /\ kSnap' = IF c \in track /\ ~kStopped THEN [kSnap EXCEPT !.call = c, !.status = shown] ELSE kSnap
      /\ kReport' = IF c \in track /\ ~kStopped THEN [kReport EXCEPT ![c] = shown] ELSE kReport
      /\ kTracked' = IF (c \in track /\ ~kStopped) /\ event = "ended" THEN track \ {c} ELSE track
    BY Zenon DEF Cloud!Observed
<1>2. shown \in {"ended", "active", "ringing", "dialing"}
    BY DEF Cloud!PhoneStatusFor
<1> HIDE DEF shown
<1>3. /\ kSnap \in [call : PortCalls \cup {"none"}, status : {"none", "ended", "active", "ringing", "dialing"},
                    mode : {"ai", "human"}]
      /\ DOMAIN kHeard = PortCalls \cup Handoffs /\ DOMAIN kReport = PortCalls
    BY DEF CloudInv, CloudTypes
<1>4. kSnap' \in [call : PortCalls \cup {"none"}, status : {"none", "ended", "active", "ringing", "dialing"},
                  mode : {"ai", "human"}]
    BY <1>1, <1>2, <1>3
<1>5. \A h \in Handoffs : h # c
    BY PortAssumption
<1>6. DOMAIN kHeard' = PortCalls \cup Handoffs /\ \A h \in Handoffs : kHeard'[h] = kHeard[h]
    BY <1>1, <1>3, <1>5
<1>7. DOMAIN kReport' = PortCalls /\ (c \in track /\ ~kStopped => kReport'[c] = shown)
    BY <1>1, <1>3
<1>8. c \in track /\ ~kStopped => kSnap'.call = c /\ kSnap'.status = shown
    BY <1>1, <1>3
<1> QED BY <1>1, <1>4, <1>6, <1>7, <1>8 DEF shown, Noticed

\* A call changes, and is observed: one that is shown, one that the engine
\* begins to follow, or one that it does not know of.
LEMMA ChangeKeeps ==
  ASSUME CloudInv, NEW c \in PortCalls, NEW event \in {"ringing", "connected", "ended"},
         UNCHANGED <<kOptions, kStopped>>, kSeen' \subseteq Commands,
         kCall' \in [PortCalls -> CloudCall], \A d \in PortCalls : d # c => kCall'[d] = kCall[d],
         kCall'[c].status = event, kCall'[c].transfer \in {"none", kCall[c].transfer},
         event = "ended" => kCall'[c].transfer = "none",
         NEW track \in SUBSET PortCalls, Cloud!Observed(c, event, track),
         \/ track = kTracked /\ (Cloud!Live(c) \/ kReport[c] = "none")
         \/ track = kTracked \cup {c} /\ ~kStopped /\ kTracked = {} /\ event # "ended"
  PROVE  CloudInv'
<1>1. kCall'[c] \in CloudCall /\ kCall'[c].direction \in {"none", "inbound", "outbound"}
    BY DEF CloudCall
<1>2. /\ DOMAIN kHeard' = PortCalls \cup Handoffs
      /\ \A h \in Handoffs : kHeard'[h] = kHeard[h]
      /\ DOMAIN kReport' = PortCalls
      /\ c \notin track \/ kStopped => kSnap' = kSnap /\ kReport' = kReport /\ kTracked' = track
      /\ c \in track /\ ~kStopped =>
           /\ kSnap'.call = c /\ kSnap'.status = Cloud!PhoneStatusFor(event, kCall'[c].direction)
           /\ kReport'[c] = Cloud!PhoneStatusFor(event, kCall'[c].direction)
           /\ kTracked' = (IF event = "ended" THEN track \ {c} ELSE track)
      /\ kSnap' \in [call : PortCalls \cup {"none"}, status : {"none", "ended", "active", "ringing", "dialing"},
                     mode : {"ai", "human"}]
    <2>1. Noticed(c, event, track)
        BY <1>1, ObservedIs, Zenon
    <2> QED BY <2>1, Zenon DEF Noticed
<1>3. CloudTypes'
    BY <1>2 DEF CloudInv, CloudTypes
<1>4. /\ kTracked \subseteq {kSnap.call} \cap PortCalls
      /\ ~kStopped /\ kSnap.call # "none" =>
           /\ kSnap.status = Cloud!PhoneStatusFor(kCall[kSnap.call].status, kCall[kSnap.call].direction)
           /\ kReport[kSnap.call] = kSnap.status
           /\ kSnap.call \in kTracked <=> Cloud!Live(kSnap.call)
      /\ kSnap.call \in PortCalls \cup {"none"} /\ kStopped \in BOOLEAN
    BY DEF CloudInv, EngineInv, CloudTypes
<1>5. Cloud!Live(c)' = (event # "ended")
    BY DEF Cloud!Live
<1>6. \A d \in PortCalls : d # c => Cloud!Live(d)' = Cloud!Live(d)
    BY DEF Cloud!Live
<1>7. EngineInv'
    <2>1. CASE c \in track /\ ~kStopped
        <3>1. track \subseteq {c}
            BY <1>4, <2>1
        <3>2. kTracked' = (IF event = "ended" THEN {} ELSE {c})
            BY <1>2, <2>1, <3>1
        <3> QED BY <1>2, <1>5, <2>1, <3>2 DEF EngineInv
    <2>2. CASE c \notin track \/ kStopped
        <3>1. kSnap' = kSnap /\ kReport' = kReport /\ kTracked' = track
            BY <1>2, <2>2
        <3>2. track = kTracked
            BY <2>2
        <3>3. ~kStopped => c # kSnap.call
            <4>1. ASSUME ~kStopped, c = kSnap.call PROVE FALSE
                <5>1. c # "none" /\ c \notin kTracked
                    BY <2>2, <3>2, <4>1, PortAssumption
                <5>2. kReport[c] = Cloud!PhoneStatusFor(kCall[c].status, kCall[c].direction) /\ ~Cloud!Live(c)
                    BY <1>4, <4>1, <5>1
                <5>3. kReport[c] # "none"
                    BY <5>2 DEF Cloud!PhoneStatusFor
                <5> QED BY <2>2, <5>1, <5>2, <5>3
            <4> QED BY <4>1
        <3>4. ASSUME ~kStopped, kSnap.call # "none"
              PROVE  /\ kCall'[kSnap.call] = kCall[kSnap.call]
                     /\ Cloud!Live(kSnap.call)' = Cloud!Live(kSnap.call)
            <4>1. kSnap.call \in PortCalls /\ kSnap.call # c
                BY <1>4, <3>3, <3>4
            <4>2. kCall'[kSnap.call] = kCall[kSnap.call]
                BY <4>1
            <4>3. Cloud!Live(kSnap.call)' = (kCall'[kSnap'.call].status \in {"ringing", "connected"})
                BY DEF Cloud!Live
            <4> QED BY <3>1, <4>2, <4>3 DEF Cloud!Live
        <3> QED BY <1>4, <3>1, <3>2, <3>4 DEF EngineInv
    <2> QED BY <2>1, <2>2
<1>8. TransferInv'
    <2>1. ASSUME NEW d \in PortCalls, kCall'[d].transfer # "none"
          PROVE  /\ kCall'[d].transfer = kCall[d].transfer /\ Cloud!Live(d)'
                 /\ kCall[d].transfer \in Handoffs
        <3>1. kCall \in [PortCalls -> CloudCall]
            BY DEF CloudInv, CloudTypes
        <3>2. kCall'[d].transfer = kCall[d].transfer /\ (d = c => event # "ended")
            BY <2>1
        <3>3. kCall[d].transfer \in Handoffs
            BY <2>1, <3>1, <3>2 DEF CloudCall
        <3>4. Cloud!Live(d)
            BY <2>1, <3>2, Zenon DEF CloudInv, TransferInv
        <3>5. Cloud!Live(d)'
            <4>1. CASE d = c
                BY <1>5, <3>2, <4>1
            <4>2. CASE d # c
                BY <1>6, <3>4, <4>2
            <4> QED BY <4>1, <4>2
        <3> QED BY <3>2, <3>3, <3>5
    <2> QED BY <1>2, <2>1 DEF CloudInv, TransferInv
<1> QED BY <1>3, <1>7, <1>8 DEF CloudInv

\* A call that is ended.
LEMMA EndsCall ==
  ASSUME CloudInv, NEW c \in PortCalls, Cloud!Live(c), Cloud!Ended(c), UNCHANGED <<kOptions, kStopped>>, kSeen' \subseteq Commands
  PROVE  CloudInv'
<1>1. kCall' = [kCall EXCEPT ![c] = [Cloud!NoCall EXCEPT !.status = "ended", !.direction = kCall[c].direction]]
      /\ Cloud!Observed(c, "ended", kTracked)
    BY Zenon DEF Cloud!Ended
<1>2. kCall \in [PortCalls -> CloudCall] /\ kCall[c] \in CloudCall /\ kTracked \subseteq PortCalls
    BY DEF CloudInv, CloudTypes, EngineInv
<1> DEFINE e == [Cloud!NoCall EXCEPT !.status = "ended", !.direction = kCall[c].direction]
<1>3. e \in CloudCall /\ e.status = "ended" /\ e.transfer = "none"
    BY <1>2 DEF Cloud!NoCall, CloudCall, Cloud!None
<1> HIDE DEF e
<1>4. /\ kCall' \in [PortCalls -> CloudCall] /\ kCall'[c] = e
      /\ \A d \in PortCalls : d # c => kCall'[d] = kCall[d]
    BY <1>1, <1>2, <1>3 DEF e
<1> QED BY <1>1, <1>2, <1>3, <1>4, ChangeKeeps

\* A call that is answered.
LEMMA AnswersCall ==
  ASSUME CloudInv, NEW c \in PortCalls, kCall[c].status = "ringing", Cloud!Answered(c), UNCHANGED <<kOptions, kStopped>>,
         kSeen' \subseteq Commands
  PROVE  CloudInv'
<1>1. kCall' = [kCall EXCEPT ![c].status = "connected", ![c].connecting = FALSE]
      /\ Cloud!Observed(c, "connected", kTracked)
    BY Zenon DEF Cloud!Answered
<1>2. kCall \in [PortCalls -> CloudCall] /\ kCall[c] \in CloudCall /\ kTracked \subseteq PortCalls
    BY DEF CloudInv, CloudTypes, EngineInv
<1>3. kCall' = [kCall EXCEPT ![c] = [kCall[c] EXCEPT !.status = "connected", !.connecting = FALSE]]
    BY <1>1, <1>2
<1> DEFINE e == [kCall[c] EXCEPT !.status = "connected", !.connecting = FALSE]
<1>4. e \in CloudCall /\ e.status = "connected" /\ e.transfer = kCall[c].transfer
    BY <1>2 DEF CloudCall
<1> HIDE DEF e
<1>5. /\ kCall' \in [PortCalls -> CloudCall] /\ kCall'[c] = e
      /\ \A d \in PortCalls : d # c => kCall'[d] = kCall[d]
    BY <1>2, <1>3, <1>4 DEF e
<1>6. Cloud!Live(c)
    BY DEF Cloud!Live
<1> QED BY <1>1, <1>2, <1>4, <1>5, <1>6, ChangeKeeps

\* A call that is placed, by the engine or by a client of the port.
LEMMA PlacesCall ==
  ASSUME CloudInv, NEW c \in PortCalls, NEW direction \in {"inbound", "outbound"}, NEW track \in SUBSET PortCalls,
         Cloud!Placed(c, direction, track), UNCHANGED <<kOptions, kStopped>>, kSeen' \subseteq Commands,
         \/ track = kTracked /\ kReport[c] = "none"
         \/ track = kTracked \cup {c} /\ ~kStopped /\ kTracked = {}
  PROVE  CloudInv'
<1> DEFINE now == IF direction = "outbound" /\ ~kOptions.delayed THEN "connected" ELSE "ringing"
           e == [Cloud!NoCall EXCEPT !.status = now, !.direction = direction,
                                     !.connecting = direction = "outbound" /\ kOptions.delayed]
<1>1. kCall' = [kCall EXCEPT ![c] = e] /\ Cloud!Observed(c, now, track)
    BY Zenon DEF Cloud!Placed
<1>2. kCall \in [PortCalls -> CloudCall] /\ kOptions.delayed \in BOOLEAN
    BY DEF CloudInv, CloudTypes
<1>3. now \in {"ringing", "connected"}
    OBVIOUS
<1>4. e \in CloudCall /\ e.status = now /\ e.transfer = "none"
    BY <1>2 DEF Cloud!NoCall, CloudCall, Cloud!None
<1> HIDE DEF e, now
<1>5. /\ kCall' \in [PortCalls -> CloudCall] /\ kCall'[c] = e
      /\ \A d \in PortCalls : d # c => kCall'[d] = kCall[d]
    BY <1>1, <1>2, <1>4
<1> QED BY <1>1, <1>3, <1>4, <1>5, ChangeKeeps

\* The transfer of a call becomes t, and said is heard of the handoff h.
Turned(c, t, j, h, said) ==
  /\ t \in Handoffs \cup {"none"} /\ j \in BOOLEAN /\ h \in Handoffs
  /\ kCall' = [kCall EXCEPT ![c].transfer = t, ![c].joining = j] /\ kHeard' = [kHeard EXCEPT ![h] = said]
  /\ UNCHANGED <<kOptions, kTracked, kSnap, kReport, kStopped>> /\ kSeen' \subseteq Commands
  /\ t # "none" => t = h /\ said = "owner_ringing" /\ Cloud!Live(c)
  /\ \A d \in PortCalls : kCall[d].transfer = h => d = c /\ t = "none"

\* A transfer is asked for, or decided: the call stays what it is.
LEMMA TransferKeeps ==
  ASSUME CloudInv, NEW c \in PortCalls, NEW t, NEW j, NEW h, NEW said, Turned(c, t, j, h, said)
  PROVE  CloudInv'
<1> USE DEF Turned
<1>1. kCall \in [PortCalls -> CloudCall] /\ kCall[c] \in CloudCall
      /\ DOMAIN kHeard = PortCalls \cup Handoffs
    BY DEF CloudInv, CloudTypes
<1>2. kCall' = [kCall EXCEPT ![c] = [kCall[c] EXCEPT !.transfer = t, !.joining = j]]
    BY <1>1
<1> DEFINE e == [kCall[c] EXCEPT !.transfer = t, !.joining = j]
<1>3. e \in CloudCall /\ e.status = kCall[c].status /\ e.direction = kCall[c].direction /\ e.transfer = t
    BY <1>1 DEF CloudCall
<1> HIDE DEF e
<1>4. /\ kCall' \in [PortCalls -> CloudCall] /\ kCall'[c] = e
      /\ \A d \in PortCalls : d # c => kCall'[d] = kCall[d]
    BY <1>1, <1>2, <1>3 DEF e
<1>5. DOMAIN kHeard' = PortCalls \cup Handoffs /\ \A g \in Handoffs : kHeard'[g] = IF g = h THEN said ELSE kHeard[g]
    BY <1>1
<1>6. \A d \in PortCalls : kCall'[d].status = kCall[d].status /\ kCall'[d].direction = kCall[d].direction
    BY <1>3, <1>4
<1>7. \A d \in PortCalls : Cloud!Live(d)' = Cloud!Live(d)
    BY <1>6 DEF Cloud!Live
<1>8. CloudTypes'
    BY <1>4, <1>5 DEF CloudInv, CloudTypes
<1>9. EngineInv'
    <2>1. kSnap.call \in PortCalls \cup {"none"}
        BY DEF CloudInv, CloudTypes
    <2>2. kSnap.call # "none" => Cloud!Live(kSnap.call)' = Cloud!Live(kSnap.call)
        <3>1. Cloud!Live(kSnap.call)' = (kCall'[kSnap'.call].status \in {"ringing", "connected"})
            BY DEF Cloud!Live
        <3> QED BY <1>6, <2>1, <3>1 DEF Cloud!Live
    <2> QED BY <1>6, <2>1, <2>2 DEF CloudInv, EngineInv
<1>10. TransferInv'
    <2>1. \A d \in PortCalls : kCall'[d].transfer = IF d = c THEN t ELSE kCall[d].transfer
        BY <1>3, <1>4
    <2>2. \A d \in PortCalls : kCall[d].transfer \in Handoffs \cup {"none"}
        BY <1>1 DEF CloudCall
    <2>3. \A d \in PortCalls : kCall[d].transfer # "none" => Cloud!Live(d) /\ kHeard[kCall[d].transfer] = "owner_ringing"
        BY DEF CloudInv, TransferInv
    <2>4. \A d, g \in PortCalls : kCall[d].transfer # "none" /\ kCall[g].transfer = kCall[d].transfer => d = g
        BY DEF CloudInv, TransferInv
    <2>5. ASSUME NEW d \in PortCalls, kCall'[d].transfer # "none"
          PROVE  Cloud!Live(d)' /\ kHeard'[kCall'[d].transfer] = "owner_ringing"
        BY <1>5, <1>7, <2>1, <2>2, <2>3, <2>5
    <2>6. ASSUME NEW d \in PortCalls, kCall'[d].transfer # "none", NEW g \in PortCalls,
                 kCall'[g].transfer = kCall'[d].transfer
          PROVE  g = d
        BY <2>1, <2>4, <2>6
    <2> QED BY <2>5, <2>6 DEF TransferInv
<1> QED BY <1>8, <1>9, <1>10 DEF CloudInv

\* What a transfer that is decided was.
LEMMA DecidesIs ==
  ASSUME CloudInv, NEW c \in PortCalls, NEW outcome, Cloud!OwnerDecides(c, outcome)
  PROVE  /\ kCall[c].transfer \in Handoffs /\ Cloud!Live(c) /\ kHeard[kCall[c].transfer] = "owner_ringing"
         /\ kHeard' = [kHeard EXCEPT ![kCall[c].transfer] = outcome]
         /\ kCall' = [kCall EXCEPT ![c].transfer = "none", ![c].joining = FALSE]
         /\ \A d \in PortCalls : kCall[d].transfer = kCall[c].transfer => d = c
         /\ UNCHANGED <<kOptions, kSeen, kTracked, kSnap, kReport, kStopped>>
<1>1. /\ kCall[c].transfer # "none" /\ kHeard' = [kHeard EXCEPT ![kCall[c].transfer] = outcome]
      /\ kCall' = [kCall EXCEPT ![c].transfer = "none", ![c].joining = FALSE]
      /\ UNCHANGED <<kOptions, kSeen, kTracked, kSnap, kReport, kStopped>>
    BY Zenon DEF Cloud!OwnerDecides, Cloud!None
<1>2. kCall[c].transfer \in Handoffs
    BY <1>1 DEF CloudInv, CloudTypes, CloudCall
<1>3. /\ Cloud!Live(c) /\ kHeard[kCall[c].transfer] = "owner_ringing"
      /\ \A d \in PortCalls : kCall[d].transfer = kCall[c].transfer => d = c
    BY <1>1 DEF CloudInv, TransferInv
<1> QED BY <1>1, <1>2, <1>3

\* What a transfer that is asked for does.
LEMMA TransferIs ==
  ASSUME CloudInv, NEW c \in PortCalls, NEW id \in Commands, NEW h \in Handoffs, Cloud!Transfer(c, id, h)
  PROVE  /\ CloudInv' /\ kHeard[h] = "none" /\ kReport' = kReport
         /\ \A g \in Handoffs : g # h => kHeard'[g] = kHeard[g]
<1> DEFINE now == kOptions.outcome # "timeout" /\ ~kOptions.joinDelayed
           waits == kOptions.outcome # "timeout" /\ kOptions.joinDelayed
           t == IF now THEN "none" ELSE h
           said == IF now THEN kOptions.outcome ELSE "owner_ringing"
<1>1. /\ kCall[c].status = "connected" /\ kHeard[h] = "none" /\ kSeen' = kSeen \cup {id}
      /\ kCall' = [kCall EXCEPT ![c].transfer = t, ![c].joining = waits]
      /\ kHeard' = [kHeard EXCEPT ![h] = said]
      /\ UNCHANGED <<kOptions, kTracked, kSnap, kReport, kStopped>>
    BY Zenon DEF Cloud!Transfer, Cloud!None
<1>2. waits \in BOOLEAN /\ t \in Handoffs \cup {"none"} /\ kSeen' \subseteq Commands
    BY <1>1 DEF CloudInv, CloudTypes
<1>3. t # "none" => t = h /\ said = "owner_ringing" /\ Cloud!Live(c)
    BY <1>1 DEF Cloud!Live
<1>4. \A d \in PortCalls : kCall[d].transfer # h
    BY <1>1, PortAssumption DEF CloudInv, TransferInv
<1> HIDE DEF now, waits, t, said
<1>5. CloudInv'
    <2>1. Turned(c, t, waits, h, said)
        BY <1>1, <1>2, <1>3, <1>4, Zenon DEF Turned
    <2> QED BY <2>1, TransferKeeps, Zenon
<1>6. \A g \in Handoffs : g # h => kHeard'[g] = kHeard[g]
    BY <1>1 DEF CloudInv, CloudTypes
<1> QED BY <1>1, <1>5, <1>6

\* The observation of a call says nothing of a transfer, and writes nothing once
\* the engine is disposed of.
LEMMA ObservedQuiet ==
  ASSUME CloudInv, NEW c \in PortCalls, NEW event, NEW track, Cloud!Observed(c, event, track)
  PROVE  (\A h \in Handoffs : kHeard'[h] = kHeard[h]) /\ (kStopped => kReport' = kReport)
<1>1. kHeard' = [kHeard EXCEPT ![c] = event] /\ (kStopped => kReport' = kReport)
    BY Zenon DEF Cloud!Observed
<1>2. \A h \in Handoffs : h # c
    BY PortAssumption
<1> QED BY <1>1, <1>2 DEF CloudInv, CloudTypes

\* A step keeps the invariant, gives a handoff no second outcome, and writes
\* nothing once the engine is disposed of.
Quiet ==
  /\ \A h \in Handoffs : kHeard[h] # kHeard'[h] =>
       \/ kHeard[h] = "none"
       \/ kHeard[h] = "owner_ringing" /\ \E c \in PortCalls : kCall[c].transfer = h /\ Cloud!Live(c)
  /\ kStopped => kReport' = kReport

\* Every step does so.
LEMMA CloudStep == ASSUME CloudInv, [Cloud!Next]_(Cloud!vars) PROVE CloudInv' /\ Quiet
<1>t. kSeen \subseteq Commands /\ kTracked \subseteq PortCalls /\ kStopped \in BOOLEAN
    BY DEF CloudInv, CloudTypes, EngineInv
<1>1. ASSUME NEW c \in PortCalls, Cloud!EngineDial(c) PROVE CloudInv' /\ Quiet
    <2>1. /\ ~kStopped /\ ~Cloud!ShownLive /\ kCall[c].status = "none" /\ UNCHANGED <<kOptions, kSeen, kStopped>>
          /\ \E direction \in {"outbound", "inbound"} : Cloud!Placed(c, direction, kTracked \cup {c})
        BY <1>1, Zenon DEF Cloud!EngineDial, Cloud!None
    <2>2. PICK direction \in {"outbound", "inbound"} : Cloud!Placed(c, direction, kTracked \cup {c})
        BY <2>1
    <2>3. kTracked = {}
        <3>1. kSnap.call = "none" \/ kSnap.status = "ended"
            BY <2>1 DEF Cloud!ShownLive, Cloud!None
        <3>2. kSnap.call # "none" => ~Cloud!Live(kSnap.call)
            BY <2>1, <3>1 DEF CloudInv, EngineInv, Cloud!PhoneStatusFor, Cloud!Live
        <3> QED BY <2>1, <3>2, PortAssumption DEF CloudInv, EngineInv
    <2>4. CloudInv'
        BY <1>t, <2>1, <2>2, <2>3, PlacesCall
    <2>5. Quiet
        <3>1. \E e, tr : Cloud!Observed(c, e, tr)
            BY <2>2, Zenon DEF Cloud!Placed
        <3> QED BY <3>1, ObservedQuiet DEF Quiet
    <2> QED BY <2>4, <2>5
<1>2. ASSUME NEW c \in PortCalls, Cloud!Live(c), Cloud!Ended(c), UNCHANGED <<kOptions, kStopped>>, kSeen' \subseteq Commands
      PROVE  CloudInv' /\ Quiet
    <2>1. Cloud!Observed(c, "ended", kTracked)
        BY <1>2, Zenon DEF Cloud!Ended
    <2> QED BY <1>2, <2>1, EndsCall, ObservedQuiet DEF Quiet
<1>3. ASSUME NEW c \in PortCalls, kCall[c].status = "ringing", Cloud!Answered(c), UNCHANGED <<kOptions, kStopped>>,
             kSeen' \subseteq Commands
      PROVE  CloudInv' /\ Quiet
    <2>1. Cloud!Observed(c, "connected", kTracked)
        BY <1>3, Zenon DEF Cloud!Answered
    <2> QED BY <1>3, <2>1, AnswersCall, ObservedQuiet DEF Quiet
<1>4. CASE Cloud!EngineHangup
    <2>1. kSnap.call \in PortCalls
        BY <1>4 DEF Cloud!EngineHangup, Cloud!ShownLive, Cloud!None, CloudInv, CloudTypes
    <2> QED BY <1>2, <1>4, <1>t, <2>1 DEF Cloud!EngineHangup
<1>5. CASE Cloud!EngineAnswer
    <2>1. kSnap.call \in PortCalls
        BY <1>5 DEF Cloud!EngineAnswer, Cloud!ShownLive, Cloud!None, CloudInv, CloudTypes
    <2> QED BY <1>3, <1>5, <1>t, <2>1 DEF Cloud!EngineAnswer, Cloud!CanAnswer
<1>6. ASSUME UNCHANGED <<kOptions, kCall, kTracked, kHeard, kReport>>, kStopped' \in {kStopped, TRUE},
             kSeen' \subseteq Commands, kSnap'.call = kSnap.call, kSnap'.status = kSnap.status,
             kSnap' \in [call : PortCalls \cup {"none"}, status : {"none", "ended", "active", "ringing", "dialing"},
                         mode : {"ai", "human"}]
      PROVE  CloudInv' /\ Quiet
    <2>1. CloudTypes'
        BY <1>6, <1>t DEF CloudInv, CloudTypes
    <2>2. \A d : Cloud!Live(d)' = (kCall[d'].status \in {"ringing", "connected"})
        BY <1>6 DEF Cloud!Live
    <2>3. EngineInv'
        <3>1. Cloud!Live(kSnap.call)' = (kCall'[kSnap'.call].status \in {"ringing", "connected"})
            BY DEF Cloud!Live
        <3>2. Cloud!Live(kSnap.call)' = Cloud!Live(kSnap.call)
            BY <1>6, <3>1 DEF Cloud!Live
        <3>3. ~kStopped' => ~kStopped
            BY <1>6
        <3> QED BY <1>6, <3>2, <3>3 DEF CloudInv, EngineInv
    <2>4. TransferInv'
        BY <1>6 DEF CloudInv, TransferInv, Cloud!Live
    <2> QED BY <1>6, <2>1, <2>3, <2>4 DEF CloudInv, Quiet
<1>7. CASE Cloud!SetControlMode \/ Cloud!Stop \/ UNCHANGED Cloud!vars
    <2>1. /\ UNCHANGED <<kOptions, kCall, kTracked, kHeard, kReport>> /\ kStopped' \in {kStopped, TRUE}
          /\ kSeen' = kSeen
        BY <1>7, Zenon DEF Cloud!SetControlMode, Cloud!Stop, Cloud!vars
    <2>2. kSnap \in [call : PortCalls \cup {"none"}, status : {"none", "ended", "active", "ringing", "dialing"},
                     mode : {"ai", "human"}]
        BY DEF CloudInv, CloudTypes
    <2>3. kSnap' = kSnap \/ \E mode \in {"ai", "human"} : kSnap' = [kSnap EXCEPT !.mode = mode]
        BY <1>7, Zenon DEF Cloud!SetControlMode, Cloud!Stop, Cloud!vars
    <2>4. /\ kSnap'.call = kSnap.call /\ kSnap'.status = kSnap.status
          /\ kSnap' \in [call : PortCalls \cup {"none"}, status : {"none", "ended", "active", "ringing", "dialing"},
                         mode : {"ai", "human"}]
        BY <2>2, <2>3
    <2> QED BY <1>6, <1>t, <2>1, <2>4
<1>8. ASSUME NEW c \in PortCalls, NEW id \in Commands, Cloud!PortDial(c, id) PROVE CloudInv' /\ Quiet
    <2>1. /\ kReport[c] = "none" /\ kSeen' = kSeen \cup {id} /\ Cloud!Placed(c, "outbound", kTracked)
          /\ UNCHANGED <<kOptions, kStopped>>
        BY <1>8, Zenon DEF Cloud!PortDial, Cloud!None
    <2>2. CloudInv'
        BY <1>t, <2>1, PlacesCall
    <2>3. \E e, tr : Cloud!Observed(c, e, tr)
        BY <2>1, Zenon DEF Cloud!Placed
    <2> QED BY <2>2, <2>3, ObservedQuiet DEF Quiet
<1>9. ASSUME NEW c \in PortCalls, NEW id \in Commands, Cloud!PortAnswer(c, id) \/ Cloud!PortReject(c, id) \/ Cloud!PortHangup(c, id)
      PROVE  CloudInv' /\ Quiet
    <2>1. kSeen' = kSeen \cup {id} /\ UNCHANGED <<kOptions, kStopped>>
        BY <1>9, Zenon DEF Cloud!PortAnswer, Cloud!PortReject, Cloud!PortHangup
    <2>2. \/ kCall[c].status = "ringing" /\ Cloud!Answered(c)
          \/ Cloud!Live(c) /\ Cloud!Ended(c)
          \/ UNCHANGED <<kCall, kTracked, kSnap, kHeard, kReport>>
        BY <1>9 DEF Cloud!PortAnswer, Cloud!PortReject, Cloud!PortHangup, Cloud!CanAnswer, Cloud!Live
    <2>3. kSeen' \subseteq Commands
        BY <1>t, <2>1
    <2>4. kSnap \in [call : PortCalls \cup {"none"}, status : {"none", "ended", "active", "ringing", "dialing"},
                     mode : {"ai", "human"}]
        BY DEF CloudInv, CloudTypes
    <2> QED BY <1>2, <1>3, <1>6, <2>1, <2>2, <2>3, <2>4
<1>10. ASSUME NEW c \in PortCalls, NEW id \in Commands, NEW h \in Handoffs, Cloud!Transfer(c, id, h)
       PROVE  CloudInv' /\ Quiet
    BY <1>10, TransferIs DEF Quiet
<1>11. ASSUME NEW c \in PortCalls, NEW outcome, Cloud!OwnerDecides(c, outcome) PROVE CloudInv' /\ Quiet
    <2>1. /\ kCall[c].transfer \in Handoffs /\ Cloud!Live(c) /\ kHeard[kCall[c].transfer] = "owner_ringing"
          /\ kHeard' = [kHeard EXCEPT ![kCall[c].transfer] = outcome]
          /\ kCall' = [kCall EXCEPT ![c].transfer = "none", ![c].joining = FALSE]
          /\ \A d \in PortCalls : kCall[d].transfer = kCall[c].transfer => d = c
          /\ UNCHANGED <<kOptions, kSeen, kTracked, kSnap, kReport, kStopped>>
        BY <1>11, DecidesIs
    <2> DEFINE h == kCall[c].transfer
    <2>2. h \in Handoffs /\ kHeard' = [kHeard EXCEPT ![h] = outcome] /\ \A d \in PortCalls : kCall[d].transfer = h => d = c
        BY <2>1
    <2>3. \A g \in Handoffs : g # h => kHeard'[g] = kHeard[g]
        BY <2>2 DEF CloudInv, CloudTypes
    <2>4. Quiet
        BY <2>1, <2>3 DEF Quiet
    <2> HIDE DEF h
    <2>6. /\ "none" \in Handoffs \cup {"none"} /\ FALSE \in BOOLEAN /\ kSeen' \subseteq Commands
          /\ UNCHANGED <<kOptions, kTracked, kSnap, kReport, kStopped>>
        BY <1>t, <2>1
    <2>5. CloudInv'
        <3>1. Turned(c, "none", FALSE, h, outcome)
            BY <1>t, <2>1, <2>2, <2>6, Zenon DEF Turned
        <3> QED BY <3>1, TransferKeeps, Zenon
    <2> QED BY <2>4, <2>5
<1>12. ASSUME NEW c \in PortCalls, Cloud!ConnectTimer(c) PROVE CloudInv' /\ Quiet
    BY <1>3, <1>12, <1>t DEF Cloud!ConnectTimer
<1>13. ASSUME NEW c \in PortCalls, Cloud!JoinTimer(c) \/ Cloud!TransferTimeout(c) PROVE CloudInv' /\ Quiet
    BY <1>11, <1>13, Zenon DEF Cloud!JoinTimer, Cloud!TransferTimeout
<1> QED BY <1>1, <1>4, <1>5, <1>7, <1>8, <1>9, <1>10, <1>12, <1>13, Zenon DEF Cloud!Next

\* What is promised of the calls of the headless host, of any behaviour of it.
LEMMA CloudSafe ==
  Cloud!Init /\ [][Cloud!Next]_(Cloud!vars) =>
    /\ [](Cloud!TypeOK /\ Cloud!ShownIsReal /\ Cloud!OneEngineCall)
    /\ Cloud!OneOutcome /\ Cloud!QuietWhenStopped
<1>1. Cloud!Init => CloudInv
    <2> SUFFICES ASSUME Cloud!Init PROVE CloudInv
        OBVIOUS
    <2>1. /\ kOptions \in [delayed : BOOLEAN, outcome : {"joined", "failed", "timeout"}, joinDelayed : BOOLEAN]
          /\ kCall = [c \in PortCalls |-> Cloud!NoCall] /\ kSeen = {} /\ kTracked = {} /\ kStopped = FALSE
          /\ kSnap = [call |-> "none", status |-> "none", mode |-> "ai"]
          /\ kHeard = [x \in PortCalls \cup Handoffs |-> "none"] /\ kReport = [c \in PortCalls |-> "none"]
        BY Zenon DEF Cloud!Init, Cloud!None
    <2>2. Cloud!NoCall \in CloudCall /\ Cloud!NoCall.transfer = "none"
        BY DEF Cloud!NoCall, CloudCall, Cloud!None
    <2>3. \A c \in PortCalls : kCall[c].transfer = "none"
        BY <2>1, <2>2
    <2>4. kCall \in [PortCalls -> CloudCall]
        BY <2>1, <2>2
    <2>5. CloudTypes
        BY <2>1, <2>4 DEF CloudTypes
    <2> QED BY <2>1, <2>3, <2>5 DEF CloudInv, EngineInv, TransferInv
<1>2. CloudInv /\ [Cloud!Next]_(Cloud!vars) => CloudInv'
    BY CloudStep
<1>3. CloudInv => Cloud!TypeOK /\ Cloud!ShownIsReal /\ Cloud!OneEngineCall
    <2> SUFFICES ASSUME CloudInv PROVE Cloud!TypeOK /\ Cloud!ShownIsReal /\ Cloud!OneEngineCall
        OBVIOUS
    <2>1. Cloud!TypeOK
        BY DEF CloudInv, CloudTypes, EngineInv, CloudCall, Cloud!TypeOK, Cloud!None
    <2>2. Cloud!ShownIsReal
        BY DEF CloudInv, EngineInv, Cloud!ShownIsReal, Cloud!None, Cloud!Live
    <2>3. Cloud!OneEngineCall
        <3> DEFINE S == {c \in kTracked : Cloud!Live(c)}
        <3>1. S \subseteq {kSnap.call}
            BY DEF CloudInv, EngineInv
        <3>2. IsFiniteSet({kSnap.call}) /\ Cardinality({kSnap.call}) = 1
            BY FS_Singleton
        <3>3. Cardinality(S) <= 1 /\ Cardinality(S) \in Nat
            BY <3>1, <3>2, FS_Subset, FS_CardinalityType
        <3>4. Cloud!Cardinality(S) = Cardinality(S)
            BY Zenon DEF Cloud!Cardinality, Cardinality
        <3> QED BY <3>3, <3>4 DEF Cloud!OneEngineCall
    <2> QED BY <2>1, <2>2, <2>3
<1>4. CloudInv /\ [Cloud!Next]_(Cloud!vars) => [Quiet]_(Cloud!vars)
    BY CloudStep
<1>5. [Quiet]_(Cloud!vars) =>
        /\ [\A h \in Handoffs : kHeard[h] # kHeard'[h] =>
              \/ kHeard[h] = "none"
              \/ kHeard[h] = "owner_ringing" /\ \E c \in PortCalls : kCall[c].transfer = h /\ Cloud!Live(c)]_(Cloud!vars)
        /\ [kStopped => kReport' = kReport]_(Cloud!vars)
    BY Zenon DEF Quiet
<1> QED BY <1>1, <1>2, <1>3, <1>4, <1>5, PTL DEF Cloud!OneOutcome, Cloud!QuietWhenStopped, Cloud!None

-----------------------------------------------------------------------------
(* Orders to the phone of the desktop *)

\* What the phone shows, what the renderer sends of it, and a command that was issued.
PhoneStatus == {s \in [id : Port!Ports, st : {"none", "calling", "ringing", "active", "ended"}] : s.st = "none" <=> s.id = 0}
PhoneMessage == [of : 0..MaxIssues, ok : BOOLEAN, phone : PhoneStatus]
PhoneIssue ==
  [cmd : Port!Orders, pc : {"new", "waiting", "done", "moot", "failed", "repeated"}, at : {"none", "sent", "acted"},
   for : Port!Ports]

\* A status that is not earlier than another; the messages under way; and the
\* statuses that the phone shows, that are under way and that were received.
NotBefore(s, t) == t.id > s.id \/ (t.id = s.id /\ Port!Rank(t) >= Port!Rank(s))
Said == {dUp[k] : k \in 1..Len(dUp)}
ShownOf == {dLatest, dPhone} \cup {m.phone : m \in Said}

\* The statuses go on: from the last that was received, through those under way,
\* to the one shown.
PhoneInv ==
  /\ dPhone \in PhoneStatus /\ dRings \in 0..MaxRings /\ dUp \in Seq(PhoneMessage)
  /\ dLatest \in PhoneStatus \cup {Port!Unpublished}
  /\ \A s \in ShownOf : s.id <= dRings
  /\ \A k, l \in 1..Len(dUp) : k < l => NotBefore(dUp[k].phone, dUp[l].phone)
  /\ \A m \in Said : NotBefore(m.phone, dPhone)
  /\ dLatest # Port!Unpublished =>
       NotBefore(dLatest, dPhone) /\ \A m \in Said : NotBefore(dLatest, m.phone)

\* What the port notes of commands, calls and loads has its type.
OrderTypes ==
  /\ dSeen \subseteq Port!Orders /\ dBound \in [Port!Ports -> Port!Ports] /\ dIssue \in [Port!Issues -> PhoneIssue]
  /\ dLoads \in 0..MaxLoads /\ dLast \in PhoneStatus \cup {Port!Unpublished} /\ dOwn \in Port!Ports
  /\ dShadowed \in BOOLEAN
  /\ dLast.id <= dRings /\ dOwn <= dRings /\ dBound[0] <= dRings
  /\ \A i \in Port!Issues : dIssue[i].for <= dRings

Under(i) == dIssue[i].pc \in {"waiting", "done", "moot"}

\* Commands are issued in turn; one that the renderer has to act on has no
\* result under way; the id of one that waits or went well is noted.
OrderInv ==
  /\ \A i \in Port!Issues : dIssue[i].at # "none" => dIssue[i].pc \in {"waiting", "failed"} /\ \A m \in Said : m.of # i
  /\ \A m \in Said : m.of # 0 => dIssue[m.of].pc # "new"
  /\ \A i, j \in Port!Issues : i < j /\ dIssue[j].pc # "new" => dIssue[i].pc # "new"
  /\ \A i \in Port!Issues : Under(i) => dIssue[i].cmd \in dSeen
  /\ \A i, j \in Port!Issues : i < j /\ dIssue[i].cmd = dIssue[j].cmd /\ Under(i) => dIssue[j].pc \in {"new", "repeated"}

\* A call that may be taken for the one the port dialled: it is that one, one
\* before it, one that crossed a command, or the port took another for its own.
Known(x) == x <= dOwn \/ x \in dCrossed \/ 0 \in dLoose
Heeds(i) == (dIssue[i].cmd[1] = "hangup" /\ dIssue[i].at # "none") \/ (dIssue[i].cmd[1] = "dial" /\ dIssue[i].at = "acted")
StrayInv ==
  /\ dStray = {} /\ (dPhone.id = 0 \/ dPhone.id >= dOwn) /\ Known(dBound[0])
  /\ \A i \in Port!Issues : Heeds(i) => Known(dPhone.id)
  /\ \A m \in Said : m.of # 0 /\ m.ok /\ dIssue[m.of].cmd[1] \in {"dial", "hangup"} => Known(m.phone.id)

\* A hangup that the renderer acted on has ended its call.
OverInv ==
  \A i \in Port!Issues :
    /\ dIssue[i].cmd[1] = "hangup"
    /\ dIssue[i].at = "acted" \/ dIssue[i].pc = "done" \/ \E m \in Said : m.of = i /\ m.ok
    => ~(Port!Live(dPhone) /\ dPhone.id = dIssue[i].for)

\* Why the dialled call may be said to connect first, and that it rang.
Fails == \E i \in Port!Issues : dIssue[i].cmd[1] = "dial" /\ dIssue[i].pc = "failed"
Excused == dShadowed \/ 0 \in dLoose \/ Fails
Rung == Excused \/ "ringing" \in dHeard
\* A call that is over, whoever is asked; a dial that was carried out.
Past(x) == \A s \in ShownOf : Port!Live(s) => s.id # x
Dialled(j) ==
  /\ dIssue[j].pc = "waiting" /\ dIssue[j].cmd[1] = "dial"
  /\ dIssue[j].at = "acted" \/ \E m \in Said : m.of = j /\ m.ok
RungInv ==
  /\ "connected" \in dHeard => Rung
  /\ dBound[0] # 0 => Rung \/ Past(dBound[0])
  /\ dOwn # 0 => Rung \/ Past(dOwn) \/ \E j \in Port!Issues : Dialled(j)
  /\ \A i \in Port!Issues : dIssue[i].cmd[1] = "hangup" /\ dIssue[i].pc = "waiting" => Rung
  /\ ~dShadowed => \A j \in Port!Issues : dIssue[j].pc = "waiting" /\ dIssue[j].cmd[1] = "dial" =>
       /\ dIssue[j].at = "acted" => dLast.id < dPhone.id /\ dOwn <= dPhone.id
       /\ \A m \in Said : m.of = j /\ m.ok => dLast.id < m.phone.id /\ dOwn <= m.phone.id
  /\ \A i, j \in Port!Outstanding : i # j /\ dIssue[i].cmd[1] = "dial" => dShadowed

PortInv == PhoneInv /\ OrderTypes /\ OrderInv /\ StrayInv /\ OverInv /\ RungInv

\* The orders there are: the hangup is of the call that the port dials.
LEMMA OrdersAre ==
  /\ \A c \in Port!Orders : /\ c[1] \in {"dial", "transfer", "hangup", "answer", "reject"} /\ c[2] \in {0, 1}
                            /\ c[1] \in {"dial", "transfer", "hangup"} <=> c[2] = 0
                            /\ c = <<c[1], c[2]>>
  /\ 0 \in Port!Ports /\ 1 \in Port!Ports /\ Port!Ports = 0..MaxRings /\ MaxRings \in Nat \ {0}
  /\ Port!Issues = 1..MaxIssues /\ MaxIssues \in Nat \ {0} /\ MaxLoads \in Nat
BY HostAssumption DEF Port!Orders, Port!Ports, Port!Issues

\* The order of the statuses.
LEMMA RankIs == \A s : Port!Rank(s) \in 0..3
BY DEF Port!Rank

\* What a status is: a call shown has a number, and nothing shown has none.
LEMMA StatusIs ==
  /\ \A s \in PhoneStatus : /\ s.id \in Nat /\ s.id \in Port!Ports /\ (Port!Live(s) => s.id # 0)
                            /\ s.id # 0 => Port!Live(s) \/ s.st = "ended"
  /\ Port!Unpublished.id = 0 /\ ~Port!Live(Port!Unpublished) /\ Port!Unpublished.st = "unknown"
  /\ Port!Silent \in PhoneStatus /\ Port!Silent.id = 0 /\ ~Port!Live(Port!Silent) /\ Port!Silent # Port!Unpublished
<1>1. \A s \in PhoneStatus : s.id \in Port!Ports /\ s.st \in {"none", "calling", "ringing", "active", "ended"} /\ (s.st = "none" <=> s.id = 0)
    BY DEF PhoneStatus
<1>2. \A s \in PhoneStatus : s.id \in Nat
    BY <1>1, OrdersAre
<1>3. Port!Silent \in PhoneStatus
    BY OrdersAre DEF PhoneStatus, Port!Silent
<1> QED BY <1>1, <1>2, <1>3 DEF Port!Live, Port!Early, Port!Unpublished, Port!Silent

\* A call that turns active, or ends, keeps its number.
LEMMA StatusTurns ==
  /\ \A s \in PhoneStatus : s = [s EXCEPT !.st = s.st]
  /\ \A s \in PhoneStatus : \A st \in {"active", "ended"} : Port!Live(s) =>
       [s EXCEPT !.st = st] \in PhoneStatus /\ [s EXCEPT !.st = st].id = s.id /\ [s EXCEPT !.st = st].st = st
<1>1. \A s \in PhoneStatus : /\ s \in [id : Port!Ports, st : {"none", "calling", "ringing", "active", "ended"}]
                             /\ s.st = "none" <=> s.id = 0
    BY DEF PhoneStatus
<1>2. ASSUME NEW s \in PhoneStatus PROVE s = [s EXCEPT !.st = s.st]
    <2>1. s \in [id : Port!Ports, st : {"none", "calling", "ringing", "active", "ended"}]
        BY <1>1
    <2> QED BY <2>1
<1>3. ASSUME NEW s \in PhoneStatus, NEW st \in {"active", "ended"}, Port!Live(s)
      PROVE  [s EXCEPT !.st = st] \in PhoneStatus /\ [s EXCEPT !.st = st].id = s.id /\ [s EXCEPT !.st = st].st = st
    <2>1. s.st # "none" /\ st # "none" /\ s.id # 0
        BY <1>1, <1>3 DEF Port!Live, Port!Early
    <2>2. [s EXCEPT !.st = st] \in [id : Port!Ports, st : {"none", "calling", "ringing", "active", "ended"}]
        BY <1>1
    <2>3. [s EXCEPT !.st = st].id = s.id /\ [s EXCEPT !.st = st].st = st
        BY <1>1
    <2> QED BY <2>1, <2>2, <2>3 DEF PhoneStatus
<1> QED BY <1>2, <1>3

\* A status is not before itself, and the order goes on through the middle one.
LEMMA NotBeforeSelf == \A s \in PhoneStatus : NotBefore(s, s)
BY RankIs, StatusIs DEF NotBefore

\* What is not before a status is not before an earlier one either.
LEMMA NotBeforeGoesOn ==
  ASSUME NEW r \in PhoneStatus, NEW s \in PhoneStatus, NEW t \in PhoneStatus, NotBefore(r, s), NotBefore(s, t)
  PROVE  NotBefore(r, t)
<1>1. r.id \in Nat /\ s.id \in Nat /\ t.id \in Nat
    BY StatusIs
<1>2. Port!Rank(r) \in Nat /\ Port!Rank(s) \in Nat /\ Port!Rank(t) \in Nat
    BY RankIs
<1> QED BY <1>1, <1>2 DEF NotBefore

\* What comes after the end of a call shows it ended, or another.
LEMMA EndStays ==
  ASSUME NEW s \in PhoneStatus, NEW t \in PhoneStatus, NotBefore(s, t), s.st = "ended", Port!Live(t)
  PROVE  t.id > s.id
<1>1. s.id \in Nat /\ t.id \in Nat
    BY StatusIs
<1>2. Port!Rank(s) = 3
    BY DEF Port!Rank, Port!Early
<1>3. Port!Rank(t) \in {1, 2}
    BY DEF Port!Rank, Port!Early, Port!Live
<1> QED BY <1>1, <1>2, <1>3 DEF NotBefore

\* The messages under way are messages.
LEMMA SaidIs ==
  ASSUME PhoneInv
  PROVE  \A m \in Said : /\ m \in PhoneMessage /\ m.phone \in PhoneStatus /\ m.phone.id \in Nat /\ m.phone \in ShownOf
                         /\ (m.of # 0 => m.of \in Port!Issues)
<1>1. dUp \in Seq(PhoneMessage)
    BY DEF PhoneInv
<1>2. \A k \in 1..Len(dUp) : dUp[k] \in PhoneMessage
    BY <1>1, ElementOfSeq
<1>3. \A m \in PhoneMessage : m.phone \in PhoneStatus /\ m.of \in 0..MaxIssues
    BY DEF PhoneMessage
<1>4. \A m \in PhoneMessage : m.phone.id \in Nat /\ (m.of # 0 => m.of \in Port!Issues)
    BY <1>3, StatusIs, OrdersAre
<1> QED BY <1>2, <1>3, <1>4 DEF Said, ShownOf

\* A message is taken from those under way.
LEMMA PhoneGets ==
  ASSUME PhoneInv, dUp # <<>>, dUp' = Tail(dUp), dPhone' = dPhone, dRings' = dRings,
         dLatest' \in {dLatest, Head(dUp).phone}
  PROVE  /\ PhoneInv' /\ Head(dUp) \in Said /\ Head(dUp) \in PhoneMessage
         /\ Said' \subseteq Said /\ Said \subseteq Said' \cup {Head(dUp)} /\ ShownOf' \subseteq ShownOf
         /\ \A s \in {dPhone} \cup {m.phone : m \in Said'} : NotBefore(Head(dUp).phone, s)
         /\ \A s \in ShownOf : s = Port!Unpublished \/ s \in PhoneStatus
<1>1. dUp \in Seq(PhoneMessage) /\ dLatest \in PhoneStatus \cup {Port!Unpublished} /\ dPhone \in PhoneStatus
    BY DEF PhoneInv
<1>2. /\ Len(dUp) \in Nat \ {0} /\ Len(dUp') = Len(dUp) - 1 /\ Head(dUp) = dUp[1] /\ dUp' \in Seq(PhoneMessage)
      /\ \A k \in 1..Len(dUp') : dUp'[k] = dUp[k + 1]
    BY <1>1, HeadTailProperties, EmptySeq, LenProperties
<1>3. \A k \in 1..Len(dUp) : dUp[k] \in PhoneMessage
    BY <1>1, ElementOfSeq
<1>4. \A k \in 1..Len(dUp') : k + 1 \in 1..Len(dUp) /\ 1 < k + 1 /\ dUp'[k] = dUp[k + 1]
    BY <1>2
<1>5. 1 \in 1..Len(dUp)
    BY <1>2
<1>6. Head(dUp) \in Said /\ Head(dUp) \in PhoneMessage /\ Said' \subseteq Said
    BY <1>2, <1>3, <1>4, <1>5 DEF Said
<1>7. Said \subseteq Said' \cup {Head(dUp)}
    <2>1. ASSUME NEW k \in 1..Len(dUp), k # 1 PROVE dUp[k] \in Said'
        <3>1. k - 1 \in 1..Len(dUp') /\ (k - 1) + 1 = k
            BY <1>2, <2>1
        <3>2. dUp'[k - 1] = dUp[k]
            BY <1>2, <3>1
        <3> QED BY <3>1, <3>2 DEF Said
    <2> QED BY <1>2, <2>1 DEF Said
<1>8. \A m \in Said' : NotBefore(Head(dUp).phone, m.phone)
    BY <1>2, <1>4, <1>5 DEF Said, PhoneInv
<1>9. NotBefore(Head(dUp).phone, dPhone)
    BY <1>6 DEF PhoneInv
<1>10. \A s \in ShownOf : s = Port!Unpublished \/ s \in PhoneStatus
    BY <1>1, <1>3 DEF ShownOf, Said, PhoneMessage
<1>11. ShownOf' \subseteq ShownOf
    BY <1>6 DEF ShownOf
<1>12. Head(dUp).phone \in PhoneStatus
    BY <1>6 DEF PhoneMessage
<1>13. PhoneInv'
    <2>1. \A k, l \in 1..Len(dUp') : k < l => NotBefore(dUp'[k].phone, dUp'[l].phone)
        <3>1. ASSUME NEW k \in 1..Len(dUp'), NEW l \in 1..Len(dUp'), k < l
              PROVE  NotBefore(dUp[k + 1].phone, dUp[l + 1].phone)
            <4>1. k + 1 \in 1..Len(dUp) /\ l + 1 \in 1..Len(dUp) /\ k + 1 < l + 1
                BY <1>2, <1>4, <3>1
            <4> QED BY <4>1, Zenon DEF PhoneInv
        <3> QED BY <1>4, <3>1
    <2>2. \A m \in Said' : NotBefore(m.phone, dPhone')
        BY <1>6 DEF PhoneInv
    <2>3. dLatest' # Port!Unpublished => NotBefore(dLatest', dPhone') /\ \A m \in Said' : NotBefore(dLatest', m.phone)
        BY <1>6, <1>8, <1>9 DEF PhoneInv
    <2>4. dLatest' \in PhoneStatus \cup {Port!Unpublished}
        BY <1>1, <1>12
    <2>5. \A s \in ShownOf' : s.id <= dRings'
        BY <1>11 DEF PhoneInv
    <2>6. dPhone' \in PhoneStatus /\ dRings' \in 0..MaxRings
        BY DEF PhoneInv
    <2> QED BY <1>2, <2>1, <2>2, <2>3, <2>4, <2>5, <2>6 DEF PhoneInv, NotBefore
<1> QED BY <1>6, <1>7, <1>8, <1>9, <1>10, <1>11, <1>13

\* The phone sends a message, of what it shows by then.
LEMMA PhoneSends ==
  ASSUME PhoneInv, NEW m \in PhoneMessage, dUp' = Append(dUp, m), dPhone' \in PhoneStatus, m.phone = dPhone',
         NotBefore(dPhone, dPhone'), dRings' \in 0..MaxRings, dRings' >= dRings, dPhone'.id <= dRings', dLatest' = dLatest
  PROVE  PhoneInv' /\ Said' = Said \cup {m} /\ ShownOf' \subseteq ShownOf \cup {dPhone'}
<1>1. dUp \in Seq(PhoneMessage) /\ dLatest \in PhoneStatus \cup {Port!Unpublished} /\ dPhone \in PhoneStatus
      /\ Len(dUp) \in Nat
    BY LenProperties DEF PhoneInv
<1>2. /\ Len(dUp') = Len(dUp) + 1 /\ dUp' \in Seq(PhoneMessage) /\ dUp'[Len(dUp) + 1] = m
      /\ \A k \in 1..Len(dUp) : dUp'[k] = dUp[k]
    BY <1>1
<1>3. \A k \in 1..Len(dUp) : dUp[k] \in PhoneMessage
    BY <1>1, ElementOfSeq
<1>4. /\ 1..Len(dUp') = (1..Len(dUp)) \cup {Len(dUp) + 1}
      /\ \A k \in 1..Len(dUp) : ~(Len(dUp) + 1 < k) /\ k # Len(dUp) + 1
    BY <1>1, <1>2
<1>5. Said' = Said \cup {m}
    BY <1>2, <1>4 DEF Said
<1>6. \A n \in Said : n.phone \in PhoneStatus
    BY <1>3 DEF Said, PhoneMessage
<1>7. \A n \in Said : NotBefore(n.phone, dPhone')
    BY <1>1, <1>6, NotBeforeGoesOn DEF PhoneInv
<1>8. NotBefore(dPhone', dPhone')
    BY NotBeforeSelf
<1>9. dLatest # Port!Unpublished => NotBefore(dLatest, dPhone')
    BY <1>1, NotBeforeGoesOn DEF PhoneInv
<1>10. ShownOf' \subseteq ShownOf \cup {dPhone'}
    BY <1>5 DEF ShownOf
<1>11. \A s \in ShownOf' : s.id <= dRings'
    <2>1. \A s \in ShownOf : s.id \in Nat
        BY <1>1, <1>6, StatusIs DEF ShownOf
    <2>2. dRings \in Nat /\ dRings' \in Nat
        BY DEF PhoneInv
    <2> QED BY <1>10, <2>1, <2>2 DEF PhoneInv
<1>12. \A k, l \in 1..Len(dUp') : k < l => NotBefore(dUp'[k].phone, dUp'[l].phone)
    <2>1. ASSUME NEW k \in 1..Len(dUp'), NEW l \in 1..Len(dUp'), k < l
          PROVE  NotBefore(dUp'[k].phone, dUp'[l].phone)
        <3>1. k \in 1..Len(dUp)
            BY <1>1, <1>2, <2>1
        <3>2. CASE l \in 1..Len(dUp)
            <4>1. NotBefore(dUp[k].phone, dUp[l].phone)
                BY <2>1, <3>1, <3>2, Zenon DEF PhoneInv
            <4> QED BY <1>2, <3>1, <3>2, <4>1
        <3>3. CASE l = Len(dUp) + 1
            BY <1>2, <1>7, <3>1, <3>3 DEF Said
        <3> QED BY <1>4, <3>2, <3>3
    <2> QED BY <2>1
<1>13. \A n \in Said' : NotBefore(n.phone, dPhone')
    BY <1>5, <1>7, <1>8
<1>14. dLatest' # Port!Unpublished => NotBefore(dLatest', dPhone') /\ \A n \in Said' : NotBefore(dLatest', n.phone)
    BY <1>5, <1>9 DEF PhoneInv
<1>15. PhoneInv'
    BY <1>1, <1>2, <1>11, <1>12, <1>13, <1>14 DEF PhoneInv, NotBefore
<1> QED BY <1>5, <1>10, <1>15

\* The page is loaded again: all is silent, and said to be.
LEMMA PhoneReloads ==
  ASSUME PhoneInv, dUp' = <<Port!Status(Port!Silent)>>, dPhone' = Port!Silent, dRings' = dRings,
         dLatest' = Port!Unpublished
  PROVE  /\ PhoneInv' /\ Said' = {Port!Status(Port!Silent)} /\ Port!Status(Port!Silent) \in PhoneMessage
         /\ \A s \in ShownOf' : ~Port!Live(s)
<1>1. Port!Status(Port!Silent) \in PhoneMessage /\ Port!Status(Port!Silent).phone = Port!Silent
    BY StatusIs, HostAssumption DEF PhoneMessage, Port!Status
<1> DEFINE m == Port!Status(Port!Silent)
<1> HIDE DEF m
<1>2. dUp' \in Seq(PhoneMessage) /\ Len(dUp') = 1 /\ dUp'[1] = m /\ 1..Len(dUp') = {1}
    BY <1>1 DEF m
<1>3. Said' = {m}
    BY <1>2 DEF Said
<1>4. m.phone = Port!Silent /\ dRings \in Nat
    BY <1>1 DEF m, PhoneInv
<1>5. \A s \in ShownOf' : s \in {Port!Silent, Port!Unpublished}
    BY <1>3, <1>4 DEF ShownOf
<1>6. \A s \in ShownOf' : ~Port!Live(s) /\ s.id <= dRings'
    BY <1>4, <1>5, StatusIs
<1>7. \A n \in Said' : NotBefore(n.phone, dPhone')
    BY <1>3, <1>4, NotBeforeSelf, StatusIs
<1>8. PhoneInv'
    BY <1>2, <1>6, <1>7, StatusIs DEF PhoneInv
<1> QED BY <1>1, <1>3, <1>6, <1>8 DEF m

\* A call that is over stays over, since those that begin have numbers of their own.
Goes == Port!Live(dPhone') => dPhone'.id = dRings + 1 \/ (dPhone'.id = dPhone.id /\ Port!Live(dPhone))

\* A call that is over stays over, wherever its status is asked for.
LEMMA PastStays ==
  ASSUME PhoneInv, NEW x \in Nat, x <= dRings, Past(x), Goes,
         \A s \in ShownOf' : Port!Live(s) => s \in ShownOf \/ s = dPhone'
  PROVE  Past(x)'
<1>1. dRings \in Nat /\ dPhone \in ShownOf
    BY DEF PhoneInv, ShownOf
<1>2. ASSUME NEW s \in ShownOf', Port!Live(s) PROVE s.id # x
    <2>1. CASE s \in ShownOf
        BY <1>2, <2>1 DEF Past
    <2>2. CASE s = dPhone'
        <3>1. dPhone'.id = dRings + 1 \/ (dPhone'.id = dPhone.id /\ Port!Live(dPhone))
            BY <1>2, <2>2 DEF Goes
        <3>2. dRings + 1 # x
            BY <1>1
        <3>3. Port!Live(dPhone) => dPhone.id # x
            BY <1>1 DEF Past
        <3> QED BY <2>2, <3>1, <3>2, <3>3
    <2> QED BY <1>2, <2>1, <2>2
<1> QED BY <1>2 DEF Past

\* What OverInv says of a command.
Ended(i) == ~(Port!Live(dPhone) /\ dPhone.id = dIssue[i].for)

\* The call that a command is for stays over.
LEMMA EndedStays ==
  ASSUME PhoneInv, OrderTypes, NEW i \in Port!Issues, dIssue'[i].for = dIssue[i].for, Goes, Ended(i)
  PROVE  Ended(i)'
<1>1. dIssue[i].for \in Nat /\ dIssue[i].for <= dRings /\ dRings \in Nat
    BY OrdersAre DEF OrderTypes, PhoneIssue, PhoneInv
<1>2. dRings + 1 # dIssue[i].for
    BY <1>1
<1> QED BY <1>2 DEF Goes, Ended

\* OverInv, in these words.
LEMMA OverIs ==
  OverInv <=> \A i \in Port!Issues :
    dIssue[i].cmd[1] = "hangup" /\ (dIssue[i].at = "acted" \/ dIssue[i].pc = "done" \/ \E m \in Said : m.of = i /\ m.ok)
      => Ended(i)
BY DEF OverInv, Ended

\* What a step leaves of a command, and of what is known and excused.
LEMMA KnownStays ==
  ASSUME NEW x \in Nat, dOwn \in Nat, dOwn' \in Nat, dOwn <= dOwn', dCrossed \subseteq dCrossed', dLoose \subseteq dLoose', Known(x)
  PROVE  Known(x)'
BY DEF Known

\* A reason why the dialled call connects unheard remains one.
LEMMA ExcusedStays ==
  ASSUME dShadowed => dShadowed', dLoose \subseteq dLoose',
         \A i \in Port!Issues : dIssue[i].pc = "failed" => dIssue'[i].pc = "failed" /\ dIssue'[i].cmd = dIssue[i].cmd
  PROVE  Excused => Excused'
BY DEF Excused, Fails

\* A command in its turn: its id is known, or it is for no call that is shown, or
\* it is refused, or sent.
Opens(i, c, r) ==
  /\ dIssue[i].pc = "new" /\ (i > 1 => dIssue[i - 1].pc # "new")
  /\ c \in Port!Orders /\ dIssue' = [dIssue EXCEPT ![i] = r] /\ r \in PhoneIssue /\ r.cmd = c /\ r.for <= dRings
  /\ \/ r.pc = "repeated" /\ r.at = "none" /\ c \in dSeen /\ UNCHANGED <<dLast, dSeen, dShadowed, dCrossed>>
     \/ /\ \/ r.pc = "moot" /\ r.at = "none" /\ dSeen' = dSeen \cup {c}
           \/ r.pc = "failed" /\ r.at = "none" /\ dSeen' = dSeen
           \/ r.pc = "waiting" /\ r.at = "sent" /\ dSeen' = dSeen \cup {c} /\ ~Port!Moot(c) /\ ~Port!Barred(c)
        /\ c \notin dSeen /\ dLast' = dLatest
        /\ dShadowed' = (dShadowed \/ \E j \in Port!Outstanding : "dial" \in {c[1], dIssue[j].cmd[1]})
        /\ dCrossed' = IF dPhone.id # dLatest.id THEN dCrossed \cup {dPhone.id} ELSE dCrossed
  /\ UNCHANGED <<dPhone, dRings, dUp, dLatest, dBound, dLoads, dHeard, dOwn, dLoose, dStray>>

\* What the renderer may still act on.
LEMMA OutstandingIs ==
  /\ \A j : j \in Port!Outstanding <=> j \in Port!Issues /\ (dIssue[j].pc = "waiting" \/ dIssue[j].at # "none")
  /\ \A j : j \in Port!Outstanding' <=> j \in Port!Issues /\ (dIssue'[j].pc = "waiting" \/ dIssue'[j].at # "none")
BY DEF Port!Outstanding, Port!Waiting, Port!Issues

\* A command that is issued opens so, whichever way it goes.
LEMMA IssueOpens ==
  ASSUME NEW i \in Port!Issues, Port!Issue(i), OrderTypes, PhoneInv, OrderInv
  PROVE  \E c \in Port!Orders : \E r \in PhoneIssue : Opens(i, c, r)
<1>1. /\ dIssue[i].pc = "new" /\ (i > 1 => dIssue[i - 1].pc # "new")
      /\ \E c \in Port!Orders : Port!Repeated(i, c) \/ Port!Skip(i, c) \/ Port!Refuse(i, c) \/ Port!Send(i, c)
    BY Zenon DEF Port!Issue
<1>2. PICK c \in Port!Orders : Port!Repeated(i, c) \/ Port!Skip(i, c) \/ Port!Refuse(i, c) \/ Port!Send(i, c)
    BY <1>1
<1>3. dIssue[i] \in PhoneIssue /\ dIssue[i].for <= dRings
    BY DEF OrderTypes
<1>4. dIssue[i].at = "none" /\ dLatest.id <= dRings /\ dLatest.id \in Port!Ports /\ 0 <= dRings /\ 0 \in Port!Ports
    <2>1. dIssue[i].at = "none"
        BY <1>1 DEF OrderInv
    <2>2. dLatest \in ShownOf /\ dRings \in Nat
        BY DEF PhoneInv, ShownOf
    <2>3. dLatest.id \in Port!Ports
        BY StatusIs, OrdersAre DEF PhoneInv
    <2> QED BY <2>1, <2>2, <2>3, OrdersAre DEF PhoneInv
<1>5. CASE Port!Repeated(i, c)
    <2> DEFINE r == [dIssue[i] EXCEPT !.cmd = c, !.pc = "repeated"]
    <2>1. /\ dIssue' = [dIssue EXCEPT ![i].cmd = c, ![i].pc = "repeated"] /\ c \in dSeen
          /\ UNCHANGED <<dLast, dSeen, dShadowed, dCrossed, dPhone, dRings, dUp, dLatest, dBound, dLoads, dHeard, dOwn, dLoose, dStray>>
        BY <1>5, Zenon DEF Port!Repeated, Port!unheard
    <2>2. dIssue \in [Port!Issues -> PhoneIssue]
        BY DEF OrderTypes
    <2>3. dIssue' = [dIssue EXCEPT ![i] = r]
        BY <2>1, <2>2
    <2>4. r \in PhoneIssue /\ r.cmd = c /\ r.for <= dRings /\ r.pc = "repeated" /\ r.at = "none"
        BY <1>3, <1>4 DEF PhoneIssue
    <2> HIDE DEF r
    <2>5. Opens(i, c, r)
        BY <1>1, <2>1, <2>3, <2>4 DEF Opens
    <2> QED BY <2>4, <2>5
<1>6. ASSUME NEW pc \in {"moot", "failed", "waiting"}, NEW at \in {"none", "sent"}, Port!Begin(i, c, pc, at),
             \/ pc = "moot" /\ at = "none" /\ dSeen' = dSeen \cup {c}
             \/ pc = "failed" /\ at = "none" /\ dSeen' = dSeen
             \/ pc = "waiting" /\ at = "sent" /\ dSeen' = dSeen \cup {c} /\ ~Port!Moot(c) /\ ~Port!Barred(c)
      PROVE  \E r \in PhoneIssue : Opens(i, c, r)
    <2> DEFINE r == [cmd |-> c, pc |-> pc, at |-> at, for |-> IF c[1] = "hangup" THEN dLatest.id ELSE 0]
    <2>1. /\ dIssue' = [dIssue EXCEPT ![i] = r] /\ c \notin dSeen /\ dLast' = dLatest
          /\ dShadowed' = (dShadowed \/ \E j \in Port!Outstanding : "dial" \in {c[1], dIssue[j].cmd[1]})
          /\ dCrossed' = IF dPhone.id # dLatest.id THEN dCrossed \cup {dPhone.id} ELSE dCrossed
          /\ UNCHANGED <<dPhone, dRings, dUp, dLatest, dBound, dLoads, dHeard, dOwn, dLoose, dStray>>
        BY <1>6, Zenon DEF Port!Begin, Port!unheard
    <2>2. r \in PhoneIssue /\ r.cmd = c /\ r.for <= dRings /\ r.pc = pc /\ r.at = at
        BY <1>4 DEF PhoneIssue
    <2> HIDE DEF r
    <2>3. Opens(i, c, r)
        BY <1>1, <1>6, <2>1, <2>2, Zenon DEF Opens
    <2> QED BY <2>2, <2>3
<1>7. CASE Port!Skip(i, c)
    <2>1. Port!Begin(i, c, "moot", "none") /\ dSeen' = dSeen \cup {c}
        BY <1>7, Zenon DEF Port!Skip, Port!Kept
    <2> QED BY <1>6, <2>1
<1>8. CASE Port!Refuse(i, c)
    <2>1. Port!Begin(i, c, "failed", "none") /\ dSeen' = dSeen
        BY <1>8, Zenon DEF Port!Refuse
    <2> QED BY <1>6, <2>1
<1>9. CASE Port!Send(i, c)
    <2>1. Port!Begin(i, c, "waiting", "sent") /\ dSeen' = dSeen \cup {c} /\ ~Port!Moot(c) /\ ~Port!Barred(c)
        BY <1>9, Zenon DEF Port!Send, Port!Kept
    <2> QED BY <1>6, <2>1
<1> QED BY <1>2, <1>5, <1>7, <1>8, <1>9

\* And what opens so keeps the invariant.
LEMMA OpensKeeps ==
  ASSUME PortInv, NEW i \in Port!Issues, NEW c, NEW r, Opens(i, c, r)
  PROVE  PortInv'
<1>1. /\ dIssue[i].pc = "new" /\ (i > 1 => dIssue[i - 1].pc # "new")
      /\ c \in Port!Orders /\ dIssue' = [dIssue EXCEPT ![i] = r] /\ r \in PhoneIssue /\ r.cmd = c /\ r.for <= dRings
      /\ UNCHANGED <<dPhone, dRings, dUp, dLatest, dBound, dLoads, dHeard, dOwn, dLoose, dStray>>
    BY Zenon DEF Opens
<1>2. /\ r.pc \in {"repeated", "moot", "failed", "waiting"} /\ r.at \in {"none", "sent"}
      /\ r.at # "none" => r.pc = "waiting"
      /\ dLast' \in {dLast, dLatest} /\ dSeen \subseteq dSeen' /\ dSeen' \subseteq dSeen \cup {c}
      /\ dCrossed \subseteq dCrossed' /\ (dShadowed => dShadowed')
      /\ r.pc \in {"waiting", "moot"} => c \in dSeen' /\ c \notin dSeen
      /\ r.pc = "failed" => c \notin dSeen
      /\ r.pc = "waiting" =>
           /\ r.at = "sent" /\ ~Port!Moot(c) /\ ~Port!Barred(c)
           /\ dShadowed' = (dShadowed \/ \E j \in Port!Outstanding : "dial" \in {c[1], dIssue[j].cmd[1]})
           /\ dCrossed' = IF dPhone.id # dLatest.id THEN dCrossed \cup {dPhone.id} ELSE dCrossed
      /\ dLast' = dLast \/ dShadowed' \/ \A j \in Port!Outstanding : dIssue[j].cmd[1] # "dial"
    <2>1. CASE r.pc = "repeated" /\ r.at = "none" /\ c \in dSeen /\ UNCHANGED <<dLast, dSeen, dShadowed, dCrossed>>
        BY <2>1
    <2>2. CASE /\ \/ r.pc = "moot" /\ r.at = "none" /\ dSeen' = dSeen \cup {c}
                  \/ r.pc = "failed" /\ r.at = "none" /\ dSeen' = dSeen
                  \/ r.pc = "waiting" /\ r.at = "sent" /\ dSeen' = dSeen \cup {c} /\ ~Port!Moot(c) /\ ~Port!Barred(c)
               /\ c \notin dSeen /\ dLast' = dLatest
               /\ dShadowed' = (dShadowed \/ \E j \in Port!Outstanding : "dial" \in {c[1], dIssue[j].cmd[1]})
               /\ dCrossed' = IF dPhone.id # dLatest.id THEN dCrossed \cup {dPhone.id} ELSE dCrossed
        <3>1. dShadowed \in BOOLEAN
            BY DEF PortInv, OrderTypes
        <3>2. /\ (dShadowed => dShadowed')
              /\ dShadowed' \/ \A j \in Port!Outstanding : dIssue[j].cmd[1] # "dial"
            BY <2>2, <3>1
        <3>3. dCrossed \subseteq dCrossed'
            BY <2>2
        <3>4. /\ r.pc \in {"repeated", "moot", "failed", "waiting"} /\ r.at \in {"none", "sent"}
              /\ r.at # "none" => r.pc = "waiting"
              /\ dSeen \subseteq dSeen' /\ dSeen' \subseteq dSeen \cup {c}
              /\ r.pc \in {"waiting", "moot"} => c \in dSeen' /\ c \notin dSeen
              /\ r.pc = "failed" => c \notin dSeen
              /\ r.pc = "waiting" => r.at = "sent" /\ ~Port!Moot(c) /\ ~Port!Barred(c)
            BY <2>2
        <3> QED BY <2>2, <3>2, <3>3, <3>4, Zenon
    <2> QED BY <2>1, <2>2, Zenon DEF Opens
<1>3. /\ PhoneInv /\ OrderTypes /\ OrderInv /\ StrayInv /\ OverInv /\ RungInv
      /\ dIssue \in [Port!Issues -> PhoneIssue] /\ dOwn \in Nat
    BY OrdersAre DEF PortInv, OrderTypes
<1>4. dIssue'[i] = r /\ \A j \in Port!Issues : j # i => dIssue'[j] = dIssue[j]
    BY <1>1, <1>3
<1>5. Said' = Said /\ ShownOf' = ShownOf /\ PhoneInv'
    BY <1>1, <1>3 DEF Said, ShownOf, PhoneInv, NotBefore
<1>6. dIssue[i].at = "none" /\ \A m \in Said : m.of # i
    <2>1. \A m \in Said : m.of # 0 => dIssue[m.of].pc # "new"
        BY <1>3 DEF OrderInv
    <2>2. i # 0
        BY OrdersAre
    <2> QED BY <1>1, <1>3, <2>1, <2>2 DEF OrderInv
<1>7. OrderTypes'
    <2>1. dLatest \in PhoneStatus \cup {Port!Unpublished} /\ dLatest.id <= dRings
        BY <1>3 DEF PhoneInv, ShownOf
    <2>2. dIssue' \in [Port!Issues -> PhoneIssue] /\ \A j \in Port!Issues : dIssue'[j].for <= dRings'
        BY <1>1, <1>3, <1>4 DEF OrderTypes
    <2>3. dShadowed' \in BOOLEAN
        BY <1>3 DEF Opens, OrderTypes
    <2>4. dSeen' \subseteq Port!Orders
        BY <1>1, <1>2, <1>3 DEF OrderTypes
    <2>5. dLast' \in PhoneStatus \cup {Port!Unpublished} /\ dLast'.id <= dRings'
        BY <1>1, <1>2, <1>3, <2>1 DEF OrderTypes
    <2> QED BY <1>1, <1>3, <2>2, <2>3, <2>4, <2>5 DEF OrderTypes
<1>8. OrderInv'
    <2>1. \A j \in Port!Issues : dIssue'[j].at # "none" => dIssue'[j].pc \in {"waiting", "failed"} /\ \A m \in Said' : m.of # j
        BY <1>2, <1>3, <1>4, <1>5, <1>6 DEF OrderInv
    <2>2. \A m \in Said' : m.of # 0 => dIssue'[m.of].pc # "new"
        <3>1. \A m \in Said : m.of # 0 => m.of \in Port!Issues
            BY <1>3, SaidIs
        <3> QED BY <1>3, <1>4, <1>5, <1>6, <3>1 DEF OrderInv
    <2>3. \A j, k \in Port!Issues : j < k /\ dIssue'[k].pc # "new" => dIssue'[j].pc # "new"
        <3>1. \A j \in Port!Issues : j < i => dIssue[j].pc # "new"
            <4>1. ASSUME NEW j \in Port!Issues, j < i PROVE dIssue[j].pc # "new"
                <5>1. i - 1 \in Port!Issues /\ i > 1 /\ (j = i - 1 \/ j < i - 1)
                    BY <4>1, OrdersAre
                <5> QED BY <1>1, <1>3, <5>1 DEF OrderInv
            <4> QED BY <4>1
        <3>2. \A j, k \in Port!Issues : j < k /\ dIssue[k].pc # "new" => dIssue[j].pc # "new"
            BY <1>3, Zenon DEF OrderInv
        <3> QED BY <1>2, <1>4, <3>1, <3>2
    <2>4. \A j \in Port!Issues : Under(j)' => dIssue'[j].cmd \in dSeen'
        BY <1>1, <1>2, <1>3, <1>4 DEF OrderInv, Under
    <2>5. ASSUME NEW j \in Port!Issues, NEW k \in Port!Issues, j < k, dIssue'[j].cmd = dIssue'[k].cmd, Under(j)'
          PROVE  dIssue'[k].pc \in {"new", "repeated"}
        <3>1. CASE k = i
            <4>1. j # i /\ Under(j) /\ dIssue[j].cmd = c
                BY <1>1, <1>4, <2>5, <3>1, OrdersAre DEF Under
            <4>2. c \in dSeen
                BY <1>3, <4>1 DEF OrderInv
            <4> QED BY <1>2, <1>4, <3>1, <4>2
        <3>2. CASE k # i /\ j = i
            <4>1. dIssue[k].pc = "new"
                BY <1>1, <1>3, <2>5, <3>2 DEF OrderInv
            <4> QED BY <1>4, <3>2, <4>1
        <3>3. CASE k # i /\ j # i
            <4>1. dIssue'[j] = dIssue[j] /\ dIssue'[k] = dIssue[k]
                BY <1>4, <3>3
            <4>2. Under(j) /\ dIssue[j].cmd = dIssue[k].cmd
                BY <2>5, <4>1 DEF Under
            <4> QED BY <1>3, <2>5, <4>1, <4>2 DEF OrderInv
        <3> QED BY <3>1, <3>2, <3>3
    <2> QED BY <2>1, <2>2, <2>3, <2>4, <2>5 DEF OrderInv
<1>k. \A x \in Nat : Known(x) => Known(x)'
    BY <1>1, <1>2, <1>3, KnownStays
<1>e. (Excused => Excused') /\ (Rung => Rung')
    <2>1. \A j \in Port!Issues : dIssue[j].pc = "failed" => dIssue'[j].pc = "failed" /\ dIssue'[j].cmd = dIssue[j].cmd
        BY <1>1, <1>4
    <2>2. Excused => Excused'
        BY <1>1, <1>2, <2>1, ExcusedStays
    <2> QED BY <1>1, <2>2 DEF Rung
<1>n. dBound[0] \in Nat /\ dPhone.id \in Nat /\ \A m \in Said : m.phone.id \in Nat
    <2> QED BY <1>3, SaidIs, OrdersAre, StatusIs DEF OrderTypes, PhoneInv
<1>h. ASSUME r.pc = "waiting", c[1] = "hangup"
      PROVE  /\ Port!Live(dLatest) /\ dLatest.id = dBound[0] /\ dBound[0] # 0
             /\ dCrossed' = IF dPhone.id # dLatest.id THEN dCrossed \cup {dPhone.id} ELSE dCrossed
    <2>1. dLatest # Port!Unpublished /\ c[2] = 0
        BY <1>1, <1>2, <1>h, OrdersAre DEF Port!Barred
    <2>2. Port!IsLive(0, dLatest)
        BY <1>2, <1>h, <2>1 DEF Port!Moot
    <2> QED BY <1>2, <1>h, <2>2 DEF Port!IsLive, Port!Same
<1>9. StrayInv'
    <2>1. \A j \in Port!Issues : Heeds(j)' => Known(dPhone.id)'
        <3>1. ASSUME NEW j \in Port!Issues, j # i, Heeds(j)' PROVE Known(dPhone.id)'
            BY <1>3, <1>4, <1>k, <1>n, <3>1, <1>1 DEF Heeds, StrayInv
        <3>2. ASSUME Heeds(i)' PROVE Known(dPhone.id)'
            <4>1. r.pc = "waiting" /\ c[1] = "hangup"
                BY <1>1, <1>2, <1>4, <3>2 DEF Heeds
            <4>2. CASE dPhone.id # dLatest.id
                BY <1>1, <1>h, <4>1, <4>2 DEF Known
            <4>3. CASE dPhone.id = dLatest.id
                <5>1. Known(dBound[0]) /\ dPhone.id = dBound[0]
                    BY <1>3, <1>h, <4>1, <4>3 DEF StrayInv
                <5>2. Known(dPhone.id)
                    BY <5>1
                <5> QED BY <1>1, <1>k, <1>n, <5>2
            <4> QED BY <4>2, <4>3
        <3> QED BY <3>1, <3>2
    <2>2. \A m \in Said' : m.of # 0 /\ m.ok /\ dIssue'[m.of].cmd[1] \in {"dial", "hangup"} => Known(m.phone.id)'
        <3>1. \A m \in Said : m.of # 0 => m.of \in Port!Issues
            BY <1>3, SaidIs
        <3> QED BY <1>3, <1>4, <1>5, <1>6, <1>k, <1>n, <3>1 DEF StrayInv
    <2>3. Known(dBound[0])'
        BY <1>1, <1>3, <1>k, <1>n DEF StrayInv
    <2> QED BY <1>1, <1>3, <2>1, <2>2, <2>3 DEF StrayInv
<1>10. OverInv'
    <2>1. \A j \in Port!Issues :
            dIssue'[j].cmd[1] = "hangup" /\ (dIssue'[j].at = "acted" \/ dIssue'[j].pc = "done" \/ \E m \in Said' : m.of = j /\ m.ok)
              => Ended(j)'
        BY <1>1, <1>2, <1>3, <1>4, <1>5, <1>6, OverIs DEF Ended
    <2> QED BY <2>1 DEF OverInv, Ended
<1>11. RungInv'
    <2>1. "connected" \in dHeard' => Rung'
        BY <1>1, <1>3, <1>e DEF RungInv
    <2>2. \A x : Past(x) => Past(x)'
        BY <1>5 DEF Past
    <2>3. dBound'[0] # 0 => Rung' \/ Past(dBound[0])'
        BY <1>1, <1>3, <1>e, <2>2 DEF RungInv
    <2>4. dOwn' # 0 => Rung' \/ Past(dOwn)' \/ \E j \in Port!Issues : Dialled(j)'
        <3>1. ASSUME NEW j \in Port!Issues, Dialled(j) PROVE Dialled(j)'
            BY <1>1, <1>4, <1>5, <3>1 DEF Dialled
        <3> QED BY <1>1, <1>3, <1>e, <2>2, <3>1 DEF RungInv
    <2>5. \A j \in Port!Issues : dIssue'[j].cmd[1] = "hangup" /\ dIssue'[j].pc = "waiting" => Rung'
        <3>1. r.pc = "waiting" /\ c[1] = "hangup" => Rung
            BY <1>3, <1>h DEF RungInv, Past, ShownOf
        <3> QED BY <1>1, <1>3, <1>4, <1>e, <3>1 DEF RungInv
    <2>6. ASSUME ~dShadowed', NEW j \in Port!Issues, dIssue'[j].pc = "waiting", dIssue'[j].cmd[1] = "dial"
          PROVE  /\ dIssue'[j].at = "acted" => dLast'.id < dPhone'.id /\ dOwn' <= dPhone'.id
                 /\ \A m \in Said' : m.of = j /\ m.ok => dLast'.id < m.phone.id /\ dOwn' <= m.phone.id
        <3>1. CASE j = i
            BY <1>2, <1>4, <1>5, <1>6, <3>1
        <3>2. CASE j # i
            <4>1. dIssue'[j] = dIssue[j] /\ j \in Port!Outstanding
                BY <1>4, <2>6, <3>2, OutstandingIs
            <4>2. dLast' = dLast /\ ~dShadowed
                BY <1>2, <2>6, <4>1
            <4> QED BY <1>1, <1>3, <1>5, <2>6, <4>1, <4>2 DEF RungInv
        <3> QED BY <3>1, <3>2
    <2>7. ASSUME NEW j \in Port!Outstanding', NEW k \in Port!Outstanding', j # k, dIssue'[j].cmd[1] = "dial"
          PROVE  dShadowed'
        <3>1. r.pc = "waiting" \/ (j # i /\ k # i)
            BY <1>2, <1>4, OutstandingIs
        <3>2. CASE j # i /\ k # i
            <4>1. j \in Port!Outstanding /\ k \in Port!Outstanding /\ dIssue[j].cmd[1] = "dial"
                BY <1>4, <2>7, <3>2, OutstandingIs
            <4> QED BY <1>2, <1>3, <2>7, <4>1 DEF RungInv
        <3>3. CASE r.pc = "waiting" /\ j = i
            <4>1. k \in Port!Outstanding /\ c[1] = "dial"
                BY <1>1, <1>4, <2>7, <3>3, OutstandingIs
            <4> QED BY <1>2, <3>3, <4>1
        <3>4. CASE r.pc = "waiting" /\ k = i /\ j # i
            <4>1. j \in Port!Outstanding /\ dIssue[j].cmd[1] = "dial"
                BY <1>4, <2>7, <3>4, OutstandingIs
            <4> QED BY <1>2, <3>4, <4>1
        <3> QED BY <3>1, <3>2, <3>3, <3>4
    <2> QED BY <2>1, <2>3, <2>4, <2>5, <2>6, <2>7 DEF RungInv
<1> QED BY <1>5, <1>7, <1>8, <1>9, <1>10, <1>11 DEF PortInv

\* The line moves, of itself or since the renderer acts on the commands of A.
Moves(A) ==
  /\ A \subseteq Port!Issues /\ dIssue' \in [Port!Issues -> PhoneIssue]
  /\ \A j \in Port!Issues : /\ dIssue'[j].cmd = dIssue[j].cmd /\ dIssue'[j].pc = dIssue[j].pc /\ dIssue'[j].for = dIssue[j].for
                            /\ dIssue'[j].at = IF j \in A THEN "acted" ELSE dIssue[j].at
  /\ \A j \in A : /\ dIssue[j].at = "sent"
                  /\ dIssue[j].cmd[1] = "dial" => dOwn' = dRings + 1 /\ dPhone'.id = dRings + 1
                  /\ dIssue[j].cmd[1] = "hangup" => ~Port!Live(dPhone')
  /\ dUp' = Append(dUp, Port!Status(dPhone')) /\ dPhone' \in PhoneStatus /\ Goes /\ NotBefore(dPhone, dPhone')
  /\ \/ dPhone'.id = dPhone.id /\ dRings' = dRings /\ dOwn' = dOwn /\ dCrossed' = dCrossed
     \/ /\ dPhone'.id = dRings + 1 /\ dRings' = dRings + 1 /\ dRings < MaxRings /\ dCrossed \subseteq dCrossed'
        /\ dOwn' \in {dOwn, dRings + 1} /\ \A j \in Port!Outstanding : dRings + 1 \in dCrossed' \/ dOwn' = dRings + 1
  /\ dOwn' # dOwn => \E j \in A : dIssue[j].cmd[1] = "dial"
  /\ UNCHANGED <<dLatest, dLast, dSeen, dBound, dLoads, dHeard, dLoose, dShadowed, dStray>>

\* The phone moves, and the invariant is kept.
LEMMA MovesKeeps ==
  ASSUME PortInv, NEW A, Moves(A)
  PROVE  PortInv'
<1>1. /\ A \subseteq Port!Issues /\ dIssue' \in [Port!Issues -> PhoneIssue]
      /\ UNCHANGED <<dLatest, dLast, dSeen, dBound, dLoads, dHeard, dLoose, dShadowed, dStray>>
      /\ dUp' = Append(dUp, Port!Status(dPhone')) /\ dPhone' \in PhoneStatus /\ Goes /\ NotBefore(dPhone, dPhone')
    BY Zenon DEF Moves
<1>2. \A j \in Port!Issues : /\ dIssue'[j].cmd = dIssue[j].cmd /\ dIssue'[j].pc = dIssue[j].pc /\ dIssue'[j].for = dIssue[j].for
                             /\ dIssue'[j].at = IF j \in A THEN "acted" ELSE dIssue[j].at
    BY Zenon DEF Moves
<1>3. \A j \in A : /\ dIssue[j].at = "sent"
                   /\ dIssue[j].cmd[1] = "dial" => dOwn' = dRings + 1 /\ dPhone'.id = dRings + 1
                   /\ dIssue[j].cmd[1] = "hangup" => ~Port!Live(dPhone')
    BY Zenon DEF Moves
<1>4. /\ \/ dPhone'.id = dPhone.id /\ dRings' = dRings /\ dOwn' = dOwn /\ dCrossed' = dCrossed
         \/ /\ dPhone'.id = dRings + 1 /\ dRings' = dRings + 1 /\ dRings < MaxRings /\ dCrossed \subseteq dCrossed'
            /\ dOwn' \in {dOwn, dRings + 1} /\ \A j \in Port!Outstanding : dRings + 1 \in dCrossed' \/ dOwn' = dRings + 1
      /\ dOwn' # dOwn => \E j \in A : dIssue[j].cmd[1] = "dial"
    BY Zenon DEF Moves
<1>5. PhoneInv /\ OrderTypes /\ OrderInv /\ StrayInv /\ OverInv /\ RungInv
    BY DEF PortInv
<1>6. /\ dOwn \in Nat /\ dOwn <= dRings /\ dRings \in Nat /\ dPhone.id \in Nat /\ dPhone.id <= dRings /\ dRings <= MaxRings
      /\ dBound[0] \in Nat /\ dBound[0] <= dRings
    BY <1>5, OrdersAre, StatusIs DEF OrderTypes, PhoneInv, ShownOf
<1>7. dOwn' \in Nat /\ dOwn <= dOwn' /\ dRings' \in 0..MaxRings /\ dRings <= dRings' /\ dOwn' <= dRings'
      /\ dPhone'.id <= dRings' /\ dCrossed \subseteq dCrossed' /\ dPhone.id <= dPhone'.id
      /\ (dPhone'.id = 0 \/ dPhone'.id >= dOwn')
    BY <1>4, <1>5, <1>6, OrdersAre DEF StrayInv
<1> DEFINE m == Port!Status(dPhone')
<1>8. m \in PhoneMessage /\ m.of = 0 /\ m.phone = dPhone'
    BY <1>1, OrdersAre DEF PhoneMessage, Port!Status
<1> HIDE DEF m
<1>9. PhoneInv' /\ Said' = Said \cup {m} /\ ShownOf' \subseteq ShownOf \cup {dPhone'}
    <2>1. dUp' = Append(dUp, m)
        BY <1>1 DEF m
    <2> QED BY <1>1, <1>5, <1>7, <1>8, <2>1, PhoneSends
<1>10. OrderTypes'
    <2>1. dOwn' \in Port!Ports
        BY <1>7, OrdersAre
    <2>2. dLast.id <= dRings /\ dLast.id \in Nat /\ \A j \in Port!Issues : dIssue[j].for <= dRings /\ dIssue[j].for \in Nat
        BY <1>5, StatusIs, OrdersAre DEF OrderTypes, PhoneIssue
    <2>3. dLast'.id <= dRings' /\ dBound'[0] <= dRings' /\ \A j \in Port!Issues : dIssue'[j].for <= dRings'
        BY <1>1, <1>2, <1>6, <1>7, <2>2
    <2> QED BY <1>1, <1>5, <1>7, <2>1, <2>3 DEF OrderTypes
<1>11. OrderInv'
    <2>0. \A j \in Port!Issues : j # 0 /\ (dIssue'[j].at # "none" => dIssue[j].at # "none")
        BY <1>2, <1>3, OrdersAre
    <2>1. \A j \in Port!Issues : dIssue'[j].at # "none" => dIssue'[j].pc \in {"waiting", "failed"} /\ \A n \in Said' : n.of # j
        BY <1>2, <1>5, <1>8, <1>9, <2>0 DEF OrderInv
    <2>2. \A n \in Said' : n.of # 0 => dIssue'[n.of].pc # "new"
        BY <1>2, <1>5, <1>8, <1>9, SaidIs DEF OrderInv
    <2>3. \A j, k \in Port!Issues : j < k /\ dIssue'[k].pc # "new" => dIssue'[j].pc # "new"
        BY <1>2, <1>5 DEF OrderInv
    <2>4. \A j \in Port!Issues : Under(j)' => dIssue'[j].cmd \in dSeen'
        BY <1>1, <1>2, <1>5 DEF OrderInv, Under
    <2>5. \A j, k \in Port!Issues : j < k /\ dIssue'[j].cmd = dIssue'[k].cmd /\ Under(j)' => dIssue'[k].pc \in {"new", "repeated"}
        BY <1>2, <1>5 DEF OrderInv, Under
    <2> QED BY <2>1, <2>2, <2>3, <2>4, <2>5 DEF OrderInv
<1>k. \A x \in Nat : Known(x) => Known(x)'
    BY <1>1, <1>6, <1>7, KnownStays
<1>e. Rung => Rung'
    BY <1>1, <1>2, ExcusedStays DEF Rung
<1>12. StrayInv'
    <2>1. ASSUME NEW j \in Port!Issues, Heeds(j)' PROVE Known(dPhone.id)'
        <3>1. dIssue[j].at # "none" /\ j \in Port!Outstanding
            BY <1>2, <1>3, <2>1, OutstandingIs DEF Heeds
        <3>2. CASE dPhone'.id = dRings + 1 /\ (dRings + 1 \in dCrossed' \/ dOwn' = dRings + 1)
            BY <1>7, <3>2 DEF Known
        <3>3. CASE dPhone'.id = dPhone.id /\ dOwn' = dOwn /\ dRings' = dRings
            <4>1. Heeds(j)
                <5>1. j \in A => dIssue[j].cmd[1] # "dial"
                    BY <1>3, <1>6, <3>3
                <5> QED BY <1>2, <1>3, <2>1, <5>1 DEF Heeds
            <4>2. Known(dPhone.id)
                BY <1>5, <4>1 DEF StrayInv
            <4> QED BY <1>6, <1>k, <3>3, <4>2 DEF Known
        <3> QED BY <1>4, <3>1, <3>2, <3>3
    <2>2. \A n \in Said' : n.of # 0 /\ n.ok /\ dIssue'[n.of].cmd[1] \in {"dial", "hangup"} => Known(n.phone.id)'
        BY <1>2, <1>5, <1>8, <1>9, <1>k, SaidIs DEF StrayInv
    <2>3. Known(dBound[0])'
        BY <1>1, <1>5, <1>6, <1>k DEF StrayInv
    <2> QED BY <1>1, <1>5, <1>7, <2>1, <2>2, <2>3 DEF StrayInv
<1>13. OverInv'
    <2>1. ASSUME NEW j \in Port!Issues, dIssue'[j].cmd[1] = "hangup",
                 dIssue'[j].at = "acted" \/ dIssue'[j].pc = "done" \/ \E n \in Said' : n.of = j /\ n.ok
          PROVE  Ended(j)'
        <3>1. CASE j \in A
            BY <1>2, <1>3, <2>1, <3>1 DEF Ended
        <3>2. CASE j \notin A
            <4>1. j # 0
                BY OrdersAre
            <4>2. Ended(j)
                BY <1>2, <1>5, <1>8, <1>9, <2>1, <3>2, <4>1, OverIs
            <4> QED BY <1>1, <1>2, <1>5, <4>2, EndedStays
        <3> QED BY <3>1, <3>2
    <2> QED BY <2>1 DEF OverInv, Ended
<1>14. RungInv'
    <2>1. "connected" \in dHeard' => Rung'
        BY <1>1, <1>5, <1>e DEF RungInv
    <2>2. \A x \in Nat : x <= dRings /\ Past(x) => Past(x)'
        BY <1>1, <1>5, <1>9, PastStays
    <2>3. dBound'[0] # 0 => Rung' \/ Past(dBound[0])'
        <3>1. Past(dBound[0]) => Past(dBound[0])'
            BY <1>1, <1>6, <2>2 DEF Past
        <3> QED BY <1>1, <1>5, <1>e, <3>1 DEF RungInv
    <2>4. dOwn' # 0 => Rung' \/ Past(dOwn)' \/ \E j \in Port!Issues : Dialled(j)'
        <3>1. CASE dOwn' = dOwn
            <4>1. ASSUME NEW j \in Port!Issues, Dialled(j) PROVE Dialled(j)'
                BY <1>2, <1>9, <4>1 DEF Dialled
            <4>2. Past(dOwn) => Past(dOwn)'
                BY <1>6, <2>2, <3>1 DEF Past
            <4> QED BY <1>5, <1>e, <3>1, <4>1, <4>2 DEF RungInv
        <3>2. CASE dOwn' # dOwn
            <4>1. PICK j \in A : dIssue[j].cmd[1] = "dial"
                BY <1>4, <3>2
            <4>2. j \in Port!Issues /\ dIssue[j].pc \in {"waiting", "failed"}
                BY <1>1, <1>3, <1>5 DEF OrderInv
            <4> QED BY <1>2, <4>1, <4>2 DEF Dialled, Rung, Excused, Fails
        <3> QED BY <3>1, <3>2
    <2>5. \A j \in Port!Issues : dIssue'[j].cmd[1] = "hangup" /\ dIssue'[j].pc = "waiting" => Rung'
        BY <1>2, <1>5, <1>e DEF RungInv
    <2>6. ASSUME ~dShadowed', NEW j \in Port!Issues, dIssue'[j].pc = "waiting", dIssue'[j].cmd[1] = "dial"
          PROVE  /\ dIssue'[j].at = "acted" => dLast'.id < dPhone'.id /\ dOwn' <= dPhone'.id
                 /\ \A n \in Said' : n.of = j /\ n.ok => dLast'.id < n.phone.id /\ dOwn' <= n.phone.id
        <3>0. /\ ~dShadowed /\ dLast' = dLast /\ dIssue[j].pc = "waiting" /\ dIssue[j].cmd[1] = "dial" /\ j # 0
              /\ dLast.id <= dRings /\ dLast.id \in Nat
            BY <1>1, <1>2, <1>5, <2>6, OrdersAre, StatusIs DEF OrderTypes
        <3>1. /\ dIssue[j].at = "acted" => dLast.id < dPhone.id /\ dOwn <= dPhone.id
              /\ \A n \in Said : n.of = j /\ n.ok => dLast.id < n.phone.id /\ dOwn <= n.phone.id
            BY <1>5, <3>0 DEF RungInv
        <3>2. ASSUME j \in A PROVE dLast'.id < dPhone'.id /\ dOwn' <= dPhone'.id
            <4>1. dOwn' = dRings + 1 /\ dPhone'.id = dRings + 1
                BY <1>3, <3>0, <3>2
            <4> QED BY <1>6, <3>0, <4>1
        <3>3. ASSUME j \notin A, dIssue'[j].at = "acted" PROVE dLast'.id < dPhone'.id /\ dOwn' <= dPhone'.id
            <4>1. dLast.id < dPhone.id /\ dPhone'.id \in Nat
                BY <1>1, <1>2, <3>1, <3>3, StatusIs
            <4>2. dPhone'.id # 0
                BY <1>6, <1>7, <3>0, <4>1
            <4> QED BY <1>6, <1>7, <3>0, <4>1, <4>2
        <3>4. ASSUME NEW n \in Said', n.of = j, n.ok PROVE dLast'.id < n.phone.id /\ dOwn' <= n.phone.id
            <4>1. n \in Said
                BY <1>8, <1>9, <3>0, <3>4
            <4>2. dOwn' = dOwn
                <5>1. ASSUME dOwn' # dOwn PROVE FALSE
                    <6>1. PICK k \in A : dIssue[k].cmd[1] = "dial"
                        BY <1>4, <5>1
                    <6>2. k \in Port!Issues /\ dIssue[k].at = "sent"
                        BY <1>1, <1>3
                    <6>3. k # j
                        BY <1>5, <3>4, <4>1, <6>2 DEF OrderInv
                    <6>4. k \in Port!Outstanding /\ j \in Port!Outstanding
                        BY <3>0, <6>2, OutstandingIs
                    <6> QED BY <1>5, <3>0, <6>1, <6>3, <6>4 DEF RungInv
                <5> QED BY <5>1
            <4> QED BY <3>0, <3>1, <3>4, <4>1, <4>2
        <3> QED BY <3>2, <3>3, <3>4
    <2>7. ASSUME NEW j \in Port!Outstanding', NEW k \in Port!Outstanding', j # k, dIssue'[j].cmd[1] = "dial"
          PROVE  dShadowed'
        <3>1. j \in Port!Outstanding /\ k \in Port!Outstanding /\ dIssue[j].cmd[1] = "dial"
            BY <1>2, <1>3, <2>7, OutstandingIs
        <3> QED BY <1>1, <1>5, <2>7, <3>1 DEF RungInv
    <2> QED BY <2>1, <2>3, <2>4, <2>5, <2>6, <2>7 DEF RungInv
<1> QED BY <1>9, <1>10, <1>11, <1>12, <1>13, <1>14 DEF PortInv

\* The line of itself: a call rings in, or the peer answers or ends one.
LEMMA LineMoves ==
  ASSUME PortInv, Port!RingsIn \/ Port!PeerAnswers \/ Port!PeerEnds
  PROVE  Moves({})
<1>1. /\ dPhone \in PhoneStatus /\ dRings \in Nat /\ dPhone.id \in Nat /\ dPhone.id <= dRings /\ dRings <= MaxRings
      /\ dIssue \in [Port!Issues -> PhoneIssue] /\ Port!Ports = 0..MaxRings /\ (Port!Live(dPhone) => dPhone.id # 0)
    BY OrdersAre, StatusIs DEF PortInv, PhoneInv, OrderTypes, ShownOf
<1>2. CASE Port!RingsIn
    <2> DEFINE p == [id |-> dRings + 1, st |-> "ringing"]
    <2>1. /\ dRings < MaxRings /\ dRings' = dRings + 1 /\ dPhone' = p /\ dUp' = Append(dUp, Port!Status(p))
          /\ dCrossed' = IF Port!Outstanding # {} THEN dCrossed \cup {dRings + 1} ELSE dCrossed
          /\ UNCHANGED <<dLatest, dLast, dSeen, dBound, dLoads, dHeard, dLoose, dShadowed, dIssue, dOwn, dStray>>
        BY <1>2, Zenon DEF Port!RingsIn, Port!Begins, Port!Shows, Port!New, Port!main
    <2>2. p \in PhoneStatus /\ p.id = dRings + 1
        <3>1. dRings + 1 \in Port!Ports /\ dRings + 1 # 0
            BY <1>1, <2>1, OrdersAre
        <3> QED BY <3>1 DEF PhoneStatus
    <2> HIDE DEF p
    <2>3. Goes /\ NotBefore(dPhone, dPhone')
        BY <1>1, <2>1, <2>2 DEF Goes, NotBefore
    <2>4. dCrossed \subseteq dCrossed' /\ \A j \in Port!Outstanding : dRings + 1 \in dCrossed'
        BY <2>1
    <2> QED BY <1>1, <2>1, <2>2, <2>3, <2>4 DEF Moves
<1>3. CASE Port!PeerAnswers \/ Port!PeerEnds
    <2>1. PICK st \in {"active", "ended"} : Port!Turns(st) /\ (st = "active" => dPhone.st = "calling") /\ Port!Live(dPhone)
        BY <1>3 DEF Port!PeerAnswers, Port!PeerEnds, Port!Live, Port!Early
    <2> DEFINE p == [dPhone EXCEPT !.st = st]
    <2>2. /\ dPhone' = p /\ dUp' = Append(dUp, Port!Status(p))
          /\ UNCHANGED <<dLatest, dLast, dSeen, dBound, dLoads, dHeard, dLoose, dShadowed, dIssue, dOwn, dStray, dRings, dCrossed>>
        BY <2>1, Zenon DEF Port!Turns, Port!Shows, Port!main
    <2>3. p \in PhoneStatus /\ p.id = dPhone.id /\ p.st = st
        BY <1>1, <2>1, StatusTurns
    <2> HIDE DEF p
    <2>4. NotBefore(dPhone, p)
        <3>1. Port!Rank(p) >= Port!Rank(dPhone)
            <4>1. CASE st = "active"
                BY <2>1, <2>3, <4>1 DEF Port!Rank, Port!Early
            <4>2. CASE st = "ended"
                <5>1. Port!Rank(p) = 3
                    BY <2>3, <4>2 DEF Port!Rank, Port!Early
                <5> QED BY <5>1, RankIs
            <4> QED BY <2>1, <4>1, <4>2
        <3> QED BY <2>3, <3>1 DEF NotBefore
    <2>5. Goes
        BY <2>1, <2>2, <2>3 DEF Goes
    <2> QED BY <1>1, <2>2, <2>3, <2>4, <2>5 DEF Moves
<1> QED BY <1>2, <1>3

\* The renderer acts on a command.
LEMMA ActsMoves ==
  ASSUME PortInv, NEW i \in Port!Issues, Port!Acts(i)
  PROVE  Moves({i})
<1>1. /\ dPhone \in PhoneStatus /\ dRings \in Nat /\ dPhone.id \in Nat /\ dPhone.id <= dRings /\ dRings <= MaxRings
      /\ dIssue \in [Port!Issues -> PhoneIssue] /\ Port!Ports = 0..MaxRings /\ (Port!Live(dPhone) => dPhone.id # 0)
      /\ dIssue[i].cmd \in Port!Orders
    BY OrdersAre, StatusIs DEF PortInv, PhoneInv, OrderTypes, ShownOf, PhoneIssue
<1>2. /\ dIssue[i].at = "sent" /\ Port!Able(dIssue[i].cmd[1]) /\ dIssue' = [dIssue EXCEPT ![i].at = "acted"]
      /\ dStray' = (IF Port!Hits(i) THEN dStray \cup {dPhone.id} ELSE dStray)
      /\ UNCHANGED <<dLatest, dLast, dSeen, dBound, dLoads, dHeard, dLoose, dShadowed>>
    BY Zenon DEF Port!Acts, Port!At, Port!main
<1>3. /\ dIssue' \in [Port!Issues -> PhoneIssue]
      /\ \A j \in Port!Issues : /\ dIssue'[j].cmd = dIssue[j].cmd /\ dIssue'[j].pc = dIssue[j].pc /\ dIssue'[j].for = dIssue[j].for
                                /\ dIssue'[j].at = IF j \in {i} THEN "acted" ELSE dIssue[j].at
    <2> DEFINE r == [dIssue[i] EXCEPT !.at = "acted"]
    <2>1. dIssue' = [dIssue EXCEPT ![i] = r]
        BY <1>1, <1>2
    <2>2. r \in PhoneIssue /\ r.cmd = dIssue[i].cmd /\ r.pc = dIssue[i].pc /\ r.for = dIssue[i].for /\ r.at = "acted"
        BY <1>1 DEF PhoneIssue
    <2> HIDE DEF r
    <2> QED BY <1>1, <2>1, <2>2
<1>4. dIssue[i].cmd[1] = "hangup" => ~Port!Hits(i)
    <2>1. ASSUME dIssue[i].cmd[1] = "hangup" PROVE ~Port!Hits(i)
        <3>1. Known(dPhone.id) /\ dPhone.id >= dOwn /\ dOwn \in Nat /\ dIssue[i].cmd[2] = 0
            BY <1>1, <1>2, <2>1, OrdersAre DEF PortInv, StrayInv, Heeds, Port!Able, OrderTypes
        <3> QED BY <1>1, <3>1 DEF Known, Port!Hits
    <2> QED BY <2>1
<1>5. dStray' = dStray
    BY <1>2, <1>4 DEF Port!Hits
<1>6. CASE dIssue[i].cmd[1] = "dial"
    <2> DEFINE p == [id |-> dRings + 1, st |-> "calling"]
    <2>1. /\ dRings < MaxRings /\ dRings' = dRings + 1 /\ dPhone' = p /\ dUp' = Append(dUp, Port!Status(p))
          /\ dCrossed' = (IF Port!Outstanding \ {i} # {} THEN dCrossed \cup {dRings + 1} ELSE dCrossed) /\ dOwn' = dRings + 1
        BY <1>6, Zenon DEF Port!Acts, Port!Begins, Port!Shows, Port!New
    <2>2. p \in PhoneStatus /\ p.id = dRings + 1
        <3>1. dRings + 1 \in Port!Ports /\ dRings + 1 # 0
            BY <1>1, <2>1, OrdersAre
        <3> QED BY <3>1 DEF PhoneStatus
    <2> HIDE DEF p
    <2>3. Goes /\ NotBefore(dPhone, dPhone')
        BY <1>1, <2>1, <2>2 DEF Goes, NotBefore
    <2>4. dCrossed \subseteq dCrossed'
        BY <2>1
    <2> QED BY <1>2, <1>3, <1>5, <1>6, <2>1, <2>2, <2>3, <2>4 DEF Moves
<1>7. CASE dIssue[i].cmd[1] # "dial"
    <2>1. PICK st \in {"active", "ended", dPhone.st} :
            /\ st = "active" => dPhone.st \in {"ringing", "active"}
            /\ dIssue[i].cmd[1] = "hangup" => st = "ended"
            /\ Port!Live(dPhone)
            /\ dPhone' = [dPhone EXCEPT !.st = st] /\ dUp' = Append(dUp, Port!Status(dPhone'))
            /\ UNCHANGED <<dRings, dOwn, dCrossed>>
        <3>1. /\ UNCHANGED <<dRings, dOwn, dCrossed>> /\ dUp' = Append(dUp, Port!Status(dPhone'))
              /\ dPhone' = CASE dIssue[i].cmd[1] = "answer" -> [dPhone EXCEPT !.st = "active"]
                             [] dIssue[i].cmd[1] = "transfer" -> dPhone [] OTHER -> [dPhone EXCEPT !.st = "ended"]
            BY <1>7, Zenon DEF Port!Acts, Port!Shows
        <3>2. Port!Live(dPhone) /\ (dIssue[i].cmd[1] = "answer" => dPhone.st = "ringing")
            BY <1>1, <1>2, <1>7, OrdersAre DEF Port!Able, Port!Live, Port!Early
        <3>3. CASE dIssue[i].cmd[1] = "answer"
            BY <3>1, <3>2, <3>3
        <3>4. CASE dIssue[i].cmd[1] = "transfer"
            <4>1. dPhone = [dPhone EXCEPT !.st = dPhone.st]
                BY <1>1, StatusTurns
            <4>2. dPhone.st = "active" => dPhone.st \in {"ringing", "active"}
                OBVIOUS
            <4> QED BY <3>1, <3>2, <3>4, <4>1, <4>2
        <3>5. CASE dIssue[i].cmd[1] \notin {"answer", "transfer"}
            BY <3>1, <3>2, <3>5
        <3> QED BY <3>3, <3>4, <3>5
    <2>2. dPhone' \in PhoneStatus /\ dPhone'.id = dPhone.id /\ dPhone'.st = st
        BY <1>1, <2>1 DEF PhoneStatus, Port!Live, Port!Early
    <2>3. NotBefore(dPhone, dPhone')
        <3>1. Port!Rank(dPhone') >= Port!Rank(dPhone)
            <4>1. CASE st = "active"
                BY <2>1, <2>2, <4>1 DEF Port!Rank, Port!Early
            <4>2. CASE st = "ended"
                <5>1. Port!Rank(dPhone') = 3
                    BY <2>2, <4>2 DEF Port!Rank, Port!Early
                <5> QED BY <5>1, RankIs
            <4>3. CASE st = dPhone.st
                <5>1. Port!Rank(dPhone') = Port!Rank(dPhone)
                    BY <2>2, <4>3 DEF Port!Rank
                <5> QED BY <5>1, RankIs
            <4> QED BY <2>1, <4>1, <4>2, <4>3
        <3> QED BY <2>2, <3>1 DEF NotBefore
    <2>4. Goes /\ (dIssue[i].cmd[1] = "hangup" => ~Port!Live(dPhone'))
        BY <2>1, <2>2 DEF Goes, Port!Live, Port!Early
    <2> QED BY <1>2, <1>3, <1>5, <1>7, <2>1, <2>2, <2>3, <2>4 DEF Moves
<1> QED BY <1>6, <1>7

\* Commands fail, those of F, and messages are lost, received or overtaken; when
\* the page is loaded again, nothing is left for it to do.
Drops(F) ==
  /\ dIssue' \in [Port!Issues -> PhoneIssue] /\ \A j \in F : j \in Port!Issues /\ dIssue[j].pc = "waiting"
  /\ \A j \in Port!Issues : /\ dIssue'[j].cmd = dIssue[j].cmd /\ dIssue'[j].for = dIssue[j].for
                            /\ dIssue'[j].pc = IF j \in F THEN "failed" ELSE dIssue[j].pc
                            /\ dIssue'[j].at \in {dIssue[j].at, "none"}
                            /\ dIssue'[j].pc = "waiting" => dIssue'[j].at = dIssue[j].at
  /\ dSeen' = dSeen \ {dIssue[j].cmd : j \in F}
  /\ PhoneInv' /\ dLoads' \in 0..MaxLoads /\ \A s \in ShownOf' : Port!Live(s) => s \in ShownOf
  /\ \A m \in Said' : m \in Said \/ m.of = 0
  /\ \A m \in Said : m \in Said' \/ m.of = 0 \/ dIssue'[m.of].pc # "waiting"
  /\ \/ dPhone' = dPhone
     \/ dPhone'.id = 0 /\ ~Port!Live(dPhone') /\ \A j \in Port!Issues : dIssue'[j].at = "none" /\ dIssue'[j].pc # "waiting"
  /\ UNCHANGED <<dRings, dLast, dBound, dHeard, dOwn, dLoose, dCrossed, dShadowed, dStray>>

\* Commands are dropped, and the invariant is kept.
LEMMA DropsKeeps ==
  ASSUME PortInv, NEW F, Drops(F)
  PROVE  PortInv'
<1>1. /\ dIssue' \in [Port!Issues -> PhoneIssue] /\ \A j \in F : j \in Port!Issues /\ dIssue[j].pc = "waiting"
      /\ dSeen' = dSeen \ {dIssue[j].cmd : j \in F}
      /\ UNCHANGED <<dRings, dLast, dBound, dHeard, dOwn, dLoose, dCrossed, dShadowed, dStray>>
    BY Zenon DEF Drops
<1>2. \A j \in Port!Issues : /\ dIssue'[j].cmd = dIssue[j].cmd /\ dIssue'[j].for = dIssue[j].for
                             /\ dIssue'[j].pc = IF j \in F THEN "failed" ELSE dIssue[j].pc
                             /\ dIssue'[j].at \in {dIssue[j].at, "none"}
                             /\ dIssue'[j].pc = "waiting" => dIssue'[j].at = dIssue[j].at
    BY Zenon DEF Drops
<1>3. /\ PhoneInv' /\ dLoads' \in 0..MaxLoads /\ \A s \in ShownOf' : Port!Live(s) => s \in ShownOf
      /\ \A m \in Said' : m \in Said \/ m.of = 0
      /\ \A m \in Said : m \in Said' \/ m.of = 0 \/ dIssue'[m.of].pc # "waiting"
    BY Zenon DEF Drops
<1>4. \/ dPhone' = dPhone
      \/ dPhone'.id = 0 /\ ~Port!Live(dPhone') /\ \A j \in Port!Issues : dIssue'[j].at = "none" /\ dIssue'[j].pc # "waiting"
    BY Zenon DEF Drops
<1>5. PhoneInv /\ OrderTypes /\ OrderInv /\ StrayInv /\ OverInv /\ RungInv
    BY DEF PortInv
<1>6. \A j \in Port!Issues : j # 0
    BY OrdersAre
<1>7. OrderTypes'
    <2>1. dSeen' \subseteq Port!Orders
        BY <1>1, <1>5 DEF OrderTypes
    <2>2. \A j \in Port!Issues : dIssue'[j].for <= dRings'
        BY <1>1, <1>2, <1>5 DEF OrderTypes
    <2> QED BY <1>1, <1>3, <1>5, <2>1, <2>2 DEF OrderTypes
<1>8. OrderInv'
    <2>1. \A j \in Port!Issues : dIssue'[j].at # "none" => dIssue'[j].pc \in {"waiting", "failed"} /\ \A n \in Said' : n.of # j
        BY <1>2, <1>3, <1>5, <1>6 DEF OrderInv
    <2>2. \A n \in Said' : n.of # 0 => dIssue'[n.of].pc # "new"
        BY <1>2, <1>3, <1>5, SaidIs DEF OrderInv
    <2>3. \A j, k \in Port!Issues : j < k /\ dIssue'[k].pc # "new" => dIssue'[j].pc # "new"
        <3>1. \A j \in Port!Issues : dIssue'[j].pc = "new" <=> dIssue[j].pc = "new"
            BY <1>1, <1>2
        <3> QED BY <1>5, <3>1 DEF OrderInv
    <2>4. ASSUME NEW j \in Port!Issues, Under(j)' PROVE dIssue'[j].cmd \in dSeen'
        <3>1. j \notin F /\ Under(j) /\ dIssue[j].cmd \in dSeen
            BY <1>2, <1>5, <2>4 DEF Under, OrderInv
        <3>2. ASSUME NEW k \in F PROVE dIssue[k].cmd # dIssue[j].cmd
            <4>1. k \in Port!Issues /\ dIssue[k].pc = "waiting" /\ Under(k) /\ k # j
                BY <1>1, <3>1 DEF Under
            <4>2. j < k \/ k < j
                BY <4>1, OrdersAre
            <4> QED BY <1>5, <3>1, <4>1, <4>2 DEF OrderInv, Under
        <3> QED BY <1>1, <1>2, <3>1, <3>2
    <2>5. \A j, k \in Port!Issues : j < k /\ dIssue'[j].cmd = dIssue'[k].cmd /\ Under(j)' => dIssue'[k].pc \in {"new", "repeated"}
        <3>1. \A j \in Port!Issues : Under(j)' => Under(j)
            BY <1>2 DEF Under
        <3>2. \A k \in Port!Issues : dIssue[k].pc \in {"new", "repeated"} => dIssue'[k].pc = dIssue[k].pc
            BY <1>1, <1>2
        <3> QED BY <1>2, <1>5, <3>1, <3>2 DEF OrderInv
    <2> QED BY <2>1, <2>2, <2>3, <2>4, <2>5 DEF OrderInv
<1>k. \A x : Known(x) <=> Known(x)'
    BY <1>1 DEF Known
<1>e. Rung => Rung'
    BY <1>1, <1>2, ExcusedStays DEF Rung
<1>g. Goes
    BY <1>4 DEF Goes
<1>9. StrayInv'
    <2>1. ASSUME NEW j \in Port!Issues, Heeds(j)' PROVE Known(dPhone.id)'
        <3>1. Heeds(j) /\ dPhone' = dPhone
            BY <1>2, <1>4, <2>1 DEF Heeds
        <3>2. Known(dPhone.id)
            BY <1>5, <3>1 DEF StrayInv
        <3> QED BY <1>1, <3>1, <3>2 DEF Known
    <2>2. \A n \in Said' : n.of # 0 /\ n.ok /\ dIssue'[n.of].cmd[1] \in {"dial", "hangup"} => Known(n.phone.id)'
        BY <1>2, <1>3, <1>5, <1>k, SaidIs DEF StrayInv
    <2>3. Known(dBound[0])'
        BY <1>1, <1>5 DEF StrayInv, Known
    <2>4. dPhone'.id = 0 \/ dPhone'.id >= dOwn'
        BY <1>1, <1>4, <1>5 DEF StrayInv
    <2> QED BY <1>1, <1>5, <2>1, <2>2, <2>3, <2>4 DEF StrayInv
<1>10. OverInv'
    <2>1. ASSUME NEW j \in Port!Issues, dIssue'[j].cmd[1] = "hangup",
                 dIssue'[j].at = "acted" \/ dIssue'[j].pc = "done" \/ \E n \in Said' : n.of = j /\ n.ok
          PROVE  Ended(j)'
        <3>1. Ended(j)
            BY <1>2, <1>3, <1>5, <1>6, <2>1, OverIs
        <3> QED BY <1>2, <1>5, <1>g, <3>1, EndedStays
    <2> QED BY <2>1 DEF OverInv, Ended
<1>11. RungInv'
    <2>1. "connected" \in dHeard' => Rung'
        BY <1>1, <1>5, <1>e DEF RungInv
    <2>2. \A x : Past(x) => Past(x)'
        BY <1>3 DEF Past
    <2>3. dBound'[0] # 0 => Rung' \/ Past(dBound[0])'
        BY <1>1, <1>5, <1>e, <2>2 DEF RungInv, Past
    <2>4. dOwn' # 0 => Rung' \/ Past(dOwn)' \/ \E j \in Port!Issues : Dialled(j)'
        <3>1. ASSUME NEW j \in Port!Issues, Dialled(j) PROVE Dialled(j)' \/ Rung'
            <4>1. CASE j \in F
                BY <1>2, <3>1, <4>1 DEF Dialled, Rung, Excused, Fails
            <4>2. CASE j \notin F
                BY <1>2, <1>3, <1>6, <3>1, <4>2 DEF Dialled
            <4> QED BY <4>1, <4>2
        <3> QED BY <1>1, <1>5, <1>e, <2>2, <3>1 DEF RungInv, Past
    <2>5. \A j \in Port!Issues : dIssue'[j].cmd[1] = "hangup" /\ dIssue'[j].pc = "waiting" => Rung'
        BY <1>2, <1>5, <1>e DEF RungInv
    <2>6. ASSUME ~dShadowed', NEW j \in Port!Issues, dIssue'[j].pc = "waiting", dIssue'[j].cmd[1] = "dial"
          PROVE  /\ dIssue'[j].at = "acted" => dLast'.id < dPhone'.id /\ dOwn' <= dPhone'.id
                 /\ \A n \in Said' : n.of = j /\ n.ok => dLast'.id < n.phone.id /\ dOwn' <= n.phone.id
        BY <1>1, <1>2, <1>3, <1>4, <1>5, <1>6, <2>6 DEF RungInv
    <2>7. ASSUME NEW j \in Port!Outstanding', NEW k \in Port!Outstanding', j # k, dIssue'[j].cmd[1] = "dial"
          PROVE  dShadowed'
        <3>1. j \in Port!Outstanding /\ k \in Port!Outstanding /\ dIssue[j].cmd[1] = "dial"
            BY <1>2, <2>7, OutstandingIs
        <3> QED BY <1>1, <1>5, <2>7, <3>1 DEF RungInv
    <2> QED BY <2>1, <2>3, <2>4, <2>5, <2>6, <2>7 DEF RungInv
<1> QED BY <1>3, <1>7, <1>8, <1>9, <1>10, <1>11 DEF PortInv

\* The renderer answers a command: the result is of what it shows by then.
LEMMA AnswersKeeps ==
  ASSUME PortInv, NEW i \in Port!Issues, Port!Answers(i)
  PROVE  PortInv'
<1>5. PhoneInv /\ OrderTypes /\ OrderInv /\ StrayInv /\ OverInv /\ RungInv
    BY DEF PortInv
<1>1. PICK ok \in BOOLEAN : /\ dUp' = Append(dUp, [of |-> i, ok |-> ok, phone |-> dPhone])
                            /\ ok => dIssue[i].at = "acted"
                            /\ ~ok => dIssue[i].at = "sent"
    BY Zenon DEF Port!Answers
<1>2. /\ dIssue' = [dIssue EXCEPT ![i].at = "none"] /\ dIssue[i].at # "none"
      /\ UNCHANGED <<dLatest, dLast, dSeen, dBound, dLoads, dHeard, dLoose, dShadowed, dPhone, dRings, dOwn, dCrossed, dStray>>
    BY DEF Port!Answers, Port!At, Port!main
<1>3. /\ dIssue' \in [Port!Issues -> PhoneIssue]
      /\ \A j \in Port!Issues : /\ dIssue'[j].cmd = dIssue[j].cmd /\ dIssue'[j].pc = dIssue[j].pc /\ dIssue'[j].for = dIssue[j].for
                                /\ dIssue'[j].at = IF j = i THEN "none" ELSE dIssue[j].at
    <2> DEFINE r == [dIssue[i] EXCEPT !.at = "none"]
    <2>0. dIssue \in [Port!Issues -> PhoneIssue] /\ dIssue[i] \in PhoneIssue
        BY <1>5 DEF OrderTypes
    <2>1. dIssue' = [dIssue EXCEPT ![i] = r]
        BY <1>2, <2>0
    <2>2. r \in PhoneIssue /\ r.cmd = dIssue[i].cmd /\ r.pc = dIssue[i].pc /\ r.for = dIssue[i].for /\ r.at = "none"
        BY <2>0 DEF PhoneIssue
    <2> HIDE DEF r
    <2> QED BY <2>0, <2>1, <2>2
<1> DEFINE m == [of |-> i, ok |-> ok, phone |-> dPhone]
<1>4. m \in PhoneMessage /\ m.of = i /\ m.ok = ok /\ m.phone = dPhone /\ dUp' = Append(dUp, m)
    BY <1>1, <1>5, OrdersAre DEF PhoneMessage, PhoneInv
<1> HIDE DEF m
<1>6. PhoneInv' /\ Said' = Said \cup {m} /\ ShownOf' \subseteq ShownOf
    <2>1. /\ dPhone \in PhoneStatus /\ dRings \in 0..MaxRings /\ dPhone.id <= dRings /\ dPhone \in ShownOf /\ dRings >= dRings
          /\ NotBefore(dPhone, dPhone)
        BY <1>5, NotBeforeSelf, OrdersAre DEF PhoneInv, ShownOf
    <2> QED BY <1>2, <1>4, <1>5, <2>1, PhoneSends
<1>7. OrderTypes'
    BY <1>2, <1>3, <1>5 DEF OrderTypes
<1>8. OrderInv'
    <2>1. \A j \in Port!Issues : dIssue'[j].at # "none" => dIssue'[j].pc \in {"waiting", "failed"} /\ \A n \in Said' : n.of # j
        BY <1>3, <1>4, <1>5, <1>6 DEF OrderInv
    <2>2. \A n \in Said' : n.of # 0 => dIssue'[n.of].pc # "new"
        BY <1>2, <1>3, <1>4, <1>5, <1>6, SaidIs DEF OrderInv
    <2>3. \A j, k \in Port!Issues : j < k /\ dIssue'[k].pc # "new" => dIssue'[j].pc # "new"
        BY <1>3, <1>5 DEF OrderInv
    <2>4. \A j \in Port!Issues : Under(j)' => dIssue'[j].cmd \in dSeen'
        BY <1>2, <1>3, <1>5 DEF OrderInv, Under
    <2>5. \A j, k \in Port!Issues : j < k /\ dIssue'[j].cmd = dIssue'[k].cmd /\ Under(j)' => dIssue'[k].pc \in {"new", "repeated"}
        BY <1>3, <1>5 DEF OrderInv, Under
    <2> QED BY <2>1, <2>2, <2>3, <2>4, <2>5 DEF OrderInv
<1>k. \A x : Known(x) <=> Known(x)'
    BY <1>2 DEF Known
<1>e. Rung => Rung'
    BY <1>2, <1>3, ExcusedStays DEF Rung
<1>9. StrayInv'
    <2>1. \A j \in Port!Issues : Heeds(j)' => Known(dPhone.id)'
        BY <1>2, <1>3, <1>5, <1>k DEF StrayInv, Heeds
    <2>2. \A n \in Said' : n.of # 0 /\ n.ok /\ dIssue'[n.of].cmd[1] \in {"dial", "hangup"} => Known(n.phone.id)'
        <3>1. ok /\ dIssue[i].cmd[1] \in {"dial", "hangup"} => Known(dPhone.id)
            BY <1>1, <1>5 DEF StrayInv, Heeds
        <3> QED BY <1>3, <1>4, <1>5, <1>6, <1>k, <3>1, SaidIs DEF StrayInv
    <2> QED BY <1>2, <1>5, <1>k, <2>1, <2>2 DEF StrayInv
<1>10. OverInv'
    <2>1. ASSUME NEW j \in Port!Issues, dIssue'[j].cmd[1] = "hangup",
                 dIssue'[j].at = "acted" \/ dIssue'[j].pc = "done" \/ \E n \in Said' : n.of = j /\ n.ok
          PROVE  Ended(j)'
        <3>1. Ended(j)
            BY <1>1, <1>3, <1>4, <1>5, <1>6, <2>1, OverIs
        <3> QED BY <1>2, <1>3, <3>1 DEF Ended
    <2> QED BY <2>1 DEF OverInv, Ended
<1>11. RungInv'
    <2>1. "connected" \in dHeard' => Rung'
        BY <1>2, <1>5, <1>e DEF RungInv
    <2>2. \A x : Past(x) => Past(x)'
        BY <1>6 DEF Past
    <2>3. dBound'[0] # 0 => Rung' \/ Past(dBound[0])'
        BY <1>2, <1>5, <1>e, <2>2 DEF RungInv, Past
    <2>4. dOwn' # 0 => Rung' \/ Past(dOwn)' \/ \E j \in Port!Issues : Dialled(j)'
        <3>1. ASSUME NEW j \in Port!Issues, Dialled(j) PROVE Dialled(j)'
            <4>1. CASE j = i
                <5>1. \A n \in Said : n.of # i
                    BY <1>2, <1>5 DEF OrderInv
                <5>2. dIssue[i].at = "acted"
                    BY <3>1, <4>1, <5>1 DEF Dialled
                <5>3. m \in Said' /\ m.of = i /\ m.ok
                    BY <1>1, <1>4, <1>6, <5>2
                <5> QED BY <1>3, <3>1, <4>1, <5>3 DEF Dialled
            <4>2. CASE j # i
                BY <1>3, <1>6, <3>1, <4>2 DEF Dialled
            <4> QED BY <4>1, <4>2
        <3> QED BY <1>2, <1>5, <1>e, <2>2, <3>1 DEF RungInv, Past
    <2>5. \A j \in Port!Issues : dIssue'[j].cmd[1] = "hangup" /\ dIssue'[j].pc = "waiting" => Rung'
        BY <1>3, <1>5, <1>e DEF RungInv
    <2>6. ASSUME ~dShadowed', NEW j \in Port!Issues, dIssue'[j].pc = "waiting", dIssue'[j].cmd[1] = "dial"
          PROVE  /\ dIssue'[j].at = "acted" => dLast'.id < dPhone'.id /\ dOwn' <= dPhone'.id
                 /\ \A n \in Said' : n.of = j /\ n.ok => dLast'.id < n.phone.id /\ dOwn' <= n.phone.id
        BY <1>1, <1>2, <1>3, <1>4, <1>5, <1>6, <2>6 DEF RungInv
    <2>7. ASSUME NEW j \in Port!Outstanding', NEW k \in Port!Outstanding', j # k, dIssue'[j].cmd[1] = "dial"
          PROVE  dShadowed'
        <3>1. j \in Port!Outstanding /\ k \in Port!Outstanding /\ dIssue[j].cmd[1] = "dial"
            BY <1>3, <2>7, OutstandingIs
        <3> QED BY <1>2, <1>5, <2>7, <3>1 DEF RungInv
    <2> QED BY <2>1, <2>3, <2>4, <2>5, <2>6, <2>7 DEF RungInv
<1> QED BY <1>6, <1>7, <1>8, <1>9, <1>10, <1>11 DEF PortInv

\* A command that waits fails: the type of what is left of it.
LEMMA FailsIs ==
  ASSUME PortInv, NEW i \in Port!Issues, dIssue[i].pc = "waiting", dIssue' = [dIssue EXCEPT ![i].pc = "failed"]
  PROVE  /\ dIssue' \in [Port!Issues -> PhoneIssue]
         /\ \A j \in Port!Issues : /\ dIssue'[j].cmd = dIssue[j].cmd /\ dIssue'[j].for = dIssue[j].for
                                   /\ dIssue'[j].pc = IF j \in {i} THEN "failed" ELSE dIssue[j].pc
                                   /\ dIssue'[j].at = dIssue[j].at
<1> DEFINE r == [dIssue[i] EXCEPT !.pc = "failed"]
<1>1. dIssue \in [Port!Issues -> PhoneIssue] /\ dIssue[i] \in PhoneIssue
    BY DEF PortInv, OrderTypes
<1>2. dIssue' = [dIssue EXCEPT ![i] = r]
    BY <1>1
<1>3. r \in PhoneIssue /\ r.cmd = dIssue[i].cmd /\ r.pc = "failed" /\ r.for = dIssue[i].for /\ r.at = dIssue[i].at
    BY <1>1 DEF PhoneIssue
<1> HIDE DEF r
<1> QED BY <1>1, <1>2, <1>3

\* A command that waited too long fails.
LEMMA TimeoutKeeps ==
  ASSUME PortInv, NEW i \in Port!Issues, Port!Timeout(i)
  PROVE  PortInv'
<1>1. /\ dIssue[i].pc = "waiting" /\ dIssue' = [dIssue EXCEPT ![i].pc = "failed"] /\ dSeen' = dSeen \ {dIssue[i].cmd}
      /\ UNCHANGED <<dPhone, dRings, dUp, dLatest, dLast, dBound, dLoads, dHeard, dOwn, dLoose, dCrossed, dShadowed, dStray>>
    BY DEF Port!Timeout, Port!Ended, Port!Forgotten, Port!Waiting
<1>2. Said' = Said /\ ShownOf' = ShownOf /\ PhoneInv'
    BY <1>1 DEF Said, ShownOf, PhoneInv, NotBefore, PortInv
<1>3. dLoads' \in 0..MaxLoads /\ {dIssue[j].cmd : j \in {i}} = {dIssue[i].cmd}
    BY <1>1 DEF PortInv, OrderTypes
<1>4. Drops({i})
    BY <1>1, <1>2, <1>3, FailsIs DEF Drops
<1> QED BY <1>4, DropsKeeps

\* The window is loaded again, and whoever waits is told that it failed.
LEMMA ReloadKeeps ==
  ASSUME PortInv, Port!Reload
  PROVE  PortInv'
<1>1. /\ dLoads < MaxLoads /\ dLoads' = dLoads + 1 /\ dLatest' = Port!Unpublished /\ dPhone' = Port!Silent
      /\ dUp' = <<Port!Status(Port!Silent)>> /\ dSeen' = dSeen \ {dIssue[i].cmd : i \in Port!Waiting}
      /\ dIssue' = [i \in Port!Issues |-> IF i \in Port!Waiting THEN [dIssue[i] EXCEPT !.pc = "failed", !.at = "none"]
                                          ELSE [dIssue[i] EXCEPT !.at = "none"]]
      /\ UNCHANGED <<dRings, dLast, dBound, dHeard, dOwn, dLoose, dCrossed, dShadowed, dStray>>
    BY Zenon DEF Port!Reload
<1> DEFINE W == Port!Waiting
<1>2. \A j : j \in W <=> j \in Port!Issues /\ dIssue[j].pc = "waiting"
    BY DEF Port!Waiting
<1>3. /\ dIssue' \in [Port!Issues -> PhoneIssue]
      /\ \A j \in Port!Issues : /\ dIssue'[j].cmd = dIssue[j].cmd /\ dIssue'[j].for = dIssue[j].for
                                /\ dIssue'[j].pc = IF j \in W THEN "failed" ELSE dIssue[j].pc
                                /\ dIssue'[j].at = "none"
    <2>1. \A j \in Port!Issues : dIssue[j] \in PhoneIssue
        BY DEF PortInv, OrderTypes
    <2>3. ASSUME NEW j \in Port!Issues
          PROVE  /\ dIssue'[j] \in PhoneIssue /\ dIssue'[j].cmd = dIssue[j].cmd /\ dIssue'[j].for = dIssue[j].for
                 /\ dIssue'[j].pc = (IF j \in W THEN "failed" ELSE dIssue[j].pc) /\ dIssue'[j].at = "none"
        <3>1. dIssue'[j] = IF j \in W THEN [dIssue[j] EXCEPT !.pc = "failed", !.at = "none"] ELSE [dIssue[j] EXCEPT !.at = "none"]
            BY <1>1
        <3> HIDE DEF W
        <3>2. dIssue[j] \in PhoneIssue
            BY <2>1
        <3>3. CASE j \in W
            <4> DEFINE e == [dIssue[j] EXCEPT !.pc = "failed", !.at = "none"]
            <4>1. e \in PhoneIssue /\ e.cmd = dIssue[j].cmd /\ e.for = dIssue[j].for /\ e.pc = "failed" /\ e.at = "none"
                BY <3>2 DEF PhoneIssue
            <4>2. dIssue'[j] = e
                BY <3>1, <3>3
            <4> HIDE DEF e
            <4> QED BY <3>3, <4>1, <4>2
        <3>4. CASE j \notin W
            <4> DEFINE e == [dIssue[j] EXCEPT !.at = "none"]
            <4>1. e \in PhoneIssue /\ e.cmd = dIssue[j].cmd /\ e.for = dIssue[j].for /\ e.pc = dIssue[j].pc /\ e.at = "none"
                BY <3>2 DEF PhoneIssue
            <4>2. dIssue'[j] = e
                BY <3>1, <3>4
            <4> HIDE DEF e
            <4> QED BY <3>4, <4>1, <4>2
        <3> QED BY <3>3, <3>4
    <2>4. DOMAIN dIssue' = Port!Issues /\ dIssue' = [j \in Port!Issues |-> dIssue'[j]]
        BY <1>1
    <2> HIDE DEF W
    <2> QED BY <2>3, <2>4
<1>4. dSeen' = dSeen \ {dIssue[j].cmd : j \in W}
    BY <1>1
<1> HIDE DEF W
<1>5. PhoneInv' /\ Said' = {Port!Status(Port!Silent)} /\ \A s \in ShownOf' : ~Port!Live(s)
    BY <1>1, PhoneReloads DEF PortInv
<1>6. Port!Status(Port!Silent).of = 0 /\ dPhone'.id = 0 /\ ~Port!Live(dPhone')
    BY <1>1, StatusIs DEF Port!Status
<1>7. dLoads' \in 0..MaxLoads
    <2>1. dLoads \in 0..MaxLoads /\ dLoads < MaxLoads /\ dLoads' = dLoads + 1
        BY <1>1, Zenon DEF PortInv, OrderTypes
    <2> QED BY <2>1, OrdersAre
<1>8. \A j \in Port!Issues : dIssue'[j].pc # "waiting"
    BY <1>2, <1>3
<1>9. \A m \in Said : m \in Said' \/ m.of = 0 \/ dIssue'[m.of].pc # "waiting"
    BY <1>8, SaidIs DEF PortInv
<1>10. \A m \in Said' : m \in Said \/ m.of = 0
    BY <1>5, <1>6
<1>11. Drops(W)
    BY <1>1, <1>2, <1>3, <1>4, <1>5, <1>6, <1>7, <1>8, <1>9, <1>10 DEF Drops
<1> QED BY <1>11, DropsKeeps

\* What is observed when the status is s: that it rings or connects.
LEMMA ObservedOf ==
  ASSUME NEW s
  PROVE  /\ "connected" \in Port!Observed(s) => s.st = "active"
         /\ s.st \in {"calling", "ringing", "active"} /\ dLast.id # s.id => "ringing" \in Port!Observed(s)
BY DEF Port!Observed, Port!Early

\* A command went well.
LEMMA FinishKeeps ==
  ASSUME PortInv, NEW i \in Port!Issues, dIssue[i].pc = "waiting", dUp # <<>>, Head(dUp).of = i, Head(dUp).ok,
         dUp' = Tail(dUp), dLatest' = Head(dUp).phone, Port!Finish(i, Head(dUp).phone), dSeen' = dSeen,
         UNCHANGED <<dPhone, dRings, dLoads, dOwn, dCrossed, dShadowed, dStray>>
  PROVE  PortInv'
<1> DEFINE h == Head(dUp)
           s == h.phone
           p == dIssue[i].cmd[2]
           kind == dIssue[i].cmd[1]
<1>1. PhoneInv /\ OrderTypes /\ OrderInv /\ StrayInv /\ OverInv /\ RungInv
    BY DEF PortInv
<1>2. /\ PhoneInv' /\ h \in Said /\ h \in PhoneMessage /\ Said' \subseteq Said /\ Said \subseteq Said' \cup {h}
      /\ ShownOf' \subseteq ShownOf /\ \A t \in {dPhone} \cup {m.phone : m \in Said'} : NotBefore(s, t)
      /\ \A t \in ShownOf : t = Port!Unpublished \/ t \in PhoneStatus
    BY <1>1, PhoneGets
<1>3. /\ dBound' = (IF s.id = 0 THEN dBound ELSE [dBound EXCEPT ![p] = s.id])
      /\ dLoose' = (IF kind \in {"answer", "reject", "transfer"} /\ s.id \notin {0, p} /\ ~(p = 0 /\ s.id = dOwn)
                    THEN dLoose \cup {p} ELSE dLoose)
      /\ dHeard' = (IF p = 0 THEN dHeard \cup (Port!Observed(s) \cap {"ringing", "connected"}) ELSE dHeard)
      /\ dLast' = s /\ dIssue' = [dIssue EXCEPT ![i].pc = "done"]
    BY Zenon DEF Port!Finish, Port!Ended
<1>4. /\ dIssue' \in [Port!Issues -> PhoneIssue]
      /\ \A j \in Port!Issues : /\ dIssue'[j].cmd = dIssue[j].cmd /\ dIssue'[j].for = dIssue[j].for
                                /\ dIssue'[j].pc = IF j = i THEN "done" ELSE dIssue[j].pc
                                /\ dIssue'[j].at = dIssue[j].at
    <2> DEFINE r == [dIssue[i] EXCEPT !.pc = "done"]
    <2>1. dIssue \in [Port!Issues -> PhoneIssue] /\ dIssue[i] \in PhoneIssue
        BY <1>1 DEF OrderTypes
    <2>2. dIssue' = [dIssue EXCEPT ![i] = r]
        BY <1>3, <2>1
    <2>3. r \in PhoneIssue /\ r.cmd = dIssue[i].cmd /\ r.pc = "done" /\ r.for = dIssue[i].for /\ r.at = dIssue[i].at
        BY <2>1 DEF PhoneIssue
    <2> HIDE DEF r
    <2> QED BY <2>1, <2>2, <2>3
<1> HIDE DEF h, s, p, kind
<1>5. h.of = i /\ h.ok /\ s = h.phone /\ dLatest' = s
    BY DEF h, s
<1>6. s \in PhoneStatus /\ s \in ShownOf /\ s.id \in Nat /\ s.id \in Port!Ports /\ s.id <= dRings
    BY <1>1, <1>2, <1>5, SaidIs, StatusIs DEF PhoneInv
<1>7. kind = dIssue[i].cmd[1] /\ p \in {0, 1} /\ (kind \in {"dial", "transfer", "hangup"} <=> p = 0)
      /\ kind \in {"dial", "transfer", "hangup", "answer", "reject"}
    <2>1. dIssue[i].cmd \in Port!Orders
        BY <1>1 DEF OrderTypes, PhoneIssue
    <2> QED BY <2>1, OrdersAre DEF kind, p
<1>8. i # 0 /\ dIssue[i].at = "none"
    BY <1>1, <1>2, <1>5, OrdersAre DEF OrderInv
<1>9. /\ dBound' \in [Port!Ports -> Port!Ports]
      /\ dBound'[0] = IF p = 0 /\ s.id # 0 THEN s.id ELSE dBound[0]
    <2>1. dBound \in [Port!Ports -> Port!Ports] /\ p \in Port!Ports /\ 0 \in Port!Ports
        BY <1>1, <1>7, OrdersAre DEF OrderTypes
    <2> QED BY <1>3, <1>6, <1>7, <2>1
<1>10. OrderTypes'
    BY <1>1, <1>3, <1>4, <1>6, <1>9 DEF OrderTypes
<1>11. OrderInv'
    <2>1. \A j \in Port!Issues : dIssue'[j].at # "none" => dIssue'[j].pc \in {"waiting", "failed"} /\ \A n \in Said' : n.of # j
        BY <1>1, <1>2, <1>4, <1>8 DEF OrderInv
    <2>2. \A n \in Said' : n.of # 0 => dIssue'[n.of].pc # "new"
        BY <1>1, <1>2, <1>4, SaidIs DEF OrderInv
    <2>3. \A j, k \in Port!Issues : j < k /\ dIssue'[k].pc # "new" => dIssue'[j].pc # "new"
        BY <1>1, <1>4 DEF OrderInv
    <2>4. \A j \in Port!Issues : Under(j)' <=> Under(j)
        BY <1>4 DEF Under
    <2>5. \A j \in Port!Issues : Under(j)' => dIssue'[j].cmd \in dSeen'
        BY <1>1, <1>4, <2>4 DEF OrderInv
    <2>6. ASSUME NEW j \in Port!Issues, NEW k \in Port!Issues, j < k, dIssue'[j].cmd = dIssue'[k].cmd, Under(j)'
          PROVE  dIssue'[k].pc \in {"new", "repeated"}
        <3>1. dIssue[k].pc \in {"new", "repeated"}
            BY <1>1, <1>4, <2>4, <2>6 DEF OrderInv
        <3> QED BY <1>4, <3>1
    <2> QED BY <2>1, <2>2, <2>3, <2>5, <2>6 DEF OrderInv
<1>l. dLoose \subseteq dLoose'
    BY <1>3
<1>k. \A x : Known(x) => Known(x)'
    BY <1>l DEF Known
<1>e. Rung => Rung'
    <2>1. Excused => Excused'
        BY <1>4, <1>l, ExcusedStays
    <2> QED BY <1>3, <2>1 DEF Rung
<1>12. StrayInv'
    <2>1. \A j \in Port!Issues : Heeds(j)' => Known(dPhone.id)'
        BY <1>1, <1>4, <1>k DEF StrayInv, Heeds
    <2>2. \A n \in Said' : n.of # 0 /\ n.ok /\ dIssue'[n.of].cmd[1] \in {"dial", "hangup"} => Known(n.phone.id)'
        BY <1>1, <1>2, <1>4, <1>k, SaidIs DEF StrayInv
    <2>3. Known(dBound[0])'
        <3>1. CASE dBound'[0] = dBound[0]
            <4>1. Known(dBound[0])
                BY <1>1 DEF StrayInv
            <4> QED BY <1>l, <3>1, <4>1 DEF Known
        <3>2. CASE kind \in {"dial", "hangup"} /\ dBound'[0] = s.id
            <4>1. Known(s.id)
                BY <1>1, <1>2, <1>5, <1>7, <1>8, <3>2 DEF StrayInv
            <4> QED BY <1>l, <3>2, <4>1 DEF Known
        <3>3. CASE kind = "transfer" /\ dBound'[0] = s.id /\ s.id # 0
            <4>1. s.id = dOwn \/ 0 \in dLoose'
                BY <1>3, <1>7, <3>3
            <4> QED BY <1>6, <3>3, <4>1 DEF Known
        <3> QED BY <1>7, <1>9, <3>1, <3>2, <3>3
    <2> QED BY <1>1, <2>1, <2>2, <2>3 DEF StrayInv
<1>13. OverInv'
    <2>1. ASSUME NEW j \in Port!Issues, dIssue'[j].cmd[1] = "hangup",
                 dIssue'[j].at = "acted" \/ dIssue'[j].pc = "done" \/ \E n \in Said' : n.of = j /\ n.ok
          PROVE  Ended(j)'
        <3>1. Ended(j)
            BY <1>1, <1>2, <1>4, <1>5, <2>1, OverIs
        <3> QED BY <1>4, <3>1 DEF Ended
    <2> QED BY <2>1 DEF OverInv, Ended
<1>14. RungInv'
    <2>2. \A x : Past(x) => Past(x)'
        BY <1>2 DEF Past
    <2>r. \A j \in Port!Issues : Dialled(j) /\ j # i => dShadowed
        BY <1>1, OutstandingIs DEF RungInv, Dialled
    <2>d. ASSUME kind = "dial" PROVE Rung' \/ (s.st = "ended" /\ dOwn <= s.id)
        <3>1. CASE dShadowed
            BY <3>1 DEF Rung, Excused
        <3>2. CASE ~dShadowed
            <4>1. dLast.id < s.id /\ dOwn <= s.id
                BY <1>1, <1>2, <1>5, <1>7, <2>d, <3>2 DEF RungInv
            <4>2. dLast.id \in Nat
                BY <1>1, StatusIs DEF OrderTypes
            <4>3. dLast.id # s.id /\ s.id # 0
                BY <1>6, <4>1, <4>2
            <4>4. CASE s.st \in {"calling", "ringing", "active"}
                <5>1. "ringing" \in Port!Observed(s)
                    BY <4>3, <4>4, ObservedOf
                <5> QED BY <1>3, <1>7, <2>d, <5>1 DEF Rung
            <4>5. CASE s.st \notin {"calling", "ringing", "active"}
                BY <1>6, <4>1, <4>3, <4>5, StatusIs DEF Port!Live, Port!Early
            <4> QED BY <4>4, <4>5
        <3> QED BY <3>1, <3>2
    <2>p. ASSUME s.st = "ended", NEW x \in Nat, x <= s.id PROVE Past(x)'
        <3>1. ASSUME NEW t \in ShownOf', Port!Live(t) PROVE t.id # x
            <4>1. CASE t = s
                BY <2>p, <3>1, <4>1 DEF Port!Live, Port!Early
            <4>2. CASE t # s
                <5>1. t \in {dPhone} \cup {m.phone : m \in Said'}
                    BY <1>5, <3>1, <4>2 DEF ShownOf
                <5>2. NotBefore(s, t) /\ t \in PhoneStatus
                    BY <1>2, <3>1, <5>1, StatusIs
                <5>3. t.id > s.id /\ t.id \in Nat
                    BY <1>6, <2>p, <3>1, <5>2, EndStays, StatusIs
                <5> QED BY <1>6, <2>p, <5>3
            <4> QED BY <4>1, <4>2
        <3> QED BY <3>1 DEF Past
    <2>h. kind = "hangup" => Rung
        BY <1>1, <1>7 DEF RungInv
    <2>o. kind = "transfer" /\ dOwn # 0 => Rung' \/ Past(dOwn)
        BY <1>1, <1>7, <1>e, <2>r DEF RungInv, Dialled, Rung, Excused
    <2>n. dOwn \in Nat
        BY <1>1, OrdersAre DEF OrderTypes
    <2>1. "connected" \in dHeard' => Rung'
        <3>1. CASE "connected" \in dHeard
            BY <1>1, <1>e, <3>1 DEF RungInv
        <3>2. CASE "connected" \in dHeard' /\ "connected" \notin dHeard
            <4>1. p = 0 /\ s.st = "active"
                BY <1>3, <3>2, ObservedOf
            <4>2. Port!Live(s) /\ s.id # 0
                BY <1>6, <4>1, StatusIs DEF Port!Live
            <4>3. CASE kind = "dial"
                BY <2>d, <4>1, <4>3
            <4>4. CASE kind = "hangup"
                BY <1>e, <2>h, <4>4
            <4>5. CASE kind = "transfer"
                <5>1. s.id = dOwn \/ 0 \in dLoose'
                    BY <1>3, <4>1, <4>2, <4>5
                <5>2. CASE 0 \in dLoose'
                    BY <5>2 DEF Rung, Excused
                <5>3. CASE s.id = dOwn
                    BY <1>6, <2>o, <4>2, <4>5, <5>3 DEF Past
                <5> QED BY <5>1, <5>2, <5>3
            <4> QED BY <1>7, <4>1, <4>3, <4>4, <4>5
        <3> QED BY <3>1, <3>2
    <2>3. dBound'[0] # 0 => Rung' \/ Past(dBound[0])'
        <3>1. CASE dBound'[0] = dBound[0]
            <4>1. Past(dBound[0]) => Past(dBound[0])'
                BY <2>2, <3>1 DEF Past
            <4> QED BY <1>1, <1>e, <3>1, <4>1 DEF RungInv
        <3>2. CASE p = 0 /\ s.id # 0 /\ dBound'[0] = s.id
            <4>0. PICK x \in Nat : x = s.id
                BY <1>6
            <4>1. Past(x)' => Past(dBound[0])'
                BY <3>2, <4>0 DEF Past
            <4>2. CASE kind = "dial"
                <5>1. s.st = "ended" => Past(x)'
                    BY <2>p, <4>0
                <5> QED BY <2>d, <4>1, <4>2, <5>1
            <4>3. CASE kind = "hangup"
                BY <1>e, <2>h, <4>3
            <4>4. CASE kind = "transfer"
                <5>1. s.id = dOwn \/ 0 \in dLoose'
                    BY <1>3, <3>2, <4>4
                <5>2. CASE 0 \in dLoose'
                    BY <5>2 DEF Rung, Excused
                <5>3. CASE s.id = dOwn
                    <6>1. Past(dOwn)' => Past(dBound[0])'
                        BY <3>2, <5>3 DEF Past
                    <6> QED BY <2>2, <2>o, <3>2, <4>4, <5>3, <6>1 DEF Past
                <5> QED BY <5>1, <5>2, <5>3
            <4> QED BY <1>7, <3>2, <4>2, <4>3, <4>4
        <3> QED BY <1>9, <3>1, <3>2
    <2>4. dOwn' # 0 => Rung' \/ Past(dOwn)' \/ \E j \in Port!Issues : Dialled(j)'
        <3>1. Past(dOwn) => Past(dOwn)'
            BY <2>2 DEF Past
        <3>2. ASSUME NEW j \in Port!Issues, Dialled(j) PROVE Rung' \/ Past(dOwn)'
            <4>1. CASE j # i
                BY <2>r, <3>2, <4>1 DEF Rung, Excused
            <4>2. CASE j = i
                <5>1. kind = "dial"
                    BY <1>7, <3>2, <4>2 DEF Dialled
                <5>2. s.st = "ended" /\ dOwn <= s.id => Past(dOwn)'
                    <6>1. s.st = "ended" /\ dOwn <= s.id => \A x \in {dOwn} : Past(x)'
                        BY <2>n, <2>p
                    <6> QED BY <6>1 DEF Past
                <5> QED BY <2>d, <5>1, <5>2
            <4> QED BY <4>1, <4>2
        <3> QED BY <1>1, <1>e, <3>1, <3>2 DEF RungInv
    <2>5. \A j \in Port!Issues : dIssue'[j].cmd[1] = "hangup" /\ dIssue'[j].pc = "waiting" => Rung'
        BY <1>1, <1>4, <1>e DEF RungInv
    <2>6. ASSUME ~dShadowed', NEW j \in Port!Issues, dIssue'[j].pc = "waiting", dIssue'[j].cmd[1] = "dial"
          PROVE  FALSE
        <3>1. j # i /\ j \in Port!Outstanding /\ i \in Port!Outstanding /\ dIssue[j].cmd[1] = "dial"
            BY <1>4, <2>6, OutstandingIs
        <3> QED BY <1>1, <2>6, <3>1 DEF RungInv
    <2>7. ASSUME NEW j \in Port!Outstanding', NEW k \in Port!Outstanding', j # k, dIssue'[j].cmd[1] = "dial"
          PROVE  dShadowed'
        <3>1. j \in Port!Outstanding /\ k \in Port!Outstanding /\ dIssue[j].cmd[1] = "dial"
            BY <1>4, <2>7, OutstandingIs
        <3> QED BY <1>1, <2>7, <3>1 DEF RungInv
    <2> QED BY <2>1, <2>3, <2>4, <2>5, <2>6, <2>7 DEF RungInv
<1> QED BY <1>2, <1>10, <1>11, <1>12, <1>13, <1>14 DEF PortInv

\* Nothing of a command changes.
LEMMA NothingDrops ==
  ASSUME PortInv, PhoneInv', \A s \in ShownOf' : s \in ShownOf, \A m \in Said' : m \in Said,
         \A m \in Said : m \in Said' \/ m.of = 0 \/ dIssue[m.of].pc # "waiting",
         UNCHANGED <<dPhone, dRings, dLast, dSeen, dBound, dIssue, dLoads, dHeard, dOwn, dLoose, dCrossed, dShadowed, dStray>>
  PROVE  PortInv'
<1>1. dIssue \in [Port!Issues -> PhoneIssue] /\ dLoads \in 0..MaxLoads
    BY Zenon DEF PortInv, OrderTypes
<1>2. {dIssue[j].cmd : j \in {}} = {}
    OBVIOUS
<1>3. Drops({})
    BY <1>1, <1>2 DEF Drops
<1> QED BY <1>3, DropsKeeps

\* A message of the renderer is received, with the result of a command or without.
LEMMA ReceiveKeeps ==
  ASSUME PortInv, Port!Receive
  PROVE  PortInv'
<1> DEFINE h == Head(dUp)
           i == h.of
<1>1. /\ dUp # <<>> /\ dUp' = Tail(dUp) /\ UNCHANGED <<dPhone, dRings, dLoads, dOwn, dCrossed, dShadowed, dStray>>
      /\ \/ i = 0 /\ dLatest' = h.phone /\ UNCHANGED <<dLast, dSeen, dBound, dIssue, dHeard, dLoose>>
         \/ i # 0 /\ i \notin Port!Waiting /\ UNCHANGED <<dLatest, dLast, dSeen, dBound, dIssue, dHeard, dLoose>>
         \/ i \in Port!Waiting /\ h.ok /\ dLatest' = h.phone /\ Port!Finish(i, h.phone) /\ UNCHANGED dSeen
         \/ /\ i \in Port!Waiting /\ ~h.ok /\ dIssue' = [dIssue EXCEPT ![i].pc = "failed"] /\ dSeen' = dSeen \ {dIssue[i].cmd}
            /\ UNCHANGED <<dLatest, dLast, dBound, dHeard, dLoose>>
    BY Zenon DEF Port!Receive, Port!kept, Port!Ended, Port!Forgotten
<1>2. PhoneInv /\ \A j : j \in Port!Waiting <=> j \in Port!Issues /\ dIssue[j].pc = "waiting"
    BY DEF PortInv, Port!Waiting
<1>3. ASSUME dLatest' \in {dLatest, h.phone}
      PROVE  /\ PhoneInv' /\ h \in Said /\ Said' \subseteq Said /\ Said \subseteq Said' \cup {h} /\ ShownOf' \subseteq ShownOf
    BY <1>1, <1>2, <1>3, PhoneGets
<1>4. CASE i = 0 /\ dLatest' = h.phone /\ UNCHANGED <<dLast, dSeen, dBound, dIssue, dHeard, dLoose>>
    <2>1. \A m \in Said : m \in Said' \/ m.of = 0 \/ dIssue[m.of].pc # "waiting"
        BY <1>3, <1>4
    <2> HIDE DEF i, h
    <2> QED BY <1>1, <1>3, <1>4, <2>1, NothingDrops
<1>5. CASE i # 0 /\ i \notin Port!Waiting /\ UNCHANGED <<dLatest, dLast, dSeen, dBound, dIssue, dHeard, dLoose>>
    <2>1. i \in Port!Issues
        BY <1>2, <1>3, <1>5, SaidIs
    <2>2. \A m \in Said : m \in Said' \/ m.of = 0 \/ dIssue[m.of].pc # "waiting"
        BY <1>2, <1>3, <1>5, <2>1
    <2> HIDE DEF i, h
    <2> QED BY <1>1, <1>3, <1>5, <2>2, NothingDrops
<1>6. CASE i \in Port!Waiting /\ h.ok /\ dLatest' = h.phone /\ Port!Finish(i, h.phone) /\ UNCHANGED dSeen
    <2>1. i \in Port!Issues /\ dIssue[i].pc = "waiting" /\ h.of = i
        BY <1>2, <1>6
    <2> QED BY <1>1, <1>6, <2>1, FinishKeeps, Zenon
<1>7. CASE /\ i \in Port!Waiting /\ ~h.ok /\ dIssue' = [dIssue EXCEPT ![i].pc = "failed"] /\ dSeen' = dSeen \ {dIssue[i].cmd}
           /\ UNCHANGED <<dLatest, dLast, dBound, dHeard, dLoose>>
    <2>1. /\ PhoneInv' /\ h \in Said /\ Said' \subseteq Said /\ Said \subseteq Said' \cup {h} /\ ShownOf' \subseteq ShownOf
        BY <1>3, <1>7
    <2>2. i \in Port!Issues /\ dIssue[i].pc = "waiting" /\ h.of = i
        BY <1>2, <1>7
    <2>3. dLoads' \in 0..MaxLoads
        BY <1>1, Zenon DEF PortInv, OrderTypes
    <2> HIDE DEF i, h
    <2>4. /\ dIssue' \in [Port!Issues -> PhoneIssue]
          /\ \A j \in Port!Issues : /\ dIssue'[j].cmd = dIssue[j].cmd /\ dIssue'[j].for = dIssue[j].for
                                    /\ dIssue'[j].pc = IF j \in {i} THEN "failed" ELSE dIssue[j].pc
                                    /\ dIssue'[j].at = dIssue[j].at
        BY <1>7, <2>2, FailsIs
    <2>5. {dIssue[j].cmd : j \in {i}} = {dIssue[i].cmd}
        OBVIOUS
    <2>6. \A m \in Said : m \in Said' \/ m.of = 0 \/ dIssue'[m.of].pc # "waiting"
        BY <2>1, <2>2, <2>4
    <2>7. Drops({i})
        BY <1>1, <1>7, <2>1, <2>2, <2>3, <2>4, <2>5, <2>6 DEF Drops
    <2> QED BY <2>7, DropsKeeps
<1> QED BY <1>1, <1>4, <1>5, <1>6, <1>7

\* What is received goes on from what was received before.
LatestGoesOn == dLatest # Port!Unpublished /\ dLatest' # Port!Unpublished => NotBefore(dLatest, dLatest')

\* Every step keeps the invariant, and the order of what is received.
LEMMA PortStep == ASSUME PortInv, [Port!Next]_(Port!portVars) PROVE PortInv' /\ LatestGoesOn
<1>s. ASSUME dLatest' = dLatest PROVE LatestGoesOn
    <2>1. dLatest \in PhoneStatus \cup {Port!Unpublished}
        BY DEF PortInv, PhoneInv
    <2> QED BY <1>s, <2>1, NotBeforeSelf DEF LatestGoesOn
<1>1. ASSUME NEW i \in Port!Issues, Port!Issue(i) PROVE PortInv' /\ LatestGoesOn
    <2>1. PICK c \in Port!Orders : \E r \in PhoneIssue : Opens(i, c, r)
        BY <1>1, IssueOpens DEF PortInv
    <2>2. PICK r \in PhoneIssue : Opens(i, c, r)
        BY <2>1
    <2>3. dLatest' = dLatest
        BY <2>2, Zenon DEF Opens
    <2> QED BY <1>s, <2>2, <2>3, OpensKeeps
<1>2. ASSUME NEW i \in Port!Issues, Port!Timeout(i) PROVE PortInv' /\ LatestGoesOn
    <2>1. dLatest' = dLatest
        BY <1>2, Zenon DEF Port!Timeout
    <2> QED BY <1>2, <1>s, <2>1, TimeoutKeeps
<1>3. ASSUME NEW i \in Port!Issues, Port!Acts(i) PROVE PortInv' /\ LatestGoesOn
    <2>1. dLatest' = dLatest
        BY <1>3, Zenon DEF Port!Acts, Port!main
    <2>2. Moves({i})
        BY <1>3, ActsMoves
    <2> QED BY <1>s, <2>1, <2>2, MovesKeeps
<1>4. ASSUME NEW i \in Port!Issues, Port!Answers(i) PROVE PortInv' /\ LatestGoesOn
    <2>1. dLatest' = dLatest
        BY <1>4, Zenon DEF Port!Answers, Port!main
    <2> QED BY <1>4, <1>s, <2>1, AnswersKeeps
<1>5. CASE Port!Receive
    <2>1. dUp # <<>> /\ dLatest' \in {dLatest, Head(dUp).phone}
        BY <1>5 DEF Port!Receive
    <2>2. dLatest' = dLatest \/ dLatest' = Head(dUp).phone
        BY <2>1
    <2>3. Head(dUp) \in Said
        <3>1. dUp \in Seq(PhoneMessage)
            BY DEF PortInv, PhoneInv
        <3>2. Head(dUp) = dUp[1] /\ 1 \in 1..Len(dUp)
            BY <2>1, <3>1, LenProperties, EmptySeq
        <3> QED BY <3>2 DEF Said
    <2>4. dLatest # Port!Unpublished => NotBefore(dLatest, Head(dUp).phone)
        BY <2>3 DEF PortInv, PhoneInv
    <2>5. PortInv'
        BY <1>5, ReceiveKeeps
    <2> QED BY <1>s, <2>2, <2>4, <2>5 DEF LatestGoesOn
<1>6. CASE Port!Reload
    <2>1. dLatest' = Port!Unpublished
        BY <1>6, Zenon DEF Port!Reload
    <2> QED BY <1>6, <2>1, ReloadKeeps DEF LatestGoesOn
<1>7. CASE Port!RingsIn \/ Port!PeerAnswers \/ Port!PeerEnds
    <2>1. dLatest' = dLatest
        BY <1>7, Zenon DEF Port!RingsIn, Port!PeerAnswers, Port!PeerEnds, Port!Turns, Port!main
    <2>2. Moves({})
        BY <1>7, LineMoves
    <2> QED BY <1>s, <2>1, <2>2, MovesKeeps
<1>8. CASE UNCHANGED Port!portVars
    <2>1. UNCHANGED <<dPhone, dRings, dUp, dLatest, dLast, dSeen, dBound, dIssue, dLoads, dHeard, dOwn, dLoose, dCrossed,
                      dShadowed, dStray>>
        BY <1>8, Zenon DEF Port!portVars
    <2>2. Said' = Said /\ ShownOf' = ShownOf /\ PhoneInv'
        BY <2>1 DEF Said, ShownOf, PhoneInv, NotBefore, PortInv
    <2>3. PortInv'
        BY <2>1, <2>2, NothingDrops
    <2> QED BY <1>s, <2>1, <2>3
<1> QED BY <1>1, <1>2, <1>3, <1>4, <1>5, <1>6, <1>7, <1>8, Zenon DEF Port!Next

\* What is promised of the orders to the phone, of any behaviour of them.
LEMMA PortSafe ==
  Port!Init /\ [][Port!Next]_(Port!portVars) =>
    /\ [](Port!TypeOK /\ Port!OneAtATime /\ Port!HangupIsForItsCall /\ Port!HungUpIsOver /\ Port!ConnectedHasRung)
    /\ Port!StatusGoesOn
<1>1. Port!Init => PortInv
    <2> SUFFICES ASSUME Port!Init PROVE PortInv
        OBVIOUS
    <2>1. /\ dPhone = Port!Silent /\ dRings = 0 /\ dUp = <<>> /\ dLatest = Port!Silent /\ dLast = Port!Unpublished /\ dSeen = {}
          /\ dBound = [p \in Port!Ports |-> 0] /\ dIssue = [i \in Port!Issues |-> Port!Fresh] /\ dLoads = 0
          /\ dHeard = {} /\ dOwn = 0 /\ dLoose = {} /\ dCrossed = {} /\ dShadowed = FALSE /\ dStray = {}
        BY Zenon DEF Port!Init
    <2>2. dUp \in Seq(PhoneMessage) /\ Said = {} /\ ShownOf = {Port!Silent} /\ Len(dUp) = 0
        BY <2>1 DEF Said, ShownOf
    <2>3. \A k \in 1..Len(dUp) : FALSE
        BY <2>2
    <2>4. Port!Fresh \in PhoneIssue /\ Port!Fresh.for = 0 /\ Port!Fresh.pc = "new" /\ Port!Fresh.at = "none"
        BY OrdersAre DEF Port!Fresh, PhoneIssue, Port!Orders
    <2>5. PhoneInv
        BY <2>1, <2>2, <2>3, StatusIs, NotBeforeSelf, OrdersAre DEF PhoneInv
    <2>6. \A i \in Port!Issues : dIssue[i] = Port!Fresh
        BY <2>1
    <2>7. dBound[0] = 0 /\ dBound \in [Port!Ports -> Port!Ports]
        BY <2>1, OrdersAre
    <2>8. OrderTypes
        BY <2>1, <2>4, <2>6, <2>7, StatusIs, OrdersAre DEF OrderTypes
    <2>9. OrderInv
        BY <2>1, <2>2, <2>4, <2>6 DEF OrderInv, Under
    <2>10. StrayInv
        BY <2>1, <2>2, <2>4, <2>6, <2>7, StatusIs DEF StrayInv, Known, Heeds
    <2>11. OverInv
        BY <2>2, <2>4, <2>6 DEF OverInv
    <2>12. RungInv
        BY <2>1, <2>2, <2>4, <2>6, <2>7, OutstandingIs DEF RungInv
    <2> QED BY <2>5, <2>8, <2>9, <2>10, <2>11, <2>12 DEF PortInv
<1>2. PortInv /\ [Port!Next]_(Port!portVars) => PortInv'
    BY PortStep
<1>3. PortInv => Port!TypeOK /\ Port!OneAtATime /\ Port!HangupIsForItsCall /\ Port!HungUpIsOver /\ Port!ConnectedHasRung
    <2> SUFFICES ASSUME PortInv
                 PROVE  Port!TypeOK /\ Port!OneAtATime /\ Port!HangupIsForItsCall /\ Port!HungUpIsOver /\ Port!ConnectedHasRung
        OBVIOUS
    <2>1. PhoneInv /\ OrderTypes /\ OrderInv /\ StrayInv /\ OverInv /\ RungInv
        BY DEF PortInv
    <2>2. Port!TypeOK
        <3>1. {dPhone.id, dLatest.id, dLast.id, dOwn} \subseteq Port!Ports
            BY <2>1, StatusIs, OrdersAre DEF PhoneInv, OrderTypes
        <3>2. dPhone.st \in {"none", "calling", "ringing", "active", "ended"}
            BY <2>1 DEF PhoneInv, PhoneStatus
        <3>3. \A i \in Port!Issues : /\ dIssue[i].pc \in {"new", "waiting", "done", "moot", "failed", "repeated"}
                                     /\ dIssue[i].at \in {"none", "sent", "acted"} /\ dIssue[i].cmd \in Port!Orders
            BY <2>1 DEF OrderTypes, PhoneIssue
        <3> QED BY <2>1, <3>1, <3>2, <3>3 DEF PhoneInv, OrderTypes, Port!TypeOK, Port!Early
    <2>3. Port!OneAtATime
        BY <2>1, Zenon DEF OrderInv, Under, Port!OneAtATime
    <2>4. Port!HangupIsForItsCall
        BY <2>1 DEF StrayInv, Port!HangupIsForItsCall
    <2>5. Port!HungUpIsOver
        BY <2>1 DEF OverInv, Port!HungUpIsOver
    <2>6. Port!ConnectedHasRung
        BY <2>1 DEF RungInv, Rung, Excused, Fails, Port!ConnectedHasRung
    <2> QED BY <2>2, <2>3, <2>4, <2>5, <2>6
<1>4. PortInv /\ [Port!Next]_(Port!portVars) => [LatestGoesOn]_(Port!portVars)
    BY PortStep
<1>5. [LatestGoesOn]_(Port!portVars) =>
        [(dLatest # Port!Unpublished /\ dLatest' # Port!Unpublished) =>
           (dLatest'.id > dLatest.id \/ (dLatest'.id = dLatest.id /\ Port!Rank(dLatest') >= Port!Rank(dLatest)))]_(Port!portVars)
    BY Zenon DEF LatestGoesOn, NotBefore
<1> QED BY <1>1, <1>2, <1>3, <1>4, <1>5, PTL DEF Port!StatusGoesOn

-----------------------------------------------------------------------------
(* The call history *)

\* A call that is listed, and a request for a page.
Summary == [id : Nat, over : BOOLEAN]
PageRequest == [offset : Nat, page : Seq(Summary), read : BOOLEAN]

\* Every variable has its type; a panel that is closed asks for nothing.
ViewTypes ==
  /\ vCalls \in 0..MaxStored /\ vSeen \in {"none", "live", "settled"}
  /\ {vLive, vTimer, vOpen, vLoading, vHasMore, vFailed, vCrossed} \subseteq BOOLEAN
  /\ vList \in Seq(Summary) /\ vAsked \in Seq(PageRequest) /\ Len(vAsked) <= MaxAsked
  /\ ~vOpen => vAsked = <<>> /\ vList = <<>> /\ ~vTimer

\* What is selected is asked for until its detail is there, and shown with what
\* belongs to it.
SelectionInv ==
  /\ vSelected \in 0..vCalls /\ 0 \notin vWant /\ vWant \subseteq {vSelected}
  /\ vDetail \in {0, vSelected} /\ (vDetail # 0 => vWant = {})
  /\ vExtra \in [of : {0, vDetail}, shown : {0, vDetail}]

\* Unless pages were crossed, one further page is asked for at a time, from
\* the end of the list.
Further(k) == vAsked[k].offset # 0
AskedInv == ~vCrossed => \A k \in DOMAIN vAsked : Further(k) =>
  /\ vAsked[k].offset = Len(vList) /\ (vLoading \/ vFailed)
  /\ \A j \in DOMAIN vAsked : Further(j) => j = k

\* The list holds what it began with, all that is newer than its oldest call,
\* and all that a page asked for at its end would not hold.
Listed(id) == \E i \in DOMAIN vList : vList[i].id = id
ListInv ==
  /\ \A k \in DOMAIN vList : vList[k].id \in 1..vCalls
  /\ ~vCrossed => \A k \in DOMAIN vList :
       /\ vList[k].id <= vList[1].id
       /\ \A id \in 1..vList[1].id : id >= vList[k].id \/ id + Len(vList) > vCalls => Listed(id)

\* A page that was read begins with its call top and goes back from there; what
\* is between a further page and the list is listed.
PageFrom(page, top) == Len(page) <= top /\ \A i \in DOMAIN page : page[i].id = top + 1 - i
PagesInv == \A k \in DOMAIN vAsked : vAsked[k].page # <<>> => \E top \in 0..vCalls :
  /\ PageFrom(vAsked[k].page, top) /\ top + vAsked[k].offset <= vCalls
  /\ ~vCrossed /\ Further(k) => \A i \in DOMAIN vList : \A id \in (top + 1)..vList[i].id : Listed(id)

ViewInv == ViewTypes /\ SelectionInv /\ AskedInv /\ ListInv /\ PagesInv

\* The bounds are numbers, and a page holds a call.
LEMMA ViewBounds == /\ MaxStored \in Nat /\ MaxAsked \in Nat \ {0} /\ PageSize \in Nat \ {0} /\ FirstStored \in 0..MaxStored
BY HostAssumption

\* A request for a page.
Asks(offset) ==
  /\ vAsked' = Append(vAsked, [offset |-> offset, page |-> <<>>, read |-> FALSE]) /\ Len(vAsked') <= MaxAsked
  /\ vLoading' = TRUE /\ vFailed' = FALSE /\ vOpen' = TRUE /\ vTimer' \in BOOLEAN
  /\ UNCHANGED <<vCalls, vLive, vSeen, vList, vHasMore, vSelected, vWant, vDetail, vExtra, vCrossed>>

\* It keeps the invariant if a further one is asked for where the list ends,
\* with nothing else to come.
LEMMA AsksKeeps ==
  ASSUME ViewInv, NEW offset \in Nat, Asks(offset),
         offset # 0 => offset = Len(vList) /\ ~vLoading /\ ~vFailed
  PROVE  ViewInv'
<1> DEFINE r == [offset |-> offset, page |-> <<>>, read |-> FALSE]
<1>1. r \in PageRequest /\ r.offset = offset /\ r.page = <<>>
    BY DEF PageRequest
<1>2. /\ vAsked \in Seq(PageRequest) /\ vAsked' = Append(vAsked, r)
      /\ UNCHANGED <<vCalls, vLive, vSeen, vList, vHasMore, vSelected, vWant, vDetail, vExtra, vCrossed>>
      /\ vLoading' = TRUE /\ vFailed' = FALSE /\ vOpen' = TRUE /\ vTimer' \in BOOLEAN /\ Len(vAsked') <= MaxAsked
    BY DEF ViewInv, ViewTypes, Asks
<1> HIDE DEF r
<1>3. /\ vAsked' \in Seq(PageRequest) /\ Len(vAsked') = Len(vAsked) + 1 /\ vAsked'[Len(vAsked) + 1] = r
      /\ \A k \in DOMAIN vAsked : k \in DOMAIN vAsked' /\ vAsked'[k] = vAsked[k]
      /\ DOMAIN vAsked = 1..Len(vAsked) /\ DOMAIN vAsked' = 1..(Len(vAsked) + 1) /\ Len(vAsked) \in Nat
    BY <1>1, <1>2
<1>4. ViewTypes' /\ SelectionInv' /\ ListInv'
    BY <1>2, <1>3 DEF ViewInv, ViewTypes, SelectionInv, ListInv, Listed
<1>5. AskedInv'
    <2> SUFFICES ASSUME ~vCrossed', NEW k \in DOMAIN vAsked', Further(k)'
                 PROVE  /\ vAsked'[k].offset = Len(vList)
                        /\ \A j \in DOMAIN vAsked' : Further(j)' => j = k
        BY <1>2 DEF AskedInv
    <2>1. CASE offset = 0
        <3>1. \A j \in DOMAIN vAsked' : Further(j)' => j \in DOMAIN vAsked /\ Further(j)
            BY <1>1, <1>3, <2>1 DEF Further
        <3> QED BY <1>2, <1>3, <3>1 DEF ViewInv, AskedInv
    <2>2. CASE offset # 0
        <3>1. \A j \in DOMAIN vAsked : ~Further(j)
            BY <1>2, <2>2 DEF ViewInv, AskedInv
        <3>2. \A j \in DOMAIN vAsked' : Further(j)' => j = Len(vAsked) + 1
            BY <1>3, <3>1 DEF Further
        <3> QED BY <1>1, <1>3, <2>2, <3>2
    <2> QED BY <2>1, <2>2
<1>6. PagesInv'
    <2> SUFFICES ASSUME NEW k \in DOMAIN vAsked', vAsked'[k].page # <<>>
                 PROVE  \E top \in 0..vCalls' :
                          /\ PageFrom(vAsked'[k].page, top) /\ top + vAsked'[k].offset <= vCalls'
                          /\ ~vCrossed' /\ Further(k)' =>
                               \A i \in DOMAIN vList' : \A id \in (top + 1)..vList'[i].id : Listed(id)'
        BY DEF PagesInv, PageFrom
    <2>1. k \in DOMAIN vAsked /\ vAsked'[k] = vAsked[k]
        BY <1>1, <1>3
    <2>2. Further(k)' = Further(k) /\ \A id : Listed(id)' = Listed(id)
        BY <1>2, <2>1 DEF Further, Listed
    <2> QED BY <1>2, <2>1, <2>2 DEF ViewInv, PagesInv
<1> QED BY <1>4, <1>5, <1>6 DEF ViewInv

\* A page is read where the list that asked for it ends.
LEMMA ReadKeeps == ASSUME ViewInv, View!Read PROVE ViewInv'
<1>1. PICK k \in DOMAIN vAsked :
        /\ ~vAsked[k].read
        /\ vAsked' = [vAsked EXCEPT ![k] = [offset |-> vAsked[k].offset, page |-> View!PageAt(vAsked[k].offset), read |-> TRUE]]
    BY Zenon DEF View!Read
<1>2. UNCHANGED <<vCalls, vLive, vSeen, vTimer, vOpen, vList, vLoading, vHasMore, vFailed, vSelected, vWant, vDetail,
                  vExtra, vCrossed>>
    BY Zenon DEF View!Read, View!World, View!Shut
<1>3. /\ vAsked \in Seq(PageRequest) /\ vCalls \in Nat /\ PageSize \in Nat \ {0} /\ DOMAIN vAsked = 1..Len(vAsked)
      /\ vAsked[k] \in PageRequest /\ vAsked[k].offset \in Nat
    <2>1. vAsked \in Seq(PageRequest) /\ vCalls \in Nat
        BY ViewBounds DEF ViewInv, ViewTypes
    <2>2. vAsked[k] \in PageRequest /\ DOMAIN vAsked = 1..Len(vAsked)
        BY <2>1
    <2> QED BY <2>1, <2>2, ViewBounds DEF PageRequest
<1> DEFINE offset == vAsked[k].offset
           page == View!PageAt(offset)
           n == IF offset >= vCalls THEN 0 ELSE IF vCalls - offset < PageSize THEN vCalls - offset ELSE PageSize
           r == [offset |-> offset, page |-> page, read |-> TRUE]
<1>4. /\ n \in Nat /\ (n # 0 => offset < vCalls /\ n <= vCalls - offset)
      /\ DOMAIN page = 1..n /\ \A i \in 1..n : page[i] = [id |-> vCalls - offset - i + 1, over |-> View!Over(vCalls - offset - i + 1)]
    BY <1>3 DEF View!PageAt
<1>5. \A i \in 1..n : page[i] \in Summary /\ page[i].id = (vCalls - offset) + 1 - i
    <2>1. \A id : View!Over(id) \in BOOLEAN
        BY Zenon DEF View!Over
    <2>2. \A i \in 1..n : vCalls - offset - i + 1 \in Nat /\ vCalls - offset - i + 1 = (vCalls - offset) + 1 - i
        BY <1>3, <1>4
    <2> SUFFICES ASSUME NEW i \in 1..n PROVE page[i] \in Summary /\ page[i].id = (vCalls - offset) + 1 - i
        OBVIOUS
    <2> DEFINE e == vCalls - offset - i + 1
               o == View!Over(e)
    <2>3. page[i] = [id |-> e, over |-> o] /\ o \in BOOLEAN /\ e \in Nat /\ e = (vCalls - offset) + 1 - i
        BY <1>4, <2>1, <2>2
    <2> HIDE DEF n, e, o
    <2> QED BY <2>3 DEF Summary
<1>6. page \in Seq(Summary) /\ Len(page) = n
    <2>1. page = [i \in 1..n |-> page[i]]
        BY <1>3 DEF View!PageAt
    <2> HIDE DEF page, n
    <2>2. page \in [1..n -> Summary]
        BY <1>4, <1>5, <2>1
    <2> QED BY <1>4, <2>2
<1>7. r \in PageRequest /\ r.offset = offset /\ r.page = page
    BY <1>3, <1>6 DEF PageRequest
<1> HIDE DEF r, page
<1>8. /\ vAsked' \in Seq(PageRequest) /\ Len(vAsked') = Len(vAsked) /\ DOMAIN vAsked' = DOMAIN vAsked
      /\ vAsked'[k] = r /\ \A j \in DOMAIN vAsked : j # k => vAsked'[j] = vAsked[j]
    BY <1>1, <1>3, <1>7 DEF r, page
<1>9. ViewTypes' /\ SelectionInv' /\ ListInv'
    BY <1>2, <1>3, <1>8 DEF ViewInv, ViewTypes, SelectionInv, ListInv, Listed
<1>10. /\ \A j \in DOMAIN vAsked : vAsked'[j].offset = vAsked[j].offset /\ Further(j)' = Further(j)
       /\ \A id : Listed(id)' = Listed(id)
    BY <1>2, <1>7, <1>8 DEF Further, Listed
<1>11. AskedInv'
    BY <1>2, <1>8, <1>10 DEF ViewInv, AskedInv
<1>12. PagesInv'
    <2> SUFFICES ASSUME NEW j \in DOMAIN vAsked', vAsked'[j].page # <<>>
                 PROVE  \E top \in 0..vCalls' :
                          /\ PageFrom(vAsked'[j].page, top) /\ top + vAsked'[j].offset <= vCalls'
                          /\ ~vCrossed' /\ Further(j)' =>
                               \A i \in DOMAIN vList' : \A id \in (top + 1)..vList'[i].id : Listed(id)'
        BY DEF PagesInv, PageFrom
    <2>1. CASE j # k
        BY <1>2, <1>8, <1>10, <2>1 DEF ViewInv, PagesInv
    <2>2. CASE j = k
        <3>1. n # 0
            BY <1>6, <1>7, <1>8, <2>2
        <3> DEFINE top == vCalls - offset
        <3>2. top \in 0..vCalls /\ top + offset = vCalls /\ n <= top
            BY <1>3, <1>4, <3>1
        <3>3. PageFrom(page, top)
            BY <1>4, <1>5, <1>6, <3>2 DEF PageFrom
        <3>4. ~vCrossed /\ Further(k) => \A i \in DOMAIN vList : \A id \in (top + 1)..vList[i].id : Listed(id)
            <4> SUFFICES ASSUME ~vCrossed, Further(k), NEW i \in DOMAIN vList, NEW id \in (top + 1)..vList[i].id
                         PROVE  Listed(id)
                OBVIOUS
            <4>1. offset = Len(vList)
                BY DEF ViewInv, AskedInv
            <4>2. vList[i].id \in 1..vCalls /\ vList[i].id <= vList[1].id
                BY DEF ViewInv, ListInv
            <4>3. 1 \in DOMAIN vList /\ vList[1].id \in 1..vCalls
                BY DEF ViewInv, ViewTypes, ListInv
            <4>4. id \in 1..vList[1].id /\ id + Len(vList) > vCalls
                <5> HIDE DEF top, offset
                <5> QED BY <1>3, <3>2, <4>1, <4>2, <4>3
            <4> QED BY <4>4 DEF ViewInv, ListInv
        <3> HIDE DEF top
        <3>5. vAsked'[j].page = page /\ vAsked'[j].offset = offset
            BY <1>7, <1>8, <2>2
        <3>6. /\ top \in 0..vCalls' /\ PageFrom(vAsked'[j].page, top) /\ top + vAsked'[j].offset <= vCalls'
            <4>1. top + offset <= vCalls
                BY <1>3, <3>2
            <4> QED BY <1>2, <3>2, <3>3, <3>5, <4>1, Zenon
        <3>7. ~vCrossed' /\ Further(j)' => \A i \in DOMAIN vList' : \A id \in (top + 1)..vList'[i].id : Listed(id)'
            BY <1>2, <1>10, <2>2, <3>4
        <3> QED BY <3>6, <3>7
    <2> QED BY <2>1, <2>2
<1> QED BY <1>9, <1>11, <1>12 DEF ViewInv

\* The first request is over: what is left of the others.
LEMMA OneIsOver ==
  ASSUME ViewInv, vAsked # <<>>, vAsked' = Tail(vAsked)
  PROVE  /\ vAsked' \in Seq(PageRequest) /\ Len(vAsked') <= MaxAsked /\ 1 \in DOMAIN vAsked /\ Head(vAsked) = vAsked[1]
         /\ \A k \in DOMAIN vAsked' : k \in Nat /\ k + 1 \in DOMAIN vAsked /\ k + 1 # 1 /\ vAsked'[k] = vAsked[k + 1]
                                      /\ Further(k)' = Further(k + 1)
<1>1. vAsked \in Seq(PageRequest) /\ Len(vAsked) <= MaxAsked /\ MaxAsked \in Nat
    BY ViewBounds DEF ViewInv, ViewTypes
<1>2. Len(vAsked) \in Nat /\ Len(vAsked) # 0 /\ DOMAIN vAsked = 1..Len(vAsked)
    BY <1>1, EmptySeq, LenProperties
<1>3. vAsked' \in Seq(PageRequest) /\ Len(vAsked') = Len(vAsked) - 1 /\ \A k \in 1..(Len(vAsked) - 1) : vAsked'[k] = vAsked[k + 1]
    BY <1>1, <1>2, HeadTailProperties
<1>4. DOMAIN vAsked' = 1..(Len(vAsked) - 1)
    BY <1>2, <1>3, LenProperties
<1>5. \A k \in DOMAIN vAsked' : k \in Nat /\ k + 1 \in DOMAIN vAsked /\ k + 1 # 1 /\ vAsked'[k] = vAsked[k + 1]
    BY <1>2, <1>3, <1>4
<1>6. \A k \in DOMAIN vAsked' : Further(k)' = Further(k + 1)
    BY <1>5 DEF Further
<1> QED BY <1>1, <1>2, <1>3, <1>4, <1>5, <1>6

\* A request that fails leaves the list, and frees the panel with an error.
LEMMA PageFailsKeeps == ASSUME ViewInv, View!PageFails PROVE ViewInv'
<1>1. /\ vAsked # <<>> /\ vAsked' = Tail(vAsked) /\ vFailed' = TRUE /\ vLoading' = FALSE
      /\ UNCHANGED <<vCalls, vLive, vSeen, vTimer, vOpen, vList, vHasMore, vSelected, vWant, vDetail, vExtra, vCrossed>>
    BY Zenon DEF View!PageFails, View!World, View!Shut
<1>2. /\ vAsked' \in Seq(PageRequest) /\ Len(vAsked') <= MaxAsked
      /\ \A k \in DOMAIN vAsked' : k \in Nat /\ k + 1 \in DOMAIN vAsked /\ vAsked'[k] = vAsked[k + 1] /\ Further(k)' = Further(k + 1)
    BY <1>1, OneIsOver
<1>3. ViewTypes' /\ SelectionInv' /\ ListInv'
    BY <1>1, <1>2 DEF ViewInv, ViewTypes, SelectionInv, ListInv, Listed
<1>4. AskedInv'
    <2> SUFFICES ASSUME ~vCrossed', NEW k \in DOMAIN vAsked', Further(k)'
                 PROVE  vAsked'[k].offset = Len(vList) /\ \A j \in DOMAIN vAsked' : Further(j)' => j = k
        BY <1>1 DEF AskedInv
    <2>1. k + 1 \in DOMAIN vAsked /\ Further(k + 1) /\ ~vCrossed /\ k \in Nat
        BY <1>1, <1>2
    <2>2. vAsked[k + 1].offset = Len(vList) /\ \A j \in DOMAIN vAsked : Further(j) => j = k + 1
        BY <2>1 DEF ViewInv, AskedInv
    <2>3. \A j \in DOMAIN vAsked' : Further(j)' => j \in Nat /\ j + 1 = k + 1
        BY <1>2, <2>2
    <2> QED BY <1>2, <2>1, <2>2, <2>3
<1>5. PagesInv'
    <2> SUFFICES ASSUME NEW k \in DOMAIN vAsked', vAsked'[k].page # <<>>
                 PROVE  \E top \in 0..vCalls' :
                          /\ PageFrom(vAsked'[k].page, top) /\ top + vAsked'[k].offset <= vCalls'
                          /\ ~vCrossed' /\ Further(k)' =>
                               \A i \in DOMAIN vList' : \A id \in (top + 1)..vList'[i].id : Listed(id)'
        BY DEF PagesInv, PageFrom
    <2>1. k + 1 \in DOMAIN vAsked /\ vAsked'[k] = vAsked[k + 1] /\ Further(k)' = Further(k + 1)
        BY <1>2
    <2>2. \A id : Listed(id)' = Listed(id)
        BY <1>1 DEF Listed
    <2> QED BY <1>1, <2>1, <2>2 DEF ViewInv, PagesInv
<1> QED BY <1>3, <1>4, <1>5 DEF ViewInv

\* What a page makes of the list: it begins the list anew, or follows it.
LEMMA ListGoesOn ==
  ASSUME ViewInv, 1 \in DOMAIN vAsked, NEW page \in Seq(Summary), page = vAsked[1].page, vCalls' = vCalls, vCalls \in Nat,
         vList' = IF Further(1) THEN vList \o page ELSE page,
         ~vCrossed' /\ Further(1) => ~vCrossed /\ ~(page # <<>> /\ vList # <<>> /\ page[1].id > vList[1].id)
  PROVE  ListInv' /\ vList' \in Seq(Summary)
<1> DEFINE n == Len(page)
<1>1. /\ page \in Seq(Summary) /\ n \in Nat /\ DOMAIN page = 1..n /\ (page = <<>> => n = 0) /\ (n = 0 => page = <<>>)
    BY EmptySeq, LenProperties
<1>2. vList \in Seq(Summary) /\ Len(vList) \in Nat /\ DOMAIN vList = 1..Len(vList)
    BY DEF ViewInv, ViewTypes
<1>3. ASSUME page = <<>> PROVE ListInv'
    <2>1. CASE Further(1)
        <3>1. vList' = vList
            BY <1>2, <1>3, <2>1
        <3> QED BY <2>1, <3>1 DEF ViewInv, ListInv, Listed
    <2>2. CASE ~Further(1)
        <3>1. vList' = <<>>
            BY <1>3, <2>2
        <3> QED BY <3>1 DEF ListInv
    <2> QED BY <2>1, <2>2
<1>4. ASSUME page # <<>> PROVE ListInv'
    <2>1. PICK top \in 0..vCalls :
            /\ PageFrom(page, top) /\ top + vAsked[1].offset <= vCalls
            /\ ~vCrossed /\ Further(1) => \A i \in DOMAIN vList : \A id \in (top + 1)..vList[i].id : Listed(id)
        BY <1>4 DEF ViewInv, PagesInv
    <2>2. top \in Nat /\ n <= top /\ n # 0 /\ top <= vCalls /\ \A i \in 1..n : page[i].id = top + 1 - i
        BY <1>1, <1>4, <2>1 DEF PageFrom
    <2>3. \A i \in 1..n : /\ page[i].id \in Nat /\ page[i].id \in 1..vCalls
                          /\ page[i].id <= top /\ page[i].id > top - n
        <3> SUFFICES ASSUME NEW i \in 1..n
                     PROVE  /\ page[i].id \in Nat /\ page[i].id \in 1..vCalls
                            /\ page[i].id <= top /\ page[i].id > top - n
            OBVIOUS
        <3>1. page[i].id = top + 1 - i
            BY <2>2
        <3> HIDE DEF n
        <3> QED BY <1>1, <2>2, <3>1
    <2>4. \A id \in 1..top : id > top - n => \E i \in 1..n : page[i].id = id
        <3> SUFFICES ASSUME NEW id \in 1..top, id > top - n PROVE \E i \in 1..n : page[i].id = id
            OBVIOUS
        <3>1. top + 1 - id \in 1..n
            BY <1>1, <2>2
        <3>2. page[top + 1 - id].id = id
            BY <2>2, <3>1
        <3> QED BY <3>1, <3>2
    <2>5. CASE ~Further(1)
        <3>1. vList' = page
            BY <2>5
        <3> HIDE DEF n
        <3>2. \A k \in DOMAIN vList' : vList'[k].id \in 1..vCalls'
            BY <1>1, <2>3, <3>1
        <3>3. vList'[1].id = top
            BY <1>1, <2>2, <3>1
        <3>4. \A id \in 1..top : id > top - n => Listed(id)'
            BY <1>1, <2>4, <3>1 DEF Listed
        <3>5. Len(vList') = n
            BY <3>1 DEF n
        <3>6. \A k \in DOMAIN vList' : \A id \in 1..top : id >= vList'[k].id \/ id + n > vCalls => id > top - n
            <4> SUFFICES ASSUME NEW k \in DOMAIN vList', NEW id \in 1..top, id >= vList'[k].id \/ id + n > vCalls
                         PROVE  id > top - n
                OBVIOUS
            <4>1. vList'[k].id \in Nat /\ vList'[k].id > top - n
                BY <1>1, <2>3, <3>1
            <4>2. CASE id >= vList'[k].id
                <5> DEFINE e == vList'[k].id
                <5>1. e \in Nat /\ e > top - n /\ id >= e
                    BY <4>1, <4>2
                <5> HIDE DEF e, n
                <5> QED BY <1>1, <2>2, <5>1
            <4>3. CASE id + n > vCalls
                BY <1>1, <2>2, <4>3
            <4> QED BY <4>2, <4>3
        <3> QED BY <1>1, <2>3, <3>1, <3>2, <3>3, <3>4, <3>5, <3>6 DEF ListInv
    <2>6. CASE Further(1)
        <3> DEFINE m == Len(vList)
        <3>1. vList' = vList \o page
            BY <2>6
        <3>2. /\ DOMAIN vList' = 1..(m + n) /\ Len(vList') = m + n
              /\ \A k \in 1..m : vList'[k] = vList[k] /\ \A i \in 1..n : vList'[m + i] = page[i]
            BY <1>1, <1>2, <3>1
        <3>3. \A k \in 1..m : k \in DOMAIN vList'
            BY <1>1, <1>2, <3>2
        <3>4. \A k \in DOMAIN vList' : \/ k \in 1..m /\ vList'[k] = vList[k]
                                       \/ k - m \in 1..n /\ vList'[k] = page[k - m]
            <4> SUFFICES ASSUME NEW k \in DOMAIN vList', k \notin 1..m PROVE k - m \in 1..n /\ vList'[k] = page[k - m]
                BY <3>2
            <4>1. k - m \in 1..n /\ k = m + (k - m)
                BY <1>1, <1>2, <3>2
            <4> QED BY <3>1, <4>1, <1>1, <1>2
        <3>5. \A id : Listed(id) => Listed(id)'
            BY <1>2, <3>2, <3>3 DEF Listed
        <3>6. \A i \in 1..n : Listed(page[i].id)'
            <4> SUFFICES ASSUME NEW i \in 1..n PROVE Listed(page[i].id)'
                OBVIOUS
            <4>1. m + i \in DOMAIN vList' /\ vList'[m + i] = page[i]
                BY <1>1, <1>2, <3>1, <3>2
            <4> QED BY <4>1 DEF Listed
        <3> HIDE DEF n, m
        <3>7. \A k \in DOMAIN vList' : vList'[k].id \in 1..vCalls'
            BY <1>2, <2>3, <3>4 DEF ViewInv, ListInv, m
        <3>8. ASSUME ~vCrossed' PROVE \A k \in DOMAIN vList' :
                /\ vList'[k].id <= vList'[1].id
                /\ \A id \in 1..vList'[1].id : id >= vList'[k].id \/ id + Len(vList') > vCalls' => Listed(id)'
            <4>1. /\ ~vCrossed /\ vAsked[1].offset = m /\ m # 0
                BY <2>6, <3>8 DEF ViewInv, AskedInv, Further, m
            <4>2. vList # <<>> /\ 1 \in 1..m /\ vList'[1] = vList[1] /\ vList[1].id \in 1..vCalls
                BY <1>2, <3>2, <4>1 DEF ViewInv, ListInv, m
            <4>3. page[1].id = top /\ top <= vList[1].id
                <5>1. page[1].id = top
                    BY <1>1, <2>2
                <5> QED BY <1>4, <2>2, <2>6, <3>8, <4>2, <5>1
            <4>4. /\ \A k \in 1..m : vList[k].id \in 1..vCalls /\ vList[k].id <= vList[1].id
                  /\ \A k \in 1..m : \A id \in 1..vList[1].id : id >= vList[k].id => Listed(id)
                BY <1>2, <4>1 DEF ViewInv, ListInv, m
            <4>5. \A id \in (top + 1)..vList[1].id : Listed(id)
                BY <1>2, <2>1, <2>6, <4>1, <4>2 DEF m
            <4> SUFFICES ASSUME NEW k \in DOMAIN vList'
                         PROVE  /\ vList'[k].id <= vList[1].id
                                /\ \A id \in 1..vList[1].id : id >= vList'[k].id \/ id + (m + n) > vCalls => Listed(id)'
                BY <3>2, <4>2
            <4>6. vList'[k].id <= vList[1].id
                <5>1. CASE k \in 1..m /\ vList'[k] = vList[k]
                    BY <4>4, <5>1
                <5>2. CASE k - m \in 1..n /\ vList'[k] = page[k - m]
                    <6>1. vList'[k].id \in Nat /\ vList'[k].id <= top
                        BY <2>3, <5>2
                    <6> QED BY <2>2, <4>2, <4>3, <6>1
                <5> QED BY <3>4, <5>1, <5>2
            <4>7. ASSUME NEW id \in 1..vList[1].id, id >= vList'[k].id \/ id + (m + n) > vCalls PROVE Listed(id)'
                <5>1. CASE id > top
                    BY <2>2, <3>5, <4>2, <4>5, <5>1
                <5>2. CASE id <= top /\ id > top - n
                    <6>1. PICK i \in 1..n : page[i].id = id
                        BY <2>2, <2>4, <4>2, <5>2
                    <6> QED BY <3>6, <6>1
                <5>3. CASE id <= top - n
                    <6>1. id + (m + n) <= vCalls
                        BY <1>1, <1>2, <2>1, <2>2, <4>1, <4>2, <5>3 DEF m
                    <6>2. id >= vList'[k].id
                        BY <1>1, <1>2, <4>2, <4>7, <6>1 DEF m
                    <6>3. k \in 1..m /\ vList'[k] = vList[k]
                        <7>1. SUFFICES ASSUME k - m \in 1..n, vList'[k] = page[k - m] PROVE FALSE
                            BY <3>4
                        <7>2. vList'[k].id > top - n /\ vList'[k].id \in Nat
                            BY <2>3, <7>1
                        <7> DEFINE e == vList'[k].id
                        <7>3. e \in Nat /\ e > top - n /\ id >= e /\ id \in Nat
                            BY <4>2, <6>2, <7>2
                        <7> HIDE DEF e
                        <7> QED BY <1>1, <2>2, <5>3, <7>3
                    <6> QED BY <3>5, <4>4, <6>2, <6>3
                <5> QED BY <1>1, <2>2, <4>2, <5>1, <5>2, <5>3
            <4> QED BY <4>6, <4>7
        <3> QED BY <3>7, <3>8 DEF ListInv
    <2> QED BY <2>5, <2>6
<1> QED BY <1>1, <1>2, <1>3, <1>4

\* A page arrives.
LEMMA ArriveKeeps == ASSUME ViewInv, View!Arrive PROVE ViewInv'
<1>1. /\ vAsked # <<>> /\ Head(vAsked).read /\ vAsked' = Tail(vAsked) /\ vLoading' = FALSE
      /\ vHasMore' = (Len(Head(vAsked).page) = PageSize)
      /\ vList' = IF Head(vAsked).offset = 0 THEN Head(vAsked).page ELSE vList \o Head(vAsked).page
      /\ vCrossed' = IF Head(vAsked).offset = 0 THEN \E k \in DOMAIN Tail(vAsked) : Tail(vAsked)[k].offset # 0
                     ELSE \/ vCrossed
                          \/ Head(vAsked).page # <<>> /\ vList # <<>> /\ Head(vAsked).page[1].id > vList[1].id
      /\ UNCHANGED <<vCalls, vLive, vSeen, vTimer, vOpen, vFailed, vSelected, vWant, vDetail, vExtra>>
    BY Zenon DEF View!Arrive, View!World, View!Shut
<1>2. /\ vAsked' \in Seq(PageRequest) /\ Len(vAsked') <= MaxAsked /\ 1 \in DOMAIN vAsked /\ Head(vAsked) = vAsked[1]
      /\ \A k \in DOMAIN vAsked' : /\ k \in Nat /\ k + 1 \in DOMAIN vAsked /\ k + 1 # 1 /\ vAsked'[k] = vAsked[k + 1]
                                  /\ Further(k)' = Further(k + 1)
    BY <1>1, OneIsOver
<1>3. PICK page : page = vAsked[1].page
    OBVIOUS
<1>4. page \in Seq(Summary) /\ vCalls \in Nat /\ vCrossed \in BOOLEAN /\ vCalls' = vCalls
    <2>1. vAsked[1] \in PageRequest
        BY <1>2 DEF ViewInv, ViewTypes
    <2> QED BY <1>1, <1>3, <2>1, ViewBounds DEF PageRequest, ViewInv, ViewTypes
<1>5. Further(1) = (vAsked[1].offset # 0)
    BY DEF Further
<1>6. vList' = IF Further(1) THEN vList \o page ELSE page
    BY <1>1, <1>2, <1>3, <1>5
<1>7. /\ Further(1) => vCrossed' = (vCrossed \/ (page # <<>> /\ vList # <<>> /\ page[1].id > vList[1].id))
      /\ ~Further(1) => vCrossed' = (\E k \in DOMAIN vAsked' : Further(k)')
    <2>1. ASSUME Further(1) PROVE vCrossed' = (vCrossed \/ (page # <<>> /\ vList # <<>> /\ page[1].id > vList[1].id))
        BY <1>1, <1>2, <1>3, <1>5, <2>1, Zenon
    <2>2. ASSUME ~Further(1) PROVE vCrossed' = (\E k \in DOMAIN vAsked' : Further(k)')
        BY <1>1, <1>2, <1>5, <2>2, Zenon DEF Further
    <2> QED BY <2>1, <2>2
<1>8. vCrossed' \in BOOLEAN
    <2>1. CASE Further(1)
        BY <1>7, <2>1, Zenon
    <2>2. CASE ~Further(1)
        BY <1>7, <2>2, Zenon
    <2> QED BY <2>1, <2>2
<1>9. ListInv' /\ vList' \in Seq(Summary)
    BY <1>2, <1>3, <1>4, <1>6, <1>7, ListGoesOn
<1>10. ViewTypes' /\ SelectionInv'
    <2>1. vHasMore' \in BOOLEAN
        BY <1>1, Zenon
    <2>2. vOpen
        BY <1>1 DEF ViewInv, ViewTypes
    <2> QED BY <1>1, <1>2, <1>8, <1>9, <2>1, <2>2 DEF ViewInv, ViewTypes, SelectionInv
<1>11. ~vCrossed' => \A k \in DOMAIN vAsked' : ~Further(k)'
    <2> SUFFICES ASSUME ~vCrossed', Further(1), NEW k \in DOMAIN vAsked', Further(k)' PROVE FALSE
        BY <1>7
    <2>1. ~vCrossed /\ Further(k + 1) /\ k + 1 \in DOMAIN vAsked /\ k + 1 # 1
        BY <1>2, <1>7
    <2> QED BY <1>2, <2>1 DEF ViewInv, AskedInv
<1>12. AskedInv'
    BY <1>11 DEF AskedInv
<1>13. PagesInv'
    <2> SUFFICES ASSUME NEW k \in DOMAIN vAsked', vAsked'[k].page # <<>>
                 PROVE  \E top \in 0..vCalls' : PageFrom(vAsked'[k].page, top) /\ top + vAsked'[k].offset <= vCalls'
        BY <1>11 DEF PagesInv, PageFrom
    <2>1. k + 1 \in DOMAIN vAsked /\ vAsked'[k] = vAsked[k + 1]
        BY <1>2
    <2> QED BY <1>4, <2>1 DEF ViewInv, PagesInv
<1> QED BY <1>9, <1>10, <1>12, <1>13 DEF ViewInv

\* What changes neither the list nor what was asked for.
LEMMA ListRests ==
  ASSUME ViewInv, UNCHANGED <<vList, vAsked, vLoading, vFailed, vCrossed>>, vCalls' \in Nat, vCalls' >= vCalls
  PROVE  AskedInv' /\ ListInv' /\ PagesInv'
<1>1. vCalls \in Nat /\ Len(vList) \in Nat /\ vList \in Seq(Summary)
    BY ViewBounds DEF ViewInv, ViewTypes
<1>2. AskedInv'
    BY DEF ViewInv, AskedInv, Further
<1>3. \A id : Listed(id)' = Listed(id)
    BY DEF Listed
<1>4. ListInv'
    <2>1. \A k \in DOMAIN vList : vList[k].id \in Nat /\ vList[k].id \in 1..vCalls
        BY <1>1 DEF ViewInv, ListInv
    <2>2. \A k \in DOMAIN vList : vList[k].id \in 1..vCalls'
        BY <1>1, <2>1
    <2>3. \A id \in Nat : id + Len(vList) > vCalls' => id + Len(vList) > vCalls
        BY <1>1
    <2> QED BY <1>1, <1>3, <2>2, <2>3 DEF ViewInv, ListInv
<1>5. PagesInv'
    <2> SUFFICES ASSUME NEW k \in DOMAIN vAsked', vAsked'[k].page # <<>>
                 PROVE  \E top \in 0..vCalls' :
                          /\ PageFrom(vAsked'[k].page, top) /\ top + vAsked'[k].offset <= vCalls'
                          /\ ~vCrossed' /\ Further(k)' =>
                               \A i \in DOMAIN vList' : \A id \in (top + 1)..vList'[i].id : Listed(id)'
        BY DEF PagesInv, PageFrom
    <2>1. Further(k)' = Further(k) /\ k \in DOMAIN vAsked /\ vAsked'[k] = vAsked[k]
        BY DEF Further
    <2>2. vAsked[k].offset \in Nat
        <3>1. vAsked[k] \in PageRequest
            BY <2>1 DEF ViewInv, ViewTypes
        <3> QED BY <3>1 DEF PageRequest
    <2>3. PICK top \in 0..vCalls :
            /\ PageFrom(vAsked[k].page, top) /\ top + vAsked[k].offset <= vCalls
            /\ ~vCrossed /\ Further(k) => \A i \in DOMAIN vList : \A id \in (top + 1)..vList[i].id : Listed(id)
        BY <2>1 DEF ViewInv, PagesInv
    <2>4. top \in 0..vCalls' /\ top + vAsked[k].offset <= vCalls'
        BY <1>1, <2>2, <2>3
    <2> QED BY <1>3, <2>1, <2>3, <2>4
<1> QED BY <1>2, <1>4, <1>5

\* Every step keeps the invariant.
LEMMA ViewStep == ASSUME ViewInv, [View!Next]_(View!historyVars) PROVE ViewInv'
<1>b. MaxStored \in Nat /\ MaxAsked \in Nat \ {0} /\ vCalls \in 0..MaxStored /\ vCalls \in Nat /\ vAsked \in Seq(PageRequest)
    BY ViewBounds DEF ViewInv, ViewTypes
<1>a. \A r : Len(Append(vAsked, r)) = Len(vAsked) + 1
    BY <1>b
<1>1. ASSUME View!Open PROVE ViewInv'
    <2>1. Asks(0)
        <3>1. vAsked = <<>>
            BY <1>1 DEF View!Open, ViewInv, ViewTypes
        <3>2. Len(Append(vAsked, [offset |-> 0, page |-> <<>>, read |-> FALSE])) <= MaxAsked
            BY <1>a, <1>b, <3>1
        <3> QED BY <1>1, <3>2 DEF View!Open, View!Refresh, View!Ask, View!World, View!Shut, Asks, ViewInv, ViewTypes
    <2> QED BY <2>1, AsksKeeps
<1>2. ASSUME View!RefreshClicked \/ View!RefreshAfterEnd PROVE ViewInv'
    <2>1. Len(vAsked) < MaxAsked
        BY <1>2 DEF View!RefreshClicked, View!RefreshAfterEnd
    <2>2. Len(Append(vAsked, [offset |-> 0, page |-> <<>>, read |-> FALSE])) <= MaxAsked
        BY <1>a, <1>b, <2>1
    <2>3. Asks(0)
        BY <1>2, <2>2 DEF View!RefreshClicked, View!RefreshAfterEnd, View!Refresh, View!Ask, View!World, View!Shut,
           Asks, ViewInv, ViewTypes
    <2> QED BY <2>3, AsksKeeps
<1>3. ASSUME View!LoadMore PROVE ViewInv'
    <2>1. /\ ~vLoading /\ ~vFailed /\ vOpen /\ Len(vAsked) < MaxAsked /\ Len(vList) \in Nat
        BY <1>3 DEF View!LoadMore, View!ListShown, ViewInv, ViewTypes
    <2>2. Len(Append(vAsked, [offset |-> Len(vList), page |-> <<>>, read |-> FALSE])) <= MaxAsked
        BY <1>a, <1>b, <2>1
    <2>3. Asks(Len(vList))
        BY <1>3, <2>1, <2>2 DEF View!LoadMore, View!Ask, View!World, View!Shut, Asks, ViewInv, ViewTypes
    <2> QED BY <2>1, <2>3, AsksKeeps
<1>4. ASSUME View!Close PROVE ViewInv'
    <2>1. /\ vAsked' = <<>> /\ vList' = <<>> /\ vSelected' = 0 /\ vWant' = {} /\ vDetail' = 0
          /\ vExtra' = [of |-> 0, shown |-> 0] /\ vTimer' = FALSE /\ vLoading' = FALSE /\ vHasMore' = FALSE
          /\ vFailed' = FALSE /\ vCrossed' = FALSE /\ vOpen' = FALSE /\ UNCHANGED <<vCalls, vLive, vSeen>>
        BY <1>4 DEF View!Close, View!None, View!NoExtra, View!World
    <2>2. ViewTypes'
        <3>1. Len(<<>>) <= MaxAsked /\ <<>> \in Seq(PageRequest) /\ <<>> \in Seq(Summary)
            BY <1>b
        <3> QED BY <2>1, <3>1 DEF ViewInv, ViewTypes
    <2>3. SelectionInv'
        BY <1>b, <2>1 DEF SelectionInv
    <2> QED BY <2>1, <2>2, <2>3 DEF ViewInv, AskedInv, ListInv, PagesInv
<1>5. ASSUME View!Select \/ View!DetailArrives \/ View!DetailFails \/ View!ExtraArrives \/ View!Back PROVE ViewInv'
    <2>1. UNCHANGED <<vCalls, vLive, vSeen, vTimer, vOpen, vList, vLoading, vHasMore, vFailed, vAsked, vCrossed>>
        BY <1>5, Zenon DEF View!Select, View!DetailArrives, View!DetailFails, View!ExtraArrives, View!Back, View!World
    <2>2. ViewTypes'
        BY <2>1 DEF ViewInv, ViewTypes
    <2>3. AskedInv' /\ ListInv' /\ PagesInv'
        BY <1>b, <2>1, ListRests
    <2>s. /\ vSelected \in 0..vCalls /\ 0 \notin vWant /\ vWant \subseteq {vSelected}
          /\ vDetail \in {0, vSelected} /\ (vDetail # 0 => vWant = {})
          /\ vExtra \in [of : {0, vDetail}, shown : {0, vDetail}]
        BY DEF ViewInv, SelectionInv
    <2>4. CASE View!Select
        <3>1. /\ vSelected = 0 /\ vDetail' = 0 /\ vExtra' = vExtra
              /\ \E k \in DOMAIN vList : vSelected' = vList[k].id /\ vWant' = vWant \cup {vList[k].id}
            BY <2>4, Zenon DEF View!Select, View!ListShown, View!None
        <3>2. PICK k \in DOMAIN vList : vSelected' = vList[k].id /\ vWant' = vWant \cup {vList[k].id}
            BY <3>1
        <3>3. vList[k].id \in 1..vCalls
            BY DEF ViewInv, ListInv
        <3>4. vWant = {} /\ vDetail = 0
            BY <2>s, <3>1
        <3> QED BY <1>b, <2>1, <2>2, <2>3, <2>s, <3>1, <3>2, <3>3, <3>4 DEF ViewInv, SelectionInv
    <2>5. CASE View!DetailArrives
        <3>1. PICK id \in vWant : vDetail' = id /\ vWant' = vWant \ {id} /\ vExtra' = [of |-> id, shown |-> 0]
            BY <2>5, Zenon DEF View!DetailArrives, View!None
        <3>2. vSelected' = vSelected
            BY <2>5 DEF View!DetailArrives
        <3>3. id = vSelected /\ vWant' = {}
            BY <2>s, <3>1
        <3> QED BY <2>1, <2>2, <2>3, <2>s, <3>1, <3>2, <3>3 DEF ViewInv, SelectionInv
    <2>6. CASE View!DetailFails
        BY <2>1, <2>2, <2>3, <2>s, <2>6 DEF View!DetailFails, ViewInv, SelectionInv
    <2>7. CASE View!ExtraArrives
        <3>1. vExtra' = [of |-> 0, shown |-> vExtra.of] /\ UNCHANGED <<vSelected, vWant, vDetail>>
            BY <2>7 DEF View!ExtraArrives, View!None
        <3> QED BY <2>1, <2>2, <2>3, <2>s, <3>1 DEF ViewInv, SelectionInv
    <2>8. CASE View!Back
        <3>1. /\ vSelected' = 0 /\ vDetail' = 0 /\ vExtra' = [of |-> 0, shown |-> 0] /\ vWant' = vWant
              /\ vDetail # 0 \/ vWant = {}
            BY <2>8 DEF View!Back, View!DetailShown, View!None, View!NoExtra
        <3>2. vWant' = {}
            BY <2>s, <3>1
        <3> QED BY <1>b, <2>1, <2>2, <2>3, <3>1, <3>2 DEF ViewInv, SelectionInv
    <2> QED BY <1>5, <2>4, <2>5, <2>6, <2>7, <2>8
<1>6. ASSUME View!CallBegins \/ View!CallEnds \/ View!EndIsShown PROVE ViewInv'
    <2>1. /\ UNCHANGED <<vOpen, vList, vLoading, vHasMore, vFailed, vAsked, vSelected, vWant, vDetail, vExtra, vCrossed>>
          /\ vCalls' = vCalls \/ (vCalls < MaxStored /\ vCalls' = vCalls + 1)
        BY <1>6, Zenon DEF View!CallBegins, View!CallEnds, View!EndIsShown, View!Shut
    <2>2. vLive' \in BOOLEAN /\ vTimer' \in BOOLEAN /\ vSeen' \in {"none", "live", "settled"} /\ (~vOpen => ~vTimer')
        <3>1. /\ vLive \in BOOLEAN /\ vTimer \in BOOLEAN /\ vOpen \in BOOLEAN /\ (~vOpen => ~vTimer)
              /\ vSeen \in {"none", "live", "settled"}
            BY DEF ViewInv, ViewTypes
        <3>2. CASE View!CallBegins
            BY <3>2 DEF View!CallBegins
        <3>3. CASE View!CallEnds
            BY <3>1, <3>3 DEF View!CallEnds
        <3>4. CASE View!EndIsShown
            <4>1. vLive' = vLive /\ vTimer' = vOpen /\ vSeen' = "settled"
                BY <3>4, Zenon DEF View!EndIsShown
            <4> QED BY <3>1, <4>1
        <3> QED BY <1>6, <3>2, <3>3, <3>4
    <2>3. vCalls' \in 0..MaxStored /\ vCalls' \in Nat /\ vCalls' >= vCalls
        BY <1>b, <2>1
    <2>4. ViewTypes' /\ SelectionInv'
        BY <1>b, <2>1, <2>2, <2>3 DEF ViewInv, ViewTypes, SelectionInv
    <2> QED BY <2>1, <2>3, <2>4, ListRests DEF ViewInv
<1>7. ASSUME UNCHANGED View!historyVars PROVE ViewInv'
    <2>1. ViewTypes' /\ SelectionInv'
        BY <1>7 DEF View!historyVars, ViewInv, ViewTypes, SelectionInv
    <2>2. UNCHANGED <<vList, vAsked, vLoading, vFailed, vCrossed, vCalls>>
        BY <1>7 DEF View!historyVars
    <2> QED BY <1>b, <2>1, <2>2, ListRests DEF ViewInv
<1> QED BY <1>1, <1>2, <1>3, <1>4, <1>5, <1>6, <1>7, ReadKeeps, ArriveKeeps, PageFailsKeeps, Zenon DEF View!Next

\* The invariant holds from the start, in every step, and says what is promised.
LEMMA ViewSafe ==
  View!Init /\ [][View!Next]_(View!historyVars) =>
    [](View!TypeOK /\ View!DetailIsOfSelected /\ View!NoCallIsSkipped)
<1>1. View!Init => ViewInv
    <2> SUFFICES ASSUME View!Init PROVE ViewInv
        OBVIOUS
    <2>1. /\ vCalls = FirstStored /\ vLive = FALSE /\ vSeen = "none" /\ vTimer = FALSE /\ vOpen = FALSE /\ vList = <<>>
          /\ vLoading = FALSE /\ vHasMore = FALSE /\ vFailed = FALSE /\ vAsked = <<>> /\ vSelected = 0 /\ vWant = {}
          /\ vDetail = 0 /\ vExtra = [of |-> 0, shown |-> 0] /\ vCrossed = FALSE
        BY DEF View!Init, View!None, View!NoExtra
    <2>2. ViewTypes
        <3>1. Len(<<>>) <= MaxAsked /\ <<>> \in Seq(PageRequest) /\ <<>> \in Seq(Summary)
            BY ViewBounds
        <3> QED BY <2>1, <3>1, ViewBounds DEF ViewTypes
    <2>3. SelectionInv
        BY <2>1, ViewBounds DEF SelectionInv
    <2> QED BY <2>1, <2>2, <2>3 DEF ViewInv, AskedInv, ListInv, PagesInv
<1>2. ViewInv /\ [View!Next]_(View!historyVars) => ViewInv'
    BY ViewStep
<1>3. ViewInv => View!TypeOK /\ View!DetailIsOfSelected /\ View!NoCallIsSkipped
    <2> SUFFICES ASSUME ViewInv PROVE View!TypeOK /\ View!DetailIsOfSelected /\ View!NoCallIsSkipped
        OBVIOUS
    <2>1. vCalls \in Nat /\ vCalls \in 0..MaxStored
        BY ViewBounds DEF ViewInv, ViewTypes
    <2>2. View!TypeOK
        <3>1. vWant \cup {vSelected, vDetail, vExtra.of, vExtra.shown} \subseteq 0..vCalls
            <4>1. /\ vSelected \in 0..vCalls /\ vWant \subseteq {vSelected} /\ vDetail \in {0, vSelected}
                  /\ vExtra \in [of : {0, vDetail}, shown : {0, vDetail}]
                BY DEF ViewInv, SelectionInv
            <4>2. vExtra.of \in {0, vDetail} /\ vExtra.shown \in {0, vDetail} /\ 0 \in 0..vCalls
                BY <2>1, <4>1
            <4> QED BY <4>1, <4>2
        <3> QED BY <2>1, <3>1 DEF View!TypeOK, ViewInv, ViewTypes, ListInv
    <2>3. View!DetailIsOfSelected
        BY DEF View!DetailIsOfSelected, View!None, ViewInv, SelectionInv
    <2>4. View!NoCallIsSkipped
        <3> SUFFICES ASSUME ~vCrossed, NEW j \in DOMAIN vList, NEW k \in DOMAIN vList,
                            NEW id \in vList[k].id..vList[j].id
                     PROVE  \E i \in DOMAIN vList : vList[i].id = id
            BY Zenon DEF View!NoCallIsSkipped
        <3>1. /\ vList[k].id \in 1..vCalls /\ vList[j].id \in 1..vCalls /\ vList[j].id <= vList[1].id
            BY DEF ViewInv, ListInv
        <3>2. 1 \in DOMAIN vList /\ vList[1].id \in 1..vCalls
            BY DEF ViewInv, ViewTypes, ListInv
        <3>3. id \in 1..vList[1].id /\ id >= vList[k].id
            BY <2>1, <3>1, <3>2
        <3> QED BY <3>3 DEF ViewInv, ListInv, Listed
    <2> QED BY <2>2, <2>3, <2>4
<1> QED BY <1>1, <1>2, <1>3, PTL

-----------------------------------------------------------------------------
(* The forms of the window *)

\* What a form asks of the main process.
FormRequest ==
  [op : {"read", "save", "import"}, sent : Forms!Values, fields : SUBSET Forms!Fields,
   mine : SUBSET Forms!Fields, sure : BOOLEAN, frees : BOOLEAN, live : BOOLEAN,
   state : {"sent", "done", "failed"}, result : Forms!Values]

\* Every variable has its type; a form that was never shown asks for nothing.
FormTypes ==
  /\ fKind \in Forms!Forms /\ fStore \in Forms!Values /\ fShown \in Forms!Values
  /\ fTouched \subseteq Forms!Fields /\ fKnown \in Forms!Values \cup {Forms!None}
  /\ fHydrated \in BOOLEAN /\ fLoading \in BOOLEAN /\ fBusy \in BOOLEAN /\ fRaced \in BOOLEAN
  /\ fMounts \in Nat /\ fOthers \in Nat /\ fActs \in 0..MaxActs
  /\ fQueue \in Seq(FormRequest) /\ (fMounts = 0 => fQueue = <<>>)

\* Requests are handled in their order, those that nobody awaits first; an
\* import is Twilio's, and somebody else's write, and the CRM is free after a read.
Waits(k) == fQueue[k].state = "sent"
QueueInv == \A k \in DOMAIN fQueue :
  /\ Waits(k) \/ (fQueue[k].live /\ \A j \in 1..(k - 1) : ~Waits(j))
  /\ fQueue[k].live \/ \A j \in 1..(k - 1) : ~fQueue[j].live
  /\ fQueue[k].op = "import" => fKind = "twilio" /\ (fQueue[k].state = "done" => fRaced)
  /\ fQueue[k].frees => fKind = "crm"

\* The editor of a campaign saves once, and is open and locked meanwhile.
EditorInv == fKind = "campaign" => \A k \in DOMAIN fQueue : fQueue[k].op = "save" =>
  fHydrated /\ fBusy /\ \A j \in DOMAIN fQueue : fQueue[j].op = "save" => j = k

\* Unless somebody else wrote, what was not touched shows what is stored,
ShownInv == fHydrated /\ ~fRaced => \A f \in Forms!Fields \ fTouched : fShown[f] = fStore[f]

\* what is under way changes what was touched before it was sent, of which
\* later ones change more,
Pends(k) == fQueue[k].op = "save" /\ Waits(k) /\ fQueue[k].live /\ fQueue[k].sure
PendsInv == ~fRaced => \A k \in DOMAIN fQueue : Pends(k) =>
  /\ fHydrated /\ fQueue[k].mine \subseteq fTouched
  /\ \A f \in fQueue[k].fields \ fQueue[k].mine : fQueue[k].sent[f] = fStore[f]
  /\ \A j \in DOMAIN fQueue : j < k /\ Pends(j) => fQueue[j].mine \subseteq fQueue[k].mine

\* and the last save that was handled is what is stored, if it was done.
IsLast(k) == \A j \in DOMAIN fQueue : j > k => fQueue[j].op # "save" \/ Waits(j)
DoneInv == ~fRaced => \A k \in DOMAIN fQueue :
  fQueue[k].op = "save" /\ fQueue[k].state = "done" /\ IsLast(k) =>
    \A f \in fQueue[k].fields : fStore[f] = fQueue[k].sent[f]

FormInv == FormTypes /\ QueueInv /\ EditorInv /\ ShownInv /\ PendsInv /\ DoneInv

\* The bounds are numbers.
LEMMA FormBounds == MaxActs \in Nat /\ MaxOthers \in Nat
BY HostAssumption

\* The requests of a form are numbered from one.
LEMMA Asked == FormInv => /\ fQueue \in Seq(FormRequest) /\ Len(fQueue) \in Nat /\ DOMAIN fQueue = 1..Len(fQueue)
                          /\ \A k \in DOMAIN fQueue : fQueue[k] \in FormRequest
<1> SUFFICES ASSUME FormInv PROVE /\ fQueue \in Seq(FormRequest) /\ Len(fQueue) \in Nat /\ DOMAIN fQueue = 1..Len(fQueue)
                                  /\ \A k \in DOMAIN fQueue : fQueue[k] \in FormRequest
    OBVIOUS
<1>1. fQueue \in Seq(FormRequest)
    BY DEF FormInv, FormTypes
<1> QED BY <1>1

\* A request is added, and what was shown and touched goes on: Save, Click,
\* Refresh, Import and an edit between them.
Adds(r) ==
  /\ fQueue' = Append(fQueue, r) /\ r.state = "sent" /\ r.live
  /\ (r.op = "import" => fKind = "twilio") /\ ~r.frees
  /\ r.op = "save" =>
       /\ r.mine = fTouched' /\ r.sure = fHydrated
       /\ fKind = "campaign" => fHydrated /\ fBusy' /\ ~fBusy
       /\ \A f \in r.fields \ r.mine : r.sent[f] = fShown[f]
  /\ fBusy => fBusy'
  /\ fTouched \subseteq fTouched' /\ \A f \in Forms!Fields \ fTouched' : fShown'[f] = fShown[f]
  /\ fMounts # 0 /\ UNCHANGED <<fKind, fStore, fHydrated, fKnown, fLoading, fMounts, fOthers, fRaced>>

\* It keeps the invariant if its fields and counters are what they may be.
LEMMA AddsKeeps ==
  ASSUME FormInv, NEW r \in FormRequest, Adds(r), fShown' \in Forms!Values, fTouched' \subseteq Forms!Fields,
         fBusy' \in BOOLEAN, fActs' \in 0..MaxActs
  PROVE  FormInv'
<1>0. PICK n \in Nat : n = Len(fQueue) + 1
    BY Asked
<1>1. /\ n \in Nat /\ n = Len(fQueue) + 1 /\ fQueue' \in Seq(FormRequest) /\ Len(fQueue) \in Nat /\ DOMAIN fQueue = 1..Len(fQueue)
      /\ DOMAIN fQueue' = 1..n /\ fQueue'[n] = r
      /\ \A k \in DOMAIN fQueue : k \in DOMAIN fQueue' /\ fQueue'[k] = fQueue[k]
    <2>1. fQueue \in Seq(FormRequest) /\ fQueue' = Append(fQueue, r)
        BY Asked DEF Adds
    <2> QED BY <1>0, <2>1
<1>2. UNCHANGED <<fKind, fStore, fHydrated, fKnown, fLoading, fMounts, fOthers, fRaced>> /\ fMounts # 0
    BY DEF Adds
<1>3. FormTypes'
    BY <1>1, <1>2 DEF FormInv, FormTypes
<1>4. /\ \A k \in DOMAIN fQueue : Waits(k)' = Waits(k) /\ Pends(k)' = Pends(k)
      /\ Waits(n)'
    <2>1. r.state = "sent"
        BY DEF Adds
    <2>2. \A k \in DOMAIN fQueue : Waits(k)' = Waits(k)
        BY <1>1 DEF Waits
    <2>3. \A k \in DOMAIN fQueue : Pends(k)' = Pends(k)
        BY <1>1, <2>2 DEF Pends
    <2>4. fQueue'[n].state = "sent"
        BY <1>1, <2>1
    <2> QED BY <2>2, <2>3, <2>4 DEF Waits
<1>5. QueueInv'
    <2> SUFFICES ASSUME NEW k \in DOMAIN fQueue'
                 PROVE  /\ Waits(k)' \/ (fQueue'[k].live /\ \A j \in 1..(k - 1) : ~Waits(j)')
                        /\ fQueue'[k].live \/ \A j \in 1..(k - 1) : ~fQueue'[j].live
                        /\ fQueue'[k].op = "import" => fKind' = "twilio" /\ (fQueue'[k].state = "done" => fRaced')
                        /\ fQueue'[k].frees => fKind' = "crm"
        BY DEF QueueInv
    <2>1. CASE k = n
        <3>1. /\ fQueue'[k] = r /\ r.live /\ r.state = "sent" /\ (r.op = "import" => fKind = "twilio")
              /\ Waits(k)' /\ ~r.frees
            BY <1>1, <1>4, <2>1 DEF Adds
        <3> QED BY <1>2, <3>1
    <2>2. CASE k \in DOMAIN fQueue
        <3>1. \A j \in 1..(k - 1) : j \in DOMAIN fQueue
            BY <1>1, <2>2
        <3> QED BY <1>1, <1>2, <1>4, <2>2, <3>1 DEF FormInv, QueueInv
    <2> QED BY <1>0, <1>1, <2>1, <2>2
<1>6. EditorInv'
    <2> SUFFICES ASSUME fKind' = "campaign", NEW k \in DOMAIN fQueue', fQueue'[k].op = "save"
                 PROVE  fHydrated' /\ fBusy' /\ \A j \in DOMAIN fQueue' : fQueue'[j].op = "save" => j = k
        BY DEF EditorInv
    <2>1. CASE r.op = "save"
        <3>1. fHydrated /\ fBusy' /\ ~fBusy
            BY <1>2, <2>1 DEF Adds
        <3>2. \A j \in DOMAIN fQueue : fQueue[j].op # "save"
            BY <1>2, <3>1 DEF FormInv, EditorInv
        <3> QED BY <1>1, <1>2, <3>1, <3>2
    <2>2. CASE r.op # "save"
        <3>1. k \in DOMAIN fQueue /\ fQueue[k].op = "save"
            BY <1>1, <2>2
        <3>2. fHydrated /\ fBusy /\ \A j \in DOMAIN fQueue : fQueue[j].op = "save" => j = k
            BY <1>2, <3>1 DEF FormInv, EditorInv
        <3>3. fBusy'
            BY <3>2 DEF Adds
        <3> QED BY <1>1, <1>2, <2>2, <3>2, <3>3
    <2> QED BY <2>1, <2>2
<1>7. ShownInv'
    BY <1>2 DEF FormInv, ShownInv, Adds
<1>8. PendsInv'
    <2> SUFFICES ASSUME ~fRaced', NEW k \in DOMAIN fQueue', Pends(k)'
                 PROVE  /\ fHydrated' /\ fQueue'[k].mine \subseteq fTouched'
                        /\ \A f \in fQueue'[k].fields \ fQueue'[k].mine : fQueue'[k].sent[f] = fStore'[f]
                        /\ \A j \in DOMAIN fQueue' : j < k /\ Pends(j)' => fQueue'[j].mine \subseteq fQueue'[k].mine
        BY DEF PendsInv
    <2>1. \A j \in DOMAIN fQueue : Pends(j) => fQueue[j].mine \subseteq fTouched'
        BY <1>2 DEF FormInv, PendsInv, Adds
    <2>2. CASE k \in DOMAIN fQueue
        <3>1. /\ fHydrated /\ \A f \in fQueue[k].fields \ fQueue[k].mine : fQueue[k].sent[f] = fStore[f]
              /\ \A j \in DOMAIN fQueue : j < k /\ Pends(j) => fQueue[j].mine \subseteq fQueue[k].mine
            BY <1>2, <1>4, <2>2 DEF FormInv, PendsInv
        <3>2. \A j \in DOMAIN fQueue' : j < k => j \in DOMAIN fQueue
            BY <1>1, <2>2
        <3> QED BY <1>1, <1>2, <1>4, <2>1, <2>2, <3>1, <3>2
    <2>3. CASE k = n
        <3>1. r.op = "save" /\ r.sure
            BY <1>1, <2>3 DEF Pends
        <3>2. fHydrated /\ r.mine = fTouched' /\ \A f \in r.fields \ r.mine : r.sent[f] = fShown[f]
            BY <3>1 DEF Adds
        <3>3. \A f \in r.fields \ r.mine : r.sent[f] = fStore[f]
            <4>1. fTouched \subseteq r.mine /\ r.fields \subseteq Forms!Fields
                BY <3>2 DEF Adds, FormRequest
            <4> QED BY <1>2, <3>2, <4>1 DEF FormInv, ShownInv
        <3>4. \A j \in DOMAIN fQueue' : j < k => j \in DOMAIN fQueue
            BY <1>1, <2>3
        <3> QED BY <1>1, <1>2, <1>4, <2>1, <2>3, <3>2, <3>3, <3>4
    <2> QED BY <1>0, <1>1, <2>2, <2>3
<1>9. DoneInv'
    <2> SUFFICES ASSUME ~fRaced', NEW k \in DOMAIN fQueue', fQueue'[k].op = "save", fQueue'[k].state = "done", IsLast(k)'
                 PROVE  \A f \in fQueue'[k].fields : fStore'[f] = fQueue'[k].sent[f]
        BY DEF DoneInv
    <2>1. k \in DOMAIN fQueue
        <3>1. k # n
            BY <1>4 DEF Waits
        <3> QED BY <1>0, <1>1, <3>1
    <2>2. IsLast(k)
        BY <1>1, <1>4, <2>1 DEF IsLast
    <2> QED BY <1>1, <1>2, <2>1, <2>2 DEF FormInv, DoneInv
<1> QED BY <1>3, <1>5, <1>6, <1>7, <1>8, <1>9 DEF FormInv

\* A step that leaves the queue as it is, and makes the form's own what was
\* somebody else's only if it sent nothing.
NoSave == \A k \in DOMAIN fQueue : fQueue[k].op # "save"
Rests ==
  /\ UNCHANGED <<fKind, fQueue, fMounts>>
  /\ fKind # "campaign" /\ fRaced => fRaced'
  /\ ~fRaced' => NoSave \/ (~fRaced /\ UNCHANGED <<fStore, fHydrated>> /\ fTouched \subseteq fTouched')
  /\ fKind = "campaign" => NoSave \/ UNCHANGED <<fHydrated, fBusy>>

\* Such a step keeps what the invariant says of requests.
LEMMA RestsKeeps == ASSUME FormInv, FormTypes', ShownInv', Rests PROVE FormInv'
<1>1. /\ UNCHANGED <<fKind, fQueue>> /\ \A k : Waits(k)' = Waits(k) /\ Pends(k)' = Pends(k) /\ IsLast(k)' = IsLast(k)
    BY DEF Rests, Waits, Pends, IsLast
<1>2. QueueInv'
    <2> SUFFICES ASSUME NEW k \in DOMAIN fQueue, fQueue[k].op = "import", fQueue[k].state = "done" PROVE fRaced'
        BY <1>1 DEF FormInv, QueueInv
    <2> QED BY DEF FormInv, QueueInv, Rests
<1>3. EditorInv'
    BY <1>1 DEF FormInv, EditorInv, Rests, NoSave
<1>4. PendsInv'
    BY <1>1 DEF FormInv, PendsInv, Rests, NoSave, Pends
<1>5. DoneInv'
    BY <1>1 DEF FormInv, DoneInv, Rests, NoSave
<1> QED BY <1>2, <1>3, <1>4, <1>5 DEF FormInv

\* A read that the form asks for.
LEMMA ReadingIs ==
  ASSUME NEW frees \in BOOLEAN
  PROVE  /\ Forms!Reading(frees) \in FormRequest /\ Forms!Reading(frees).op = "read"
         /\ Forms!Reading(frees).state = "sent" /\ Forms!Reading(frees).live /\ Forms!Reading(frees).frees = frees
<1>1. Forms!Default \in Forms!Values
    BY DEF Forms!Default, Forms!Values
<1> QED BY <1>1 DEF Forms!Reading, FormRequest

\* The first request is answered, and a read may follow it.
FirstLeaves ==
  /\ fQueue # <<>>
  /\ \/ fQueue' = Tail(fQueue)
     \/ \E frees \in BOOLEAN : fQueue' = Append(Tail(fQueue), Forms!Reading(frees)) /\ (frees => fKind = "crm")

\* What the queue is after that: each request is one place further.
LEMMA AfterFirst ==
  ASSUME FormInv, FirstLeaves
  PROVE  /\ fQueue' \in Seq(FormRequest) /\ 1 \in DOMAIN fQueue /\ Head(fQueue) = fQueue[1]
         /\ DOMAIN fQueue = 1..Len(fQueue) /\ Len(fQueue) \in Nat /\ DOMAIN fQueue' \subseteq 1..Len(fQueue)
         /\ \A k \in DOMAIN fQueue : k - 1 \in 1..(k - 1) => k - 1 \in DOMAIN fQueue'
         /\ \A k \in DOMAIN fQueue' :
              \/ k + 1 \in DOMAIN fQueue /\ fQueue'[k] = fQueue[k + 1]
              \/ /\ k = Len(fQueue) /\ fQueue'[k].op = "read" /\ fQueue'[k].state = "sent" /\ fQueue'[k].live
                 /\ fQueue'[k].frees => fKind = "crm"
<1>1. fQueue \in Seq(FormRequest) /\ fQueue # <<>>
    BY Asked DEF FirstLeaves
<1>2. Len(fQueue) \in Nat /\ Len(fQueue) # 0 /\ DOMAIN fQueue = 1..Len(fQueue)
    BY <1>1, EmptySeq, LenProperties
<1> PICK rest \in Seq(FormRequest) : rest = Tail(fQueue)
    BY <1>1, HeadTailProperties
<1>3. Len(rest) = Len(fQueue) - 1 /\ \A k \in 1..(Len(fQueue) - 1) : rest[k] = fQueue[k + 1]
    BY <1>1, HeadTailProperties
<1>4. DOMAIN rest = 1..(Len(fQueue) - 1)
    BY <1>2, <1>3, LenProperties
<1>5. 1 \in DOMAIN fQueue /\ Head(fQueue) = fQueue[1]
    BY <1>1, <1>2
<1>6. CASE fQueue' = rest
    BY <1>2, <1>3, <1>4, <1>5, <1>6
<1>7. CASE fQueue' # rest
    <2>1. PICK frees \in BOOLEAN : fQueue' = Append(rest, Forms!Reading(frees)) /\ (frees => fKind = "crm")
        BY <1>7 DEF FirstLeaves
    <2> PICK r \in FormRequest : r = Forms!Reading(frees)
        BY ReadingIs
    <2>2. r.op = "read" /\ r.state = "sent" /\ r.live /\ (r.frees => fKind = "crm")
        BY <2>1, ReadingIs
    <2>3. /\ fQueue' \in Seq(FormRequest) /\ DOMAIN fQueue' = 1..Len(fQueue) /\ fQueue'[Len(rest) + 1] = r
          /\ \A k \in DOMAIN rest : fQueue'[k] = rest[k]
        BY <1>2, <1>3, <1>4, <2>1
    <2> QED BY <1>2, <1>3, <1>4, <1>5, <2>2, <2>3
<1> QED BY <1>6, <1>7

\* What an answer may do to the form.
Alone == \A k \in DOMAIN fQueue : k = 1 \/ fQueue[k].op # "save"
Answering ==
  /\ FirstLeaves /\ UNCHANGED <<fKind, fStore, fMounts, fOthers, fActs>>
  /\ Len(fQueue) = 1 \/ (fRaced => fRaced')
  /\ ~fRaced' => Alone \/ (~fRaced /\ UNCHANGED <<fHydrated, fTouched>>)
  /\ fKind = "campaign" => Alone \/ UNCHANGED <<fHydrated, fBusy>>

\* It keeps the invariant if the form shows what is stored.
LEMMA AnsweringKeeps ==
  ASSUME FormInv, Answering, ShownInv', fShown' \in Forms!Values, fTouched' \subseteq Forms!Fields,
         fKnown' \in Forms!Values \cup {Forms!None},
         fHydrated' \in BOOLEAN, fLoading' \in BOOLEAN, fBusy' \in BOOLEAN, fRaced' \in BOOLEAN
  PROVE  FormInv'
<1>1. /\ fQueue' \in Seq(FormRequest) /\ 1 \in DOMAIN fQueue
      /\ DOMAIN fQueue = 1..Len(fQueue) /\ Len(fQueue) \in Nat /\ DOMAIN fQueue' \subseteq 1..Len(fQueue)
      /\ \A k \in DOMAIN fQueue : k - 1 \in 1..(k - 1) => k - 1 \in DOMAIN fQueue'
      /\ \A k \in DOMAIN fQueue' :
           \/ k + 1 \in DOMAIN fQueue /\ fQueue'[k] = fQueue[k + 1]
           \/ /\ k = Len(fQueue) /\ fQueue'[k].op = "read" /\ fQueue'[k].state = "sent" /\ fQueue'[k].live
              /\ fQueue'[k].frees => fKind = "crm"
    BY AfterFirst DEF Answering
<1>2. UNCHANGED <<fKind, fStore, fMounts, fOthers, fActs>>
    BY DEF Answering
<1>3. FormTypes'
    <2>1. fMounts # 0
        BY <1>1 DEF FormInv, FormTypes
    <2> QED BY <1>1, <1>2, <2>1 DEF FormInv, FormTypes
<1>4. \A k \in DOMAIN fQueue' : \/ k + 1 \in DOMAIN fQueue /\ Waits(k)' = Waits(k + 1) /\ Pends(k)' = Pends(k + 1)
                                \/ k = Len(fQueue) /\ Waits(k)' /\ ~Pends(k)'
    <2> SUFFICES ASSUME NEW k \in DOMAIN fQueue'
                 PROVE \/ k + 1 \in DOMAIN fQueue /\ Waits(k)' = Waits(k + 1) /\ Pends(k)' = Pends(k + 1)
                       \/ k = Len(fQueue) /\ Waits(k)' /\ ~Pends(k)'
        OBVIOUS
    <2>1. CASE k + 1 \in DOMAIN fQueue /\ fQueue'[k] = fQueue[k + 1]
        BY <2>1 DEF Waits, Pends
    <2>2. CASE k = Len(fQueue) /\ fQueue'[k].op = "read" /\ fQueue'[k].state = "sent"
        <3>1. Waits(k)' /\ ~Pends(k)'
            BY <2>2 DEF Waits, Pends
        <3> QED BY <2>2, <3>1
    <2> QED BY <1>1, <2>1, <2>2
<1>5. QueueInv'
    <2> SUFFICES ASSUME NEW k \in DOMAIN fQueue'
                 PROVE  /\ Waits(k)' \/ (fQueue'[k].live /\ \A j \in 1..(k - 1) : ~Waits(j)')
                        /\ fQueue'[k].live \/ \A j \in 1..(k - 1) : ~fQueue'[j].live
                        /\ fQueue'[k].op = "import" => fKind' = "twilio" /\ (fQueue'[k].state = "done" => fRaced')
                        /\ fQueue'[k].frees => fKind' = "crm"
        BY DEF QueueInv
    <2>1. CASE k + 1 \in DOMAIN fQueue /\ fQueue'[k] = fQueue[k + 1]
        <3>1. \A j \in 1..(k - 1) : /\ j + 1 \in 1..((k + 1) - 1) /\ j + 1 \in DOMAIN fQueue /\ j \in DOMAIN fQueue'
                                    /\ j # Len(fQueue)
            <4> SUFFICES ASSUME NEW j \in 1..(k - 1)
                         PROVE  /\ j + 1 \in 1..((k + 1) - 1) /\ j + 1 \in DOMAIN fQueue /\ j \in DOMAIN fQueue'
                                /\ j # Len(fQueue)
                OBVIOUS
            <4>1. j + 1 \in 1..((k + 1) - 1) /\ j + 1 \in DOMAIN fQueue /\ j # Len(fQueue) /\ (j + 1) - 1 \in 1..((j + 1) - 1)
                <5> PICK n \in Nat : n = Len(fQueue)
                    BY <1>1
                <5>1. k + 1 \in 1..n /\ k \in Nat
                    BY <1>1, <2>1
                <5>2. /\ j + 1 \in 1..((k + 1) - 1) /\ j + 1 \in 1..n /\ j # n /\ (j + 1) - 1 \in 1..((j + 1) - 1)
                    BY <5>1
                <5> QED BY <1>1, <5>2
            <4>2. j \in DOMAIN fQueue'
                <5>1. (j + 1) - 1 = j
                    OBVIOUS
                <5> QED BY <1>1, <4>1, <5>1
            <4> QED BY <4>1, <4>2
        <3>2. /\ Waits(k + 1) \/ (fQueue[k + 1].live /\ \A j \in 1..((k + 1) - 1) : ~Waits(j))
              /\ fQueue[k + 1].live \/ \A j \in 1..((k + 1) - 1) : ~fQueue[j].live
              /\ fQueue[k + 1].op = "import" => fKind = "twilio" /\ (fQueue[k + 1].state = "done" => fRaced)
              /\ fQueue[k + 1].frees => fKind = "crm"
            BY <2>1 DEF FormInv, QueueInv
        <3>3. fRaced => fRaced'
            BY <1>1, <2>1 DEF Answering
        <3>4. \A j \in 1..(k - 1) : fQueue'[j] = fQueue[j + 1] /\ Waits(j)' = Waits(j + 1)
            BY <1>1, <1>4, <3>1
        <3>5. Waits(k)' = Waits(k + 1)
            BY <1>1, <1>4, <2>1
        <3> QED BY <1>2, <2>1, <3>1, <3>2, <3>3, <3>4, <3>5
    <2>2. CASE /\ k = Len(fQueue) /\ fQueue'[k].op = "read" /\ fQueue'[k].state = "sent" /\ fQueue'[k].live
               /\ fQueue'[k].frees => fKind = "crm"
        <3>1. Waits(k)'
            BY <2>2 DEF Waits
        <3> QED BY <1>2, <2>2, <3>1
    <2> QED BY <1>1, <2>1, <2>2
<1>6. EditorInv'
    <2> SUFFICES ASSUME fKind = "campaign", NEW k \in DOMAIN fQueue', fQueue'[k].op = "save"
                 PROVE  fHydrated' /\ fBusy' /\ \A j \in DOMAIN fQueue' : fQueue'[j].op = "save" => j = k
        BY <1>2 DEF EditorInv
    <2>1. \A j \in DOMAIN fQueue' : fQueue'[j].op = "save" => j + 1 \in DOMAIN fQueue /\ fQueue[j + 1].op = "save" /\ j \in Nat
        <3> SUFFICES ASSUME NEW j \in DOMAIN fQueue', fQueue'[j].op = "save"
                     PROVE  j + 1 \in DOMAIN fQueue /\ fQueue[j + 1].op = "save" /\ j \in Nat
            OBVIOUS
        <3>1. j \in Nat
            BY <1>1
        <3>2. j + 1 \in DOMAIN fQueue /\ fQueue'[j] = fQueue[j + 1]
            BY <1>1
        <3> QED BY <3>1, <3>2
    <2>2. k + 1 # 1 /\ k \in Nat
        BY <1>1
    <2>3. UNCHANGED <<fHydrated, fBusy>>
        BY <2>1, <2>2 DEF Answering, Alone
    <2>4. fHydrated /\ fBusy /\ \A j \in DOMAIN fQueue : fQueue[j].op = "save" => j = k + 1
        BY <2>1 DEF FormInv, EditorInv
    <2>5. \A j \in DOMAIN fQueue' : fQueue'[j].op = "save" => j + 1 = k + 1 /\ j \in Nat
        BY <2>1, <2>4
    <2> QED BY <2>2, <2>3, <2>4, <2>5
<1>7. ASSUME ~fRaced', NEW k \in DOMAIN fQueue', fQueue'[k].op = "save"
      PROVE  /\ ~fRaced /\ UNCHANGED <<fHydrated, fTouched>> /\ k + 1 \in DOMAIN fQueue /\ fQueue'[k] = fQueue[k + 1]
             /\ Waits(k)' = Waits(k + 1) /\ Pends(k)' = Pends(k + 1) /\ k \in Nat
    <2>1. k + 1 \in DOMAIN fQueue /\ fQueue'[k] = fQueue[k + 1] /\ k \in Nat /\ k + 1 # 1
        BY <1>1, <1>7
    <2>2. Waits(k)' = Waits(k + 1) /\ Pends(k)' = Pends(k + 1)
        BY <1>1, <1>4, <2>1
    <2>3. ~Alone
        BY <1>7, <2>1 DEF Alone
    <2> QED BY <1>7, <2>1, <2>2, <2>3 DEF Answering
<1>8. PendsInv'
    <2> SUFFICES ASSUME ~fRaced', NEW k \in DOMAIN fQueue', Pends(k)'
                 PROVE  /\ fHydrated' /\ fQueue'[k].mine \subseteq fTouched'
                        /\ \A f \in fQueue'[k].fields \ fQueue'[k].mine : fQueue'[k].sent[f] = fStore'[f]
                        /\ \A j \in DOMAIN fQueue' : j < k /\ Pends(j)' => fQueue'[j].mine \subseteq fQueue'[k].mine
        BY DEF PendsInv
    <2>1. \A j \in DOMAIN fQueue' : Pends(j)' => fQueue'[j].op = "save"
        BY DEF Pends
    <2>2. /\ ~fRaced /\ UNCHANGED <<fHydrated, fTouched>> /\ k + 1 \in DOMAIN fQueue /\ fQueue'[k] = fQueue[k + 1]
          /\ Pends(k + 1) /\ k \in Nat
        BY <1>7, <2>1
    <2>3. \A j \in DOMAIN fQueue' : j < k /\ Pends(j)' =>
            j + 1 < k + 1 /\ j + 1 \in DOMAIN fQueue /\ fQueue'[j] = fQueue[j + 1] /\ Pends(j + 1)
        BY <1>7, <2>1, <2>2
    <2>4. /\ fHydrated /\ fQueue[k + 1].mine \subseteq fTouched
          /\ \A f \in fQueue[k + 1].fields \ fQueue[k + 1].mine : fQueue[k + 1].sent[f] = fStore[f]
          /\ \A j \in DOMAIN fQueue : j < k + 1 /\ Pends(j) => fQueue[j].mine \subseteq fQueue[k + 1].mine
        BY <2>2 DEF FormInv, PendsInv
    <2> QED BY <1>2, <2>2, <2>3, <2>4
<1>9. DoneInv'
    <2> SUFFICES ASSUME ~fRaced', NEW k \in DOMAIN fQueue', fQueue'[k].op = "save", fQueue'[k].state = "done", IsLast(k)'
                 PROVE  \A f \in fQueue'[k].fields : fStore'[f] = fQueue'[k].sent[f]
        BY DEF DoneInv
    <2>1. ~fRaced /\ k + 1 \in DOMAIN fQueue /\ fQueue'[k] = fQueue[k + 1] /\ k \in Nat
        BY <1>7
    <2>2. IsLast(k + 1)
        <3> SUFFICES ASSUME NEW j \in DOMAIN fQueue, j > k + 1, fQueue[j].op = "save", ~Waits(j) PROVE FALSE
            BY DEF IsLast
        <3> PICK i \in Nat : i = j - 1
            BY <1>1
        <3>1. i \in DOMAIN fQueue' /\ i > k /\ i + 1 = j /\ i # Len(fQueue)
            BY <1>1, <2>1
        <3>2. fQueue'[i] = fQueue[j] /\ Waits(i)' = Waits(j)
            BY <1>1, <1>4, <3>1
        <3> QED BY <3>1, <3>2 DEF IsLast
    <2> QED BY <1>2, <2>1, <2>2 DEF FormInv, DoneInv
<1> QED BY <1>3, <1>5, <1>6, <1>8, <1>9 DEF FormInv
\* What handling a request makes of it, and of what is stored.
LEMMA AnsweredIs ==
  ASSUME NEW r \in FormRequest, NEW state \in {"done", "failed"}, NEW values \in Forms!Values
  PROVE  /\ Forms!Answered(r, state, values) \in FormRequest /\ Forms!Answered(r, state, values).op = r.op
         /\ Forms!Answered(r, state, values).state = state /\ Forms!Answered(r, state, values).live = r.live
         /\ Forms!Answered(r, state, values).frees = r.frees /\ Forms!Answered(r, state, values).fields = r.fields
         /\ Forms!Answered(r, state, values).sent = r.sent /\ Forms!Answered(r, state, values).result = values
BY DEF FormRequest, Forms!Answered

\* What handling it writes: nothing, the fields of a save, or what was imported.
Writes(r, state) ==
  \/ /\ UNCHANGED <<fStore, fRaced>> /\ (r.op = "import" => state = "failed")
     /\ r.op = "save" => state = "failed"
  \/ r.op = "save" /\ fStore' = Forms!Merged(r) /\ fRaced' = (fRaced \/ ~r.sure \/ ~r.live)
  \/ r.op = "import" /\ fStore' \in Forms!Values /\ fRaced' = TRUE

\* A save writes its fields and leaves the others.
LEMMA MergedIs ==
  ASSUME FormInv, NEW r \in FormRequest
  PROVE  /\ Forms!Merged(r) \in Forms!Values
         /\ \A f \in Forms!Fields : Forms!Merged(r)[f] = IF f \in r.fields THEN r.sent[f] ELSE fStore[f]
<1>1. fStore \in Forms!Values /\ r.sent \in Forms!Values
    BY DEF FormInv, FormTypes, FormRequest
<1> QED BY <1>1 DEF Forms!Merged, Forms!Values

\* A request that nobody awaits leaves the queue.
LEMMA FirstRemoved ==
  ASSUME FormInv, 1 \in DOMAIN fQueue
  PROVE  Forms!RemoveAt(fQueue, 1) = Tail(fQueue) /\ fQueue # <<>>
<1>1. fQueue \in Seq(FormRequest) /\ Len(fQueue) \in Nat /\ DOMAIN fQueue = 1..Len(fQueue)
    BY Asked
<1>2. fQueue # <<>>
    BY <1>1, EmptySeq
<1>3. SubSeq(fQueue, 1, 1 - 1) = <<>>
    <2>1. 1 - 1 \in Int /\ 1 \in Int /\ 1 - 1 < 1
        OBVIOUS
    <2> QED BY <2>1, SubSeqEmpty
<1>4. SubSeq(fQueue, 1 + 1, Len(fQueue)) = Tail(fQueue) /\ Tail(fQueue) \in Seq(FormRequest)
    <2>1. 1 + 1 = 2
        OBVIOUS
    <2> QED BY <1>1, <1>2, <2>1, TailIsSubSeq, HeadTailProperties
<1>5. <<>> \o Tail(fQueue) = Tail(fQueue)
    BY <1>4, ConcatEmptySeq
<1> QED BY <1>2, <1>3, <1>4, <1>5, Zenon DEF Forms!RemoveAt

\* Handling the first request that waits, whoever awaits it.
Handles(k, state) ==
  /\ Waits(k) /\ \A j \in 1..(k - 1) : ~Waits(j)
  /\ Writes(fQueue[k], state)
  /\ \/ /\ fQueue[k].live
        /\ \E values \in Forms!Values :
             /\ fQueue' = [fQueue EXCEPT ![k] = Forms!Answered(fQueue[k], state, values)]
             /\ state = "done" => values = fStore'
     \/ ~fQueue[k].live /\ fQueue' = Forms!RemoveAt(fQueue, k)
  /\ UNCHANGED <<fKind, fShown, fTouched, fHydrated, fKnown, fLoading, fBusy, fMounts, fOthers, fActs>>

\* This is what Handle does.
LEMMA HandleIs ==
  ASSUME FormInv, Forms!Handle PROVE \E k \in DOMAIN fQueue, state \in {"done", "failed"} : Handles(k, state)
<1> PICK k \in DOMAIN fQueue, state \in {"done", "failed"} :
      /\ fQueue[k].state = "sent" /\ \A j \in 1..(k-1) : fQueue[j].state # "sent"
      /\ \/ fQueue[k].op = "read" /\ UNCHANGED <<fStore, fRaced>>
         \/ fQueue[k].op = "save" /\ state = "done" /\ fStore' = Forms!Merged(fQueue[k]) /\ fRaced' = (fRaced \/ Forms!Alien(fQueue[k]))
         \/ fQueue[k].op = "save" /\ state = "failed" /\ UNCHANGED <<fStore, fRaced>>
         \/ fQueue[k].op = "save" /\ state = "failed" /\ fKind \in Forms!KeepsFailed
            /\ fStore' = Forms!Merged(fQueue[k]) /\ fRaced' = (fRaced \/ Forms!Alien(fQueue[k]))
         \/ fQueue[k].op = "import" /\ state = "done" /\ fStore' \in Forms!Values /\ fRaced' = TRUE
         \/ fQueue[k].op = "import" /\ state = "failed" /\ UNCHANGED <<fStore, fRaced>>
      /\ fQueue' = IF fQueue[k].live
                   THEN [fQueue EXCEPT ![k] = Forms!Answered(fQueue[k], state, IF state = "done" THEN fStore' ELSE Forms!Default)]
                   ELSE Forms!RemoveAt(fQueue, k)
    BY Zenon DEF Forms!Handle
<1>1. UNCHANGED <<fKind, fShown, fTouched, fHydrated, fKnown, fLoading, fBusy, fMounts, fOthers, fActs>>
    BY Zenon DEF Forms!Handle, Forms!Form
<1>2. Waits(k) /\ \A j \in 1..(k - 1) : ~Waits(j)
    BY DEF Waits
<1>3. Writes(fQueue[k], state)
    <2>1. "read" # "save" /\ "read" # "import" /\ "import" # "save" /\ "failed" # "done"
        OBVIOUS
    <2> QED BY <2>1, Zenon DEF Writes, Forms!Alien
<1>4. fStore' \in Forms!Values /\ Forms!Default \in Forms!Values
    <2>1. Forms!Default \in Forms!Values
        BY DEF Forms!Default, Forms!Values
    <2>2. fQueue[k] \in FormRequest /\ fStore \in Forms!Values
        BY Asked DEF FormInv, FormTypes
    <2> QED BY <1>3, <2>1, <2>2, MergedIs DEF Writes
<1>5. CASE fQueue[k].live
    <2> PICK values \in Forms!Values : values = IF state = "done" THEN fStore' ELSE Forms!Default
        BY <1>4
    <2> QED BY <1>1, <1>2, <1>3, <1>5, Zenon DEF Handles
<1>6. CASE ~fQueue[k].live
    BY <1>1, <1>2, <1>3, <1>6, Zenon DEF Handles
<1> QED BY <1>5, <1>6
\* One that is awaited is answered in its place.
LEMMA HandledInPlace ==
  ASSUME FormInv, NEW k \in DOMAIN fQueue, NEW state \in {"done", "failed"}, Handles(k, state), fQueue[k].live,
         FormTypes', EditorInv'
  PROVE  FormInv'
<1>1. /\ fQueue \in Seq(FormRequest) /\ Len(fQueue) \in Nat /\ DOMAIN fQueue = 1..Len(fQueue)
      /\ \A j \in DOMAIN fQueue : fQueue[j] \in FormRequest
    BY Asked
<1> PICK values \in Forms!Values :
      /\ fQueue' = [fQueue EXCEPT ![k] = Forms!Answered(fQueue[k], state, values)]
      /\ state = "done" => values = fStore'
    BY Zenon DEF Handles
<1> PICK r \in FormRequest : r = fQueue[k]
    BY <1>1
<1> PICK a \in FormRequest : a = Forms!Answered(fQueue[k], state, values)
    BY AnsweredIs
<1>2. /\ a.op = r.op /\ a.state = state /\ a.live = r.live /\ a.frees = r.frees /\ a.fields = r.fields
      /\ a.sent = r.sent
    BY AnsweredIs
<1>3. /\ DOMAIN fQueue' = DOMAIN fQueue /\ fQueue'[k] = a /\ r = fQueue[k] /\ r.live
      /\ \A j \in DOMAIN fQueue : j # k => fQueue'[j] = fQueue[j]
    BY <1>1, ExceptSeq
<1>4. /\ Waits(k) /\ \A j \in 1..(k - 1) : ~Waits(j)
      /\ Writes(r, state)
      /\ UNCHANGED <<fKind, fShown, fTouched, fHydrated, fMounts>>
    BY <1>3, Zenon DEF Handles
<1>5. /\ ~Waits(k)' /\ ~Pends(k)'
      /\ \A j \in DOMAIN fQueue : j # k => Waits(j)' = Waits(j) /\ Pends(j)' = Pends(j)
    <2>1. fQueue'[k].state # "sent"
        BY <1>2, <1>3
    <2>2. ~Waits(k)' /\ \A j \in DOMAIN fQueue : j # k => Waits(j)' = Waits(j)
        BY <1>3, <2>1 DEF Waits
    <2> QED BY <1>3, <2>2 DEF Pends
<1>6. \A j \in DOMAIN fQueue : j # k => j < k \/ j > k
    BY <1>1
<1>7. fRaced => fRaced'
    BY <1>4, Zenon DEF Writes
<1>8. QueueInv'
    <2> SUFFICES ASSUME NEW j \in DOMAIN fQueue
                 PROVE  /\ Waits(j)' \/ (fQueue'[j].live /\ \A i \in 1..(j - 1) : ~Waits(i)')
                        /\ fQueue'[j].live \/ \A i \in 1..(j - 1) : ~fQueue'[i].live
                        /\ fQueue'[j].op = "import" => fKind' = "twilio" /\ (fQueue'[j].state = "done" => fRaced')
                        /\ fQueue'[j].frees => fKind' = "crm"
        BY <1>3 DEF QueueInv
    <2>1. /\ Waits(j) \/ (fQueue[j].live /\ \A i \in 1..(j - 1) : ~Waits(i))
          /\ fQueue[j].live \/ \A i \in 1..(j - 1) : ~fQueue[i].live
          /\ fQueue[j].op = "import" => fKind = "twilio" /\ (fQueue[j].state = "done" => fRaced)
          /\ fQueue[j].frees => fKind = "crm"
        BY DEF FormInv, QueueInv
    <2>2. \A i \in 1..(j - 1) : i \in DOMAIN fQueue
        BY <1>1
    <2>3. \A i \in 1..(j - 1) : ~Waits(i) => ~Waits(i)'
        BY <1>5, <2>2
    <2>4. \A i \in 1..(j - 1) : fQueue'[i].live = fQueue[i].live
        BY <1>2, <1>3, <2>2
    <2>5. CASE j = k
        <3>1. a.op = "import" => (state = "done" => fRaced')
            BY <1>2, <1>4 DEF Writes
        <3> QED BY <1>2, <1>3, <1>4, <2>1, <2>3, <2>5, <3>1
    <2>6. CASE j # k
        BY <1>3, <1>4, <1>5, <1>7, <2>1, <2>3, <2>4, <2>6
    <2> QED BY <2>5, <2>6
<1>9. CASE UNCHANGED <<fStore, fRaced>>
    <2>1. ShownInv'
        BY <1>4, <1>9 DEF FormInv, ShownInv
    <2>2. PendsInv'
        <3> SUFFICES ASSUME ~fRaced, NEW j \in DOMAIN fQueue, Pends(j)'
                     PROVE  /\ fHydrated /\ fQueue'[j].mine \subseteq fTouched
                            /\ \A f \in fQueue'[j].fields \ fQueue'[j].mine : fQueue'[j].sent[f] = fStore[f]
                            /\ \A i \in DOMAIN fQueue : i < j /\ Pends(i)' => fQueue'[i].mine \subseteq fQueue'[j].mine
            BY <1>3, <1>4, <1>9 DEF PendsInv
        <3>1. j # k /\ Pends(j) /\ fQueue'[j] = fQueue[j]
            BY <1>3, <1>5
        <3>2. \A i \in DOMAIN fQueue : Pends(i)' => Pends(i) /\ fQueue'[i] = fQueue[i]
            BY <1>3, <1>5
        <3> QED BY <3>1, <3>2 DEF FormInv, PendsInv
    <2>3. DoneInv'
        <3> SUFFICES ASSUME ~fRaced, NEW j \in DOMAIN fQueue, fQueue'[j].op = "save", fQueue'[j].state = "done", IsLast(j)'
                     PROVE  \A f \in fQueue'[j].fields : fStore[f] = fQueue'[j].sent[f]
            BY <1>3, <1>9 DEF DoneInv
        <3>1. CASE j = k
            <4>1. r.op = "save" /\ state = "done"
                BY <1>2, <1>3, <3>1
            <4>2. fStore' = Forms!Merged(r)
                BY <1>4, <4>1 DEF Writes
            <4>3. \A f \in r.fields : fStore'[f] = r.sent[f]
                <5>1. r.fields \subseteq Forms!Fields
                    BY DEF FormRequest
                <5> QED BY <4>2, <5>1, MergedIs
            <4> QED BY <1>2, <1>3, <1>9, <3>1, <4>3
        <3>2. CASE j # k
            <4>1. ~Waits(j)'
                BY DEF Waits
            <4>2. ~Waits(j) /\ fQueue'[j] = fQueue[j]
                BY <1>3, <1>5, <3>2, <4>1
            <4>3. IsLast(j)
                <5> SUFFICES ASSUME NEW i \in DOMAIN fQueue, i > j PROVE fQueue[i].op # "save" \/ Waits(i)
                    BY DEF IsLast
                <5>1. fQueue'[i].op # "save" \/ Waits(i)'
                    BY <1>3 DEF IsLast
                <5> QED BY <1>2, <1>3, <1>4, <1>5, <5>1
            <4> QED BY <4>2, <4>3 DEF FormInv, DoneInv
        <3> QED BY <3>1, <3>2
    <2> QED BY <1>8, <2>1, <2>2, <2>3 DEF FormInv
<1>10. CASE r.op = "save" /\ fStore' = Forms!Merged(r) /\ fRaced' = (fRaced \/ ~r.sure \/ ~r.live)
    <2>1. ASSUME ~fRaced' PROVE ~fRaced /\ Pends(k)
        BY <1>3, <1>4, <1>10, <2>1 DEF Pends
    <2>2. \A f \in Forms!Fields : fStore'[f] = IF f \in r.fields THEN r.sent[f] ELSE fStore[f]
        BY <1>10, MergedIs
    <2>3. ASSUME ~fRaced' PROVE \A f \in Forms!Fields \ r.mine : fStore'[f] = fStore[f]
        <3>1. \A f \in r.fields \ r.mine : r.sent[f] = fStore[f]
            BY <1>3, <2>1, <2>3 DEF FormInv, PendsInv
        <3> QED BY <2>2, <3>1
    <2>4. ShownInv'
        <3> SUFFICES ASSUME ~fRaced', fHydrated, NEW f \in Forms!Fields \ fTouched PROVE fShown[f] = fStore'[f]
            BY <1>4 DEF ShownInv
        <3>1. r.mine \subseteq fTouched
            BY <1>3, <2>1 DEF FormInv, PendsInv
        <3> QED BY <2>1, <2>3, <3>1 DEF FormInv, ShownInv
    <2>5. PendsInv'
        <3> SUFFICES ASSUME ~fRaced', NEW j \in DOMAIN fQueue, Pends(j)'
                     PROVE  /\ fHydrated /\ fQueue'[j].mine \subseteq fTouched
                            /\ \A f \in fQueue'[j].fields \ fQueue'[j].mine : fQueue'[j].sent[f] = fStore'[f]
                            /\ \A i \in DOMAIN fQueue : i < j /\ Pends(i)' => fQueue'[i].mine \subseteq fQueue'[j].mine
            BY <1>3, <1>4 DEF PendsInv
        <3>1. j # k /\ Pends(j) /\ fQueue'[j] = fQueue[j] /\ ~fRaced /\ Pends(k)
            BY <1>3, <1>5, <2>1
        <3>2. \A i \in DOMAIN fQueue : Pends(i)' => Pends(i) /\ fQueue'[i] = fQueue[i]
            BY <1>3, <1>5
        <3>3. k < j
            <4>1. j \notin 1..(k - 1)
                BY <1>4, <3>1 DEF Pends
            <4> QED BY <1>1, <1>6, <3>1, <4>1
        <3>4. r.mine \subseteq fQueue[j].mine
            BY <1>3, <3>1, <3>3 DEF FormInv, PendsInv
        <3>5. /\ fHydrated /\ fQueue[j].mine \subseteq fTouched
              /\ \A f \in fQueue[j].fields \ fQueue[j].mine : fQueue[j].sent[f] = fStore[f]
              /\ \A i \in DOMAIN fQueue : i < j /\ Pends(i) => fQueue[i].mine \subseteq fQueue[j].mine
            BY <3>1 DEF FormInv, PendsInv
        <3>6. fQueue[j].fields \subseteq Forms!Fields
            BY <1>1 DEF FormRequest
        <3> QED BY <2>3, <3>1, <3>2, <3>4, <3>5, <3>6
    <2>6. DoneInv'
        <3> SUFFICES ASSUME NEW j \in DOMAIN fQueue, fQueue'[j].op = "save", fQueue'[j].state = "done", IsLast(j)'
                     PROVE  \A f \in fQueue'[j].fields : fStore'[f] = fQueue'[j].sent[f]
            BY <1>3 DEF DoneInv
        <3>1. ~Waits(j)'
            BY DEF Waits
        <3>2. j = k
            <4> SUFFICES ASSUME j # k PROVE FALSE
                OBVIOUS
            <4>1. ~Waits(j)
                BY <1>5, <3>1
            <4>2. j < k
                <5>1. j > k => k \in 1..(j - 1)
                    BY <1>1
                <5>2. \A i \in 1..(j - 1) : ~Waits(i)
                    BY <4>1 DEF FormInv, QueueInv
                <5> QED BY <1>4, <1>6, <5>1, <5>2
            <4>3. fQueue'[k].op # "save" \/ Waits(k)'
                BY <1>3, <4>2 DEF IsLast
            <4> QED BY <1>2, <1>3, <1>5, <1>10, <4>3
        <3>3. r.fields \subseteq Forms!Fields
            BY DEF FormRequest
        <3> QED BY <1>2, <1>3, <2>2, <3>2, <3>3
    <2> QED BY <1>8, <2>4, <2>5, <2>6 DEF FormInv
<1>11. CASE fRaced'
    BY <1>8, <1>11 DEF FormInv, ShownInv, PendsInv, DoneInv
<1> QED BY <1>4, <1>9, <1>10, <1>11 DEF Writes
\* One that nobody awaits is the first, and leaves; nothing was handled behind it.
LEMMA HandledAway ==
  ASSUME FormInv, NEW k \in DOMAIN fQueue, NEW state \in {"done", "failed"}, Handles(k, state), ~fQueue[k].live
  PROVE  /\ fQueue' = Tail(fQueue) /\ fQueue # <<>> /\ k = 1
         /\ \A j \in DOMAIN fQueue : Waits(j)
<1>1. /\ Len(fQueue) \in Nat /\ DOMAIN fQueue = 1..Len(fQueue) /\ k \in Nat
    BY Asked
<1>2. Waits(k) /\ (\A j \in 1..(k - 1) : ~Waits(j)) /\ fQueue' = Forms!RemoveAt(fQueue, k)
    BY Zenon DEF Handles
<1>3. k = 1
    <2> SUFFICES ASSUME k # 1 PROVE FALSE
        OBVIOUS
    <2>1. 1 \in 1..(k - 1) /\ 1 \in DOMAIN fQueue
        BY <1>1
    <2>2. ~Waits(1) /\ ~fQueue[1].live
        BY <1>2, <2>1 DEF FormInv, QueueInv
    <2> QED BY <2>1, <2>2 DEF FormInv, QueueInv
<1>4. \A j \in DOMAIN fQueue : Waits(j)
    <2> SUFFICES ASSUME NEW j \in DOMAIN fQueue, ~Waits(j) PROVE FALSE
        OBVIOUS
    <2>1. j # 1
        BY <1>2, <1>3
    <2>2. 1 \in 1..(j - 1)
        BY <1>1, <2>1
    <2> QED BY <1>2, <1>3, <2>2 DEF FormInv, QueueInv
<1> QED BY <1>2, <1>3, <1>4, FirstRemoved

\* Handling a request keeps the invariant.
LEMMA HandleKeeps == ASSUME FormInv, Forms!Handle PROVE FormInv'
<1> PICK k \in DOMAIN fQueue, state \in {"done", "failed"} : Handles(k, state)
    BY HandleIs
<1>1. /\ fQueue \in Seq(FormRequest) /\ Len(fQueue) \in Nat /\ DOMAIN fQueue = 1..Len(fQueue)
      /\ \A j \in DOMAIN fQueue : fQueue[j] \in FormRequest
    BY Asked
<1>2. /\ UNCHANGED <<fKind, fShown, fTouched, fHydrated, fKnown, fLoading, fBusy, fMounts, fOthers, fActs>>
      /\ Writes(fQueue[k], state)
    BY Zenon DEF Handles
<1>3. fStore' \in Forms!Values /\ fRaced' \in BOOLEAN
    <2>1. fStore \in Forms!Values /\ fRaced \in BOOLEAN
        BY DEF FormInv, FormTypes
    <2> QED BY <1>1, <1>2, <2>1, MergedIs DEF Writes
<1>4. CASE fQueue[k].live
    <2> PICK values \in Forms!Values : fQueue' = [fQueue EXCEPT ![k] = Forms!Answered(fQueue[k], state, values)]
        BY <1>4, Zenon DEF Handles
    <2> PICK a \in FormRequest : a = Forms!Answered(fQueue[k], state, values)
        BY <1>1, AnsweredIs
    <2>1. a.op = fQueue[k].op
        BY <1>1, AnsweredIs
    <2>2. /\ fQueue' \in Seq(FormRequest) /\ DOMAIN fQueue' = DOMAIN fQueue
          /\ \A j \in DOMAIN fQueue : fQueue'[j] = IF j = k THEN a ELSE fQueue[j]
        BY <1>1, ExceptSeq
    <2>3. fMounts # 0
        BY <1>1, EmptySeq DEF FormInv, FormTypes
    <2>4. FormTypes'
        BY <1>2, <1>3, <2>2, <2>3 DEF FormInv, FormTypes
    <2>5. \A j \in DOMAIN fQueue : fQueue'[j].op = fQueue[j].op
        BY <2>1, <2>2
    <2>6. EditorInv'
        BY <1>2, <2>2, <2>5 DEF FormInv, EditorInv
    <2> QED BY <1>4, <2>4, <2>6, HandledInPlace
<1>5. CASE ~fQueue[k].live
    <2>1. fQueue' = Tail(fQueue) /\ fQueue # <<>> /\ k = 1 /\ \A j \in DOMAIN fQueue : Waits(j)
        BY <1>5, HandledAway
    <2>2. FirstLeaves
        BY <2>1 DEF FirstLeaves
    <2>3. /\ fQueue' \in Seq(FormRequest) /\ DOMAIN fQueue' \subseteq 1..Len(fQueue) /\ 1 \in DOMAIN fQueue
          /\ \A j \in DOMAIN fQueue : j - 1 \in 1..(j - 1) => j - 1 \in DOMAIN fQueue'
          /\ \A j \in DOMAIN fQueue' : j + 1 \in DOMAIN fQueue /\ fQueue'[j] = fQueue[j + 1] /\ j \in Nat
        <3>1. fQueue' \in Seq(FormRequest) /\ Len(fQueue') = Len(fQueue) - 1 /\ \A j \in 1..Len(fQueue') : fQueue'[j] = fQueue[j + 1]
            BY <1>1, <2>1, HeadTailProperties
        <3>2. DOMAIN fQueue' = 1..(Len(fQueue) - 1)
            BY <3>1, LenProperties
        <3> QED BY <1>1, <2>1, <3>1, <3>2
    <2>4. FormTypes'
        <3>1. fMounts # 0
            BY <1>1, EmptySeq DEF FormInv, FormTypes
        <3> QED BY <1>2, <1>3, <2>3, <3>1 DEF FormInv, FormTypes
    <2>5. \A j \in DOMAIN fQueue' : Waits(j)' /\ Pends(j)' = Pends(j + 1)
        BY <2>1, <2>3 DEF Waits, Pends
    <2>6. \A j \in DOMAIN fQueue : (fRaced => fRaced') /\ (fQueue[j].state # "done")
        <3>1. \A j \in DOMAIN fQueue : fQueue[j].state # "done"
            BY <2>1 DEF Waits
        <3>2. fRaced => fRaced'
            BY <1>2, Zenon DEF Writes
        <3> QED BY <3>1, <3>2
    <2>7. QueueInv'
        <3> SUFFICES ASSUME NEW j \in DOMAIN fQueue'
                     PROVE  /\ Waits(j)'
                            /\ fQueue'[j].live \/ \A i \in 1..(j - 1) : ~fQueue'[i].live
                            /\ fQueue'[j].op = "import" => fKind' = "twilio" /\ (fQueue'[j].state = "done" => fRaced')
                            /\ fQueue'[j].frees => fKind' = "crm"
            BY DEF QueueInv
        <3>1. /\ fQueue[j + 1].live \/ \A i \in 1..((j + 1) - 1) : ~fQueue[i].live
              /\ fQueue[j + 1].op = "import" => fKind = "twilio" /\ (fQueue[j + 1].state = "done" => fRaced)
              /\ fQueue[j + 1].frees => fKind = "crm"
            BY <2>3 DEF FormInv, QueueInv
        <3>2. ASSUME NEW i \in 1..(j - 1)
              PROVE  i + 1 \in 1..((j + 1) - 1) /\ i \in DOMAIN fQueue'
            <4>1. i + 1 \in 1..((j + 1) - 1) /\ i \in Nat
                BY <1>1, <2>3
            <4>2. i + 1 \in DOMAIN fQueue /\ (i + 1) - 1 = i /\ (i + 1) - 1 \in 1..((i + 1) - 1)
                <5> PICK n \in Nat : n = Len(fQueue)
                    BY <1>1
                <5>1. j + 1 \in 1..n /\ j \in Nat
                    BY <1>1, <2>3
                <5>2. i + 1 \in 1..n /\ (i + 1) - 1 = i /\ (i + 1) - 1 \in 1..((i + 1) - 1)
                    BY <5>1
                <5> QED BY <1>1, <5>2
            <4> QED BY <2>3, <4>1, <4>2
        <3> QED BY <1>2, <2>3, <2>5, <2>6, <3>1, <3>2
    <2>8. EditorInv'
        <3> SUFFICES ASSUME fKind = "campaign", NEW j \in DOMAIN fQueue', fQueue'[j].op = "save"
                     PROVE  fHydrated /\ fBusy /\ \A i \in DOMAIN fQueue' : fQueue'[i].op = "save" => i = j
            BY <1>2 DEF EditorInv
        <3>1. fHydrated /\ fBusy /\ \A i \in DOMAIN fQueue : fQueue[i].op = "save" => i = j + 1
            BY <2>3 DEF FormInv, EditorInv
        <3>2. \A i \in DOMAIN fQueue' : fQueue'[i].op = "save" => i + 1 = j + 1 /\ i \in Nat /\ j \in Nat
            BY <2>3, <3>1
        <3> QED BY <3>1, <3>2
    <2>9. ASSUME ~fRaced' PROVE UNCHANGED <<fStore, fRaced>>
        BY <1>2, <1>5, <2>9 DEF Writes
    <2>10. ShownInv'
        BY <1>2, <2>9 DEF FormInv, ShownInv
    <2>11. PendsInv'
        <3> SUFFICES ASSUME ~fRaced', NEW j \in DOMAIN fQueue', Pends(j)'
                     PROVE  /\ fHydrated /\ fQueue'[j].mine \subseteq fTouched
                            /\ \A f \in fQueue'[j].fields \ fQueue'[j].mine : fQueue'[j].sent[f] = fStore'[f]
                            /\ \A i \in DOMAIN fQueue' : i < j /\ Pends(i)' => fQueue'[i].mine \subseteq fQueue'[j].mine
            BY <1>2 DEF PendsInv
        <3>1. /\ fHydrated /\ fQueue[j + 1].mine \subseteq fTouched
              /\ \A f \in fQueue[j + 1].fields \ fQueue[j + 1].mine : fQueue[j + 1].sent[f] = fStore[f]
              /\ \A i \in DOMAIN fQueue : i < j + 1 /\ Pends(i) => fQueue[i].mine \subseteq fQueue[j + 1].mine
            BY <2>3, <2>5, <2>9 DEF FormInv, PendsInv
        <3>2. \A i \in DOMAIN fQueue' : i < j => i + 1 < j + 1 /\ i + 1 \in DOMAIN fQueue
            BY <2>3
        <3> QED BY <2>3, <2>5, <2>9, <3>1, <3>2
    <2>12. DoneInv'
        BY <2>5 DEF DoneInv, Waits
    <2> QED BY <2>4, <2>7, <2>8, <2>10, <2>11, <2>12 DEF FormInv
<1> QED BY <1>4, <1>5

\* A queue with one request more.
LEMMA OneMore ==
  ASSUME NEW s \in Seq(FormRequest), NEW r \in FormRequest
  PROVE  /\ Append(s, r) \in Seq(FormRequest) /\ DOMAIN Append(s, r) = 1..(Len(s) + 1)
         /\ Append(s, r)[Len(s) + 1] = r /\ \A k \in 1..Len(s) : Append(s, r)[k] = s[k]
<1> PICK t \in Seq(FormRequest) : t = Append(s, r)
    BY AppendProperties
<1>1. Len(t) = Len(s) + 1
    BY AppendProperties
<1>2. DOMAIN t = 1..Len(t)
    BY LenProperties
<1>3. t[Len(s) + 1] = r /\ \A k \in 1..Len(s) : t[k] = s[k]
    BY AppendProperties
<1> QED BY <1>1, <1>2, <1>3

\* What waits is left behind, and the form begins anew.
LEMMA MountKeeps == ASSUME FormInv, Forms!Mount PROVE FormInv'
<1>1. /\ fQueue \in Seq(FormRequest) /\ Len(fQueue) \in Nat /\ DOMAIN fQueue = 1..Len(fQueue)
      /\ \A j \in DOMAIN fQueue : fQueue[j] \in FormRequest
    BY Asked
<1> PICK n \in 0..Len(fQueue) :
      /\ \A k \in DOMAIN fQueue : fQueue[k].state = "sent" <=> k > n
      /\ fQueue' = Append(Forms!Left(n), Forms!Reading(FALSE))
    BY Zenon DEF Forms!Mount
<1>2. /\ fMounts < (IF fKind = "campaign" THEN 1 ELSE 2) /\ fMounts' = fMounts + 1
      /\ fShown' = Forms!Default /\ fTouched' = {} /\ fHydrated' = FALSE /\ fKnown' = Forms!None /\ fLoading' = TRUE
      /\ fBusy' = FALSE /\ fActs' = 0 /\ UNCHANGED <<fKind, fStore, fOthers, fRaced>>
    BY Zenon DEF Forms!Mount
<1> PICK m \in Nat : m = Len(fQueue) - n
    <2>1. Len(fQueue) - n \in Nat
        <3> PICK l \in Nat : l = Len(fQueue)
            BY <1>1
        <3> QED OBVIOUS
    <2> QED BY <2>1
<1> PICK r \in FormRequest : r = Forms!Reading(FALSE)
    BY ReadingIs
<1>3. r.op = "read" /\ r.state = "sent" /\ r.live /\ ~r.frees
    BY ReadingIs
<1>4. ASSUME NEW q \in FormRequest
      PROVE  /\ [q EXCEPT !.live = FALSE] \in FormRequest /\ [q EXCEPT !.live = FALSE].op = q.op
             /\ [q EXCEPT !.live = FALSE].state = q.state /\ ~[q EXCEPT !.live = FALSE].live
             /\ [q EXCEPT !.live = FALSE].frees = q.frees
    BY DEF FormRequest
<1> DEFINE left == [k \in 1..m |-> [fQueue[k + n] EXCEPT !.live = FALSE]]
<1>5. \A k \in 1..m : k + n \in DOMAIN fQueue /\ fQueue[k + n].state = "sent" /\ fQueue[k + n] \in FormRequest
    <2> SUFFICES ASSUME NEW k \in 1..m PROVE k + n \in DOMAIN fQueue /\ fQueue[k + n].state = "sent" /\ fQueue[k + n] \in FormRequest
        OBVIOUS
    <2> PICK l \in Nat : l = Len(fQueue)
        BY <1>1
    <2>1. k + n \in 1..l /\ k + n > n
        OBVIOUS
    <2> QED BY <1>1, <2>1
<1>6. \A k \in 1..m : /\ left[k] \in FormRequest /\ ~left[k].live /\ left[k].state = "sent"
                      /\ left[k].op = fQueue[k + n].op /\ left[k].frees = fQueue[k + n].frees
    BY <1>4, <1>5
<1>7. left \in Seq(FormRequest) /\ Len(left) = m
    <2>1. left \in [1..m -> FormRequest]
        BY <1>6
    <2> HIDE DEF left
    <2> QED BY <2>1
<1>8. fQueue' = Append(left, r)
    BY DEF Forms!Left
<1> HIDE DEF left
<1>9. /\ fQueue' \in Seq(FormRequest) /\ DOMAIN fQueue' = 1..(m + 1) /\ fQueue'[m + 1] = r
      /\ \A k \in 1..m : fQueue'[k] = left[k]
    <2> PICK s \in Seq(FormRequest) : s = left
        BY <1>7
    <2>1. Len(s) = m /\ fQueue' = Append(s, r)
        BY <1>7, <1>8
    <2>2. /\ Append(s, r) \in Seq(FormRequest) /\ DOMAIN Append(s, r) = 1..(Len(s) + 1)
          /\ Append(s, r)[Len(s) + 1] = r /\ \A k \in 1..Len(s) : Append(s, r)[k] = s[k]
        BY OneMore, Zenon
    <2> QED BY <2>1, <2>2, Zenon
<1>10. \A k \in DOMAIN fQueue' : k = m + 1 \/ k \in 1..m
    BY <1>9
<1>11. \A k \in DOMAIN fQueue' : Waits(k)' /\ ~Pends(k)' /\ fQueue'[k].state # "done"
    <2>1. \A k \in DOMAIN fQueue' : fQueue'[k].state = "sent"
        BY <1>3, <1>6, <1>9, <1>10
    <2>2. \A k \in DOMAIN fQueue' : fQueue'[k].live => fQueue'[k].op # "save"
        BY <1>3, <1>6, <1>9, <1>10
    <2> QED BY <2>1, <2>2 DEF Waits, Pends
<1>12. FormTypes'
    <2>1. Forms!Default \in Forms!Values
        BY DEF Forms!Default, Forms!Values
    <2>2. fMounts' \in Nat \ {0} /\ 0 \in 0..MaxActs
        BY <1>2, FormBounds DEF FormInv, FormTypes
    <2> QED BY <1>2, <1>9, <2>1, <2>2 DEF FormInv, FormTypes
<1>13. QueueInv'
    <2> SUFFICES ASSUME NEW k \in DOMAIN fQueue'
                 PROVE  /\ fQueue'[k].live \/ \A j \in 1..(k - 1) : ~fQueue'[j].live
                        /\ fQueue'[k].op = "import" => fKind = "twilio"
                        /\ fQueue'[k].frees => fKind = "crm"
        BY <1>2, <1>11 DEF QueueInv
    <2>1. CASE k = m + 1
        BY <1>3, <1>9, <2>1
    <2>2. CASE k \in 1..m
        <3>1. \A j \in 1..(k - 1) : j \in 1..m
            BY <2>2
        <3>2. /\ fQueue[k + n].op = "import" => fKind = "twilio"
              /\ fQueue[k + n].frees => fKind = "crm"
            BY <1>5, <2>2 DEF FormInv, QueueInv
        <3> QED BY <1>6, <1>9, <2>2, <3>1, <3>2
    <2> QED BY <1>10, <2>1, <2>2
<1>14. EditorInv'
    <2> SUFFICES ASSUME fKind = "campaign", NEW k \in DOMAIN fQueue' PROVE fQueue'[k].op # "save"
        BY <1>2 DEF EditorInv
    <2>1. fMounts = 0
        BY <1>2 DEF FormInv, FormTypes
    <2>2. Len(fQueue) = 0
        BY <2>1, EmptySeq DEF FormInv, FormTypes
    <2>3. m = 0
        BY <1>1, <2>2
    <2>4. k = m + 1
        <3>1. k \notin 1..m
            BY <2>3
        <3> QED BY <1>10, <3>1
    <2> QED BY <1>3, <1>9, <2>4
<1>15. ShownInv' /\ PendsInv' /\ DoneInv'
    BY <1>2, <1>11 DEF ShownInv, PendsInv, DoneInv
<1> QED BY <1>12, <1>13, <1>14, <1>15 DEF FormInv
\* The fields of a form, and one of them turned over.
LEMMA ValuesAre ==
  ASSUME NEW v \in Forms!Values, NEW f \in Forms!Fields
  PROVE  /\ [v EXCEPT ![f] = 1 - @] \in Forms!Values
         /\ \A g \in Forms!Fields \ {f} : [v EXCEPT ![f] = 1 - @][g] = v[g]
BY DEF Forms!Values

\* What the operator does keeps the invariant.
LEMMA EditKeeps == ASSUME FormInv, NEW f \in Forms!Fields, Forms!Edit(f) PROVE FormInv'
<1>1. /\ fActs < MaxActs /\ fActs' = fActs + 1 /\ fShown' = [fShown EXCEPT ![f] = 1 - @] /\ fTouched' = fTouched \cup {f}
      /\ UNCHANGED <<fKind, fStore, fHydrated, fKnown, fLoading, fBusy, fQueue, fMounts, fOthers, fRaced>>
    BY Zenon DEF Forms!Edit
<1>2. FormTypes'
    <2>1. fShown' \in Forms!Values
        BY <1>1, ValuesAre DEF FormInv, FormTypes
    <2> QED BY <1>1, <2>1, FormBounds DEF FormInv, FormTypes
<1>3. ShownInv'
    <2>1. \A g \in Forms!Fields \ fTouched' : fShown'[g] = fShown[g]
        BY <1>1, ValuesAre DEF FormInv, FormTypes
    <2> QED BY <1>1, <2>1 DEF FormInv, ShownInv
<1>4. Rests
    BY <1>1 DEF Rests
<1> QED BY <1>2, <1>3, <1>4, RestsKeeps

\* A save sends what was touched, and notes it.
LEMMA FormSaveKeeps == ASSUME FormInv, Forms!Save PROVE FormInv'
<1> DEFINE r == Forms!Request("save", fShown, Forms!Sent, fTouched)
<1>1. /\ fActs < MaxActs /\ fActs' = fActs + 1 /\ ~fBusy /\ fMounts > 0
      /\ (fKind = "campaign" => fHydrated)
      /\ fQueue' = Append(fQueue, r) /\ fBusy' = (fKind # "budget")
      /\ UNCHANGED <<fKind, fStore, fShown, fTouched, fHydrated, fKnown, fLoading, fMounts, fOthers, fRaced>>
    BY Zenon DEF Forms!Save, Forms!Unlocked, Forms!Opened
<1>2. /\ fShown \in Forms!Values /\ fTouched \subseteq Forms!Fields /\ fHydrated \in BOOLEAN /\ fMounts # 0
      /\ fActs' \in 0..MaxActs /\ fBusy' \in BOOLEAN
    BY <1>1, FormBounds DEF FormInv, FormTypes
<1>3. r \in FormRequest
    <2>1. Forms!Sent \subseteq Forms!Fields
        BY DEF Forms!Sent, Forms!Fields
    <2>2. Forms!Default \in Forms!Values
        BY DEF Forms!Default, Forms!Values
    <2> QED BY <1>2, <2>1, <2>2 DEF Forms!Request, FormRequest
<1>4. /\ r.op = "save" /\ r.state = "sent" /\ r.live /\ ~r.frees /\ r.mine = fTouched /\ r.sure = fHydrated
      /\ r.sent = fShown
    BY DEF Forms!Request
<1> HIDE DEF r
<1>5. Adds(r)
    BY <1>1, <1>2, <1>4 DEF Adds
<1> QED BY <1>1, <1>2, <1>3, <1>5, AddsKeeps

\* So does the click of a switch.
LEMMA ClickKeeps == ASSUME FormInv, NEW f \in Forms!Fields, Forms!Click(f) PROVE FormInv'
<1> DEFINE next == [fShown EXCEPT ![f] = 1 - @]
           fields == IF fKind \in Forms!Partial THEN {f} ELSE Forms!Fields
           r == Forms!Request("save", next, fields, fTouched \cup {f})
<1>1. /\ fActs < MaxActs /\ fActs' = fActs + 1 /\ fMounts > 0 /\ fKind \in Forms!Instant
      /\ fQueue' = Append(fQueue, r) /\ fBusy' = TRUE /\ fTouched' = fTouched \cup {f}
      /\ fShown' = IF fKind = "scopes" /\ fHydrated THEN next ELSE fShown
      /\ UNCHANGED <<fKind, fStore, fHydrated, fKnown, fLoading, fMounts, fOthers, fRaced>>
    BY Zenon DEF Forms!Click, Forms!Unlocked
<1>2. /\ fShown \in Forms!Values /\ fTouched' \subseteq Forms!Fields /\ fHydrated \in BOOLEAN /\ fMounts # 0
      /\ fActs' \in 0..MaxActs /\ fBusy' \in BOOLEAN /\ fKind # "campaign"
    BY <1>1, FormBounds DEF FormInv, FormTypes, Forms!Instant
<1>3. next \in Forms!Values /\ \A g \in Forms!Fields \ {f} : next[g] = fShown[g]
    BY <1>2, ValuesAre
<1>4. fields \subseteq Forms!Fields
    OBVIOUS
<1> HIDE DEF next, fields
<1>5. r \in FormRequest
    <2>1. Forms!Default \in Forms!Values
        BY DEF Forms!Default, Forms!Values
    <2> QED BY <1>1, <1>2, <1>3, <1>4, <2>1 DEF Forms!Request, FormRequest
<1>6. /\ r.op = "save" /\ r.state = "sent" /\ r.live /\ ~r.frees /\ r.mine = fTouched \cup {f} /\ r.sure = fHydrated
      /\ r.sent = next /\ r.fields = fields
    BY DEF Forms!Request
<1> HIDE DEF r
<1>7. fShown' \in Forms!Values /\ \A g \in Forms!Fields \ fTouched' : fShown'[g] = fShown[g]
    BY <1>1, <1>2, <1>3
<1>8. \A g \in r.fields \ r.mine : r.sent[g] = fShown[g]
    BY <1>3, <1>4, <1>6
<1>9. Adds(r)
    BY <1>1, <1>2, <1>6, <1>7, <1>8 DEF Adds
<1> QED BY <1>1, <1>2, <1>5, <1>7, <1>9, AddsKeeps

\* A reading or an import sends nothing.
LEMMA RefreshKeeps == ASSUME FormInv, Forms!Refresh PROVE FormInv'
<1>1. /\ fActs < MaxActs /\ fActs' = fActs + 1 /\ fMounts > 0 /\ fQueue' = Append(fQueue, Forms!Reading(FALSE))
      /\ UNCHANGED <<fKind, fStore, fShown, fTouched, fHydrated, fKnown, fLoading, fBusy, fMounts, fOthers, fRaced>>
    BY Zenon DEF Forms!Refresh, Forms!Form
<1> PICK r \in FormRequest : r = Forms!Reading(FALSE)
    BY ReadingIs
<1>2. r.op = "read" /\ r.state = "sent" /\ r.live /\ ~r.frees
    BY ReadingIs
<1>3. /\ fShown' \in Forms!Values /\ fTouched' \subseteq Forms!Fields /\ fMounts # 0
      /\ fActs' \in 0..MaxActs /\ fBusy' \in BOOLEAN
    BY <1>1, FormBounds DEF FormInv, FormTypes
<1>4. Adds(r)
    BY <1>1, <1>2, <1>3 DEF Adds
<1> QED BY <1>3, <1>4, AddsKeeps

\* An import is locked, and Twilio's.
LEMMA ImportKeeps == ASSUME FormInv, Forms!Import PROVE FormInv'
<1> DEFINE r == Forms!Request("import", Forms!Default, {}, {})
<1>1. /\ fActs < MaxActs /\ fActs' = fActs + 1 /\ fMounts > 0 /\ fKind = "twilio" /\ fQueue' = Append(fQueue, r) /\ fBusy' = TRUE
      /\ UNCHANGED <<fKind, fStore, fShown, fTouched, fHydrated, fKnown, fLoading, fMounts, fOthers, fRaced>>
    BY Zenon DEF Forms!Import
<1>2. /\ fShown' \in Forms!Values /\ fTouched' \subseteq Forms!Fields /\ fMounts # 0 /\ fHydrated \in BOOLEAN
      /\ fActs' \in 0..MaxActs /\ fBusy' \in BOOLEAN
    BY <1>1, FormBounds DEF FormInv, FormTypes
<1>3. r \in FormRequest
    <2>1. Forms!Default \in Forms!Values
        BY DEF Forms!Default, Forms!Values
    <2> QED BY <1>2, <2>1 DEF Forms!Request, FormRequest
<1>4. r.op = "import" /\ r.state = "sent" /\ r.live /\ ~r.frees
    BY DEF Forms!Request
<1> HIDE DEF r
<1>5. Adds(r)
    BY <1>1, <1>2, <1>4 DEF Adds
<1> QED BY <1>2, <1>3, <1>5, AddsKeeps

\* Opening the editor of a campaign, and closing it.
LEMMA EditorKeeps == ASSUME FormInv, Forms!OpenEditor \/ Forms!CloseEditor PROVE FormInv'
<1>1. CASE Forms!OpenEditor
    <2>1. /\ fKind = "campaign" /\ ~fHydrated /\ fKnown # Forms!None /\ fShown' = fKnown /\ fHydrated' = TRUE
          /\ fRaced' = (fKnown # fStore)
          /\ UNCHANGED <<fKind, fStore, fTouched, fKnown, fLoading, fBusy, fQueue, fMounts, fOthers, fActs>>
        BY <1>1, Zenon DEF Forms!OpenEditor
    <2>2. FormTypes'
        BY <2>1 DEF FormInv, FormTypes
    <2>3. ShownInv'
        BY <2>1 DEF ShownInv
    <2>4. NoSave
        BY <2>1 DEF FormInv, EditorInv, NoSave
    <2>5. Rests
        BY <2>1, <2>4 DEF Rests
    <2> QED BY <2>2, <2>3, <2>5, RestsKeeps
<1>2. CASE Forms!CloseEditor
    <2>1. /\ fKind = "campaign" /\ ~fBusy /\ fShown' = Forms!Default /\ fTouched' = {} /\ fHydrated' = FALSE
          /\ UNCHANGED <<fKind, fStore, fKnown, fLoading, fBusy, fQueue, fMounts, fOthers, fActs, fRaced>>
        BY <1>2, Zenon DEF Forms!CloseEditor
    <2>2. FormTypes'
        <3>1. Forms!Default \in Forms!Values
            BY DEF Forms!Default, Forms!Values
        <3> QED BY <2>1, <3>1 DEF FormInv, FormTypes
    <2>3. ShownInv'
        BY <2>1 DEF ShownInv
    <2>4. NoSave
        BY <2>1 DEF FormInv, EditorInv, NoSave
    <2>5. Rests
        BY <2>1, <2>4 DEF Rests
    <2> QED BY <2>2, <2>3, <2>5, RestsKeeps
<1> QED BY <1>1, <1>2

\* What others write is somebody else's write.
LEMMA OtherKeeps == ASSUME FormInv, Forms!Other PROVE FormInv'
<1>1. /\ fOthers' = fOthers + 1 /\ fStore' \in Forms!Values /\ fRaced' = TRUE
      /\ UNCHANGED <<fKind, fShown, fTouched, fHydrated, fKnown, fLoading, fBusy, fQueue, fMounts, fActs>>
    BY Zenon DEF Forms!Other, Forms!Form
<1>2. FormTypes'
    BY <1>1 DEF FormInv, FormTypes
<1>3. ShownInv' /\ Rests
    BY <1>1 DEF ShownInv, Rests
<1> QED BY <1>2, <1>3, RestsKeeps
\* What no answer changes,
FormRests == UNCHANGED <<fKind, fStore, fMounts, fOthers, fActs>>
\* and the type of all else.
StillTyped ==
  /\ fShown' \in Forms!Values /\ fTouched' \subseteq Forms!Fields /\ fKnown' \in Forms!Values \cup {Forms!None}
  /\ fHydrated' \in BOOLEAN /\ fLoading' \in BOOLEAN /\ fBusy' \in BOOLEAN /\ fRaced' \in BOOLEAN

\* One request alone has no save behind it.
LEMMA OneIsAlone ==
  ASSUME FormInv, fQueue # <<>> PROVE 1 \in DOMAIN fQueue /\ (Len(fQueue) = 1 \/ Len(fQueue) > 1) /\ (Len(fQueue) = 1 => Alone)
<1>1. fQueue \in Seq(FormRequest) /\ Len(fQueue) \in Nat /\ DOMAIN fQueue = 1..Len(fQueue)
    BY Asked
<1>2. Len(fQueue) # 0
    BY <1>1, EmptySeq
<1> QED BY <1>1, <1>2 DEF Alone

\* An answer that leaves the fields as they are keeps the invariant,
LEMMA KeptKeeps ==
  ASSUME FormInv, FirstLeaves, FormRests, StillTyped, UNCHANGED <<fShown, fTouched, fHydrated, fRaced>>,
         fKind = "campaign" => Alone \/ UNCHANGED fBusy
  PROVE  FormInv'
<1>1. ShownInv'
    BY DEF FormInv, ShownInv, FormRests
<1>2. Answering
    BY DEF Answering, FormRests
<1> QED BY <1>1, <1>2, AnsweringKeeps DEF StillTyped

\* so does one that replaces them,
LEMMA FilledKeeps ==
  ASSUME FormInv, FirstLeaves, FormRests, StillTyped, NEW values \in Forms!Values, Forms!Filled(values),
         fKind = "campaign" => Alone
  PROVE  FormInv'
<1>1. fShown' = values /\ fTouched' = {} /\ fHydrated' = TRUE /\ fRaced' = (values # fStore \/ Len(fQueue) > 1)
    BY Zenon DEF Forms!Filled
<1>2. ShownInv'
    BY <1>1 DEF ShownInv, FormRests
<1>3. (Len(fQueue) = 1 \/ Len(fQueue) > 1) /\ (Len(fQueue) = 1 => Alone)
    BY OneIsAlone DEF FirstLeaves
<1>4. Answering
    BY <1>1, <1>3 DEF Answering, FormRests
<1> QED BY <1>2, <1>4, AnsweringKeeps DEF StillTyped

\* and one that settles what was sent.
LEMMA SettledKeeps ==
  ASSUME FormInv, FirstLeaves, FormRests, StillTyped, fQueue[1].op = "save", fQueue[1].state = "done",
         fTouched' = Forms!Settled(fQueue[1]), UNCHANGED fHydrated, fRaced => fRaced', ~fRaced' => fShown' = fShown,
         fKind # "campaign"
  PROVE  FormInv'
<1>1. 1 \in DOMAIN fQueue /\ (Len(fQueue) = 1 \/ Len(fQueue) > 1) /\ (Len(fQueue) = 1 => Alone) /\ DOMAIN fQueue = 1..Len(fQueue)
    BY OneIsAlone, Asked DEF FirstLeaves
<1>2. fTouched' = {f \in fTouched : f \notin fQueue[1].fields \/ fShown[f] # fQueue[1].sent[f] \/ Len(fQueue) > 1}
    BY Zenon DEF Forms!Settled
<1>3. ASSUME ~fRaced, Len(fQueue) = 1 PROVE \A f \in fQueue[1].fields : fStore[f] = fQueue[1].sent[f]
    <2>1. IsLast(1)
        BY <1>1, <1>3 DEF IsLast
    <2> QED BY <1>1, <1>3, <2>1 DEF FormInv, DoneInv
<1>4. ShownInv'
    <2> SUFFICES ASSUME fHydrated, ~fRaced', NEW f \in Forms!Fields \ fTouched' PROVE fShown[f] = fStore[f]
        BY DEF ShownInv, FormRests
    <2>1. CASE f \notin fTouched
        BY <2>1 DEF FormInv, ShownInv
    <2>2. CASE f \in fTouched
        <3>1. f \in fQueue[1].fields /\ fShown[f] = fQueue[1].sent[f] /\ ~(Len(fQueue) > 1)
            BY <1>2, <2>2
        <3> QED BY <1>1, <1>3, <3>1
    <2> QED BY <2>1, <2>2
<1>5. Len(fQueue) > 1 => fTouched' = fTouched
    BY <1>2
<1>6. Answering
    BY <1>1, <1>5 DEF Answering, FormRests
<1> QED BY <1>4, <1>6, AnsweringKeeps DEF StillTyped

\* Every answer is one of these.
LEMMA AnswerKeeps == ASSUME FormInv, Forms!Answer PROVE FormInv'
<1>1. fQueue # <<>> /\ Head(fQueue).state # "sent" /\ FormRests
    BY Zenon DEF Forms!Answer, FormRests
<1>2. /\ fQueue \in Seq(FormRequest) /\ 1 \in DOMAIN fQueue /\ Head(fQueue) = fQueue[1]
      /\ \A j \in DOMAIN fQueue : fQueue[j] \in FormRequest
    BY <1>1, OneIsAlone, Asked
<1> PICK r \in FormRequest : r = fQueue[1]
    BY <1>2
<1>3. /\ r.state \in {"done", "failed"} /\ r.result \in Forms!Values /\ r.sent \in Forms!Values /\ r = Head(fQueue)
      /\ r = fQueue[1]
    BY <1>1, <1>2 DEF FormRequest
<1>4. r.frees => fKind = "crm"
    BY <1>2 DEF FormInv, QueueInv
<1>5. r.op = "save" /\ fKind = "campaign" => Alone
    BY <1>2 DEF FormInv, EditorInv, Alone
<1>6. /\ fShown \in Forms!Values /\ fTouched \subseteq Forms!Fields /\ fKnown \in Forms!Values \cup {Forms!None}
      /\ fHydrated \in BOOLEAN /\ fLoading \in BOOLEAN /\ fBusy \in BOOLEAN /\ fRaced \in BOOLEAN
      /\ Forms!Default \in Forms!Values
    <2>1. Forms!Default \in Forms!Values
        BY DEF Forms!Default, Forms!Values
    <2> QED BY <2>1 DEF FormInv, FormTypes
<1>7. ASSUME Forms!Known(r.result) PROVE fKnown' \in Forms!Values \cup {Forms!None}
    BY <1>3, <1>7 DEF Forms!Known
<1>8. ASSUME NEW values \in Forms!Values, Forms!Filled(values)
      PROVE  fShown' \in Forms!Values /\ fTouched' \subseteq Forms!Fields /\ fHydrated' \in BOOLEAN /\ fRaced' \in BOOLEAN
    BY <1>8 DEF Forms!Filled
<1>9. ASSUME NEW x PROVE [fShown EXCEPT !["choice"] = r.result["choice"]] \in Forms!Values
    BY <1>3, <1>6 DEF Forms!Values, Forms!Fields
<1>10. \/ /\ r.op = "read" /\ fQueue' = Tail(fQueue) /\ fLoading' = FALSE /\ fBusy' = (fBusy /\ ~r.frees)
          /\ IF r.state = "done" THEN Forms!Known(r.result) /\ Forms!Loaded(r.result) ELSE UNCHANGED fKnown /\ Forms!Kept
       \/ /\ r.op = "save" /\ r.state = "done" /\ fQueue' = Tail(fQueue) /\ fBusy' = FALSE /\ Forms!Known(r.result)
          /\ Forms!Saved(r) /\ UNCHANGED fLoading
       \/ /\ r.op = "save" /\ fKind = "crm" /\ fQueue' = Append(Tail(fQueue), Forms!Reading(TRUE))
          /\ fTouched' = IF r.state = "done" THEN Forms!Settled(r) ELSE fTouched
          /\ UNCHANGED <<fShown, fHydrated, fKnown, fLoading, fBusy, fRaced>>
       \/ /\ r.op = "save" /\ r.state = "failed" /\ fBusy' = FALSE
          /\ fQueue' = IF fKind \in Forms!ReadsBack THEN Append(Tail(fQueue), Forms!Reading(FALSE)) ELSE Tail(fQueue)
          /\ UNCHANGED <<fKnown, fLoading>> /\ Forms!Kept
       \/ /\ r.op = "import" /\ fQueue' = Tail(fQueue) /\ fBusy' = FALSE
          /\ fShown' = IF r.state = "done" THEN [fShown EXCEPT !["choice"] = r.result["choice"]] ELSE fShown
          /\ UNCHANGED <<fTouched, fHydrated, fKnown, fLoading, fRaced>>
    BY <1>3, Zenon DEF Forms!Answer
<1>11. CASE /\ r.op = "save" /\ fKind = "crm" /\ fQueue' = Append(Tail(fQueue), Forms!Reading(TRUE))
            /\ fTouched' = IF r.state = "done" THEN Forms!Settled(r) ELSE fTouched
            /\ UNCHANGED <<fShown, fHydrated, fKnown, fLoading, fBusy, fRaced>>
    <2>1. FirstLeaves
        BY <1>1, <1>11 DEF FirstLeaves
    <2>2. fTouched' \subseteq Forms!Fields
        BY <1>6, <1>11 DEF Forms!Settled
    <2>3. StillTyped
        BY <1>6, <1>11, <2>2 DEF StillTyped
    <2>4. CASE r.state = "done"
        BY <1>1, <1>3, <1>11, <2>1, <2>3, <2>4, SettledKeeps
    <2>5. CASE r.state # "done"
        BY <1>1, <1>11, <2>1, <2>3, <2>5, KeptKeeps
    <2> QED BY <2>4, <2>5
<1>12. CASE /\ r.op = "save" /\ r.state = "failed" /\ fBusy' = FALSE /\ fQueue' = Append(Tail(fQueue), Forms!Reading(FALSE))
            /\ UNCHANGED <<fKnown, fLoading>> /\ Forms!Kept
    <2>1. FirstLeaves
        BY <1>1, <1>12 DEF FirstLeaves
    <2>2. UNCHANGED <<fShown, fTouched, fHydrated, fRaced>>
        BY <1>12 DEF Forms!Kept
    <2>3. StillTyped
        BY <1>6, <1>12, <2>2 DEF StillTyped
    <2> QED BY <1>1, <1>5, <1>12, <2>1, <2>2, <2>3, KeptKeeps
<1>13. CASE fQueue' = Tail(fQueue)
    <2>1. FirstLeaves
        BY <1>1, <1>13 DEF FirstLeaves
    <2>2. CASE /\ r.op = "read" /\ fLoading' = FALSE /\ fBusy' = (fBusy /\ ~r.frees)
               /\ IF r.state = "done" THEN Forms!Known(r.result) /\ Forms!Loaded(r.result) ELSE UNCHANGED fKnown /\ Forms!Kept
        <3>1. fKnown' \in Forms!Values \cup {Forms!None} /\ fLoading' \in BOOLEAN /\ fBusy' \in BOOLEAN
            BY <1>6, <1>7, <2>2
        <3>2. CASE Forms!Kept
            <4>1. UNCHANGED <<fShown, fTouched, fHydrated, fRaced>>
                BY <3>2 DEF Forms!Kept
            <4>2. StillTyped
                BY <1>6, <3>1, <4>1 DEF StillTyped
            <4>3. fKind = "campaign" => UNCHANGED fBusy
                BY <1>4, <1>6, <2>2
            <4> QED BY <1>1, <2>1, <4>1, <4>2, <4>3, KeptKeeps
        <3>3. CASE Forms!Filled(r.result) /\ fKind # "campaign"
            <4>1. StillTyped
                BY <1>3, <1>8, <3>1, <3>3 DEF StillTyped
            <4> QED BY <1>1, <1>3, <2>1, <3>3, <4>1, FilledKeeps
        <3> QED BY <2>2, <3>2, <3>3, Zenon DEF Forms!Loaded
    <2>3. CASE /\ r.op = "save" /\ r.state = "done" /\ fBusy' = FALSE /\ Forms!Known(r.result) /\ Forms!Saved(r) /\ UNCHANGED fLoading
        <3>1. fKnown' \in Forms!Values \cup {Forms!None} /\ fLoading' \in BOOLEAN /\ fBusy' \in BOOLEAN
            BY <1>6, <1>7, <2>3
        <3>2. CASE Forms!Filled(r.result)
            <4>1. StillTyped
                BY <1>3, <1>8, <3>1, <3>2 DEF StillTyped
            <4> QED BY <1>1, <1>3, <1>5, <2>1, <2>3, <3>2, <4>1, FilledKeeps
        <3>3. CASE fKind = "campaign" /\ fShown' = Forms!Default /\ fTouched' = {} /\ fHydrated' = FALSE /\ UNCHANGED fRaced
            <4>1. StillTyped
                BY <1>6, <3>1, <3>3 DEF StillTyped
            <4>2. ShownInv'
                BY <3>3 DEF ShownInv
            <4>3. Answering
                BY <1>1, <1>5, <2>1, <2>3, <3>3 DEF Answering, FormRests
            <4> QED BY <4>1, <4>2, <4>3, AnsweringKeeps DEF StillTyped
        <3>4. CASE /\ fKind = "budget" /\ fShown' = [fShown EXCEPT !["choice"] = r.result["choice"]]
                   /\ fTouched' = Forms!Settled(r) /\ fRaced' = (fRaced \/ r.result["choice"] # fShown["choice"])
                   /\ UNCHANGED fHydrated
            <4>1. fTouched' \subseteq Forms!Fields
                BY <1>6, <3>4 DEF Forms!Settled
            <4>2. fRaced' \in BOOLEAN /\ (fRaced => fRaced')
                BY <1>6, <3>4
            <4>3. ~fRaced' => fShown' = fShown
                BY <1>6, <3>4 DEF Forms!Values
            <4>4. StillTyped
                BY <1>6, <1>9, <3>1, <3>4, <4>1, <4>2 DEF StillTyped
            <4> QED BY <1>1, <1>3, <2>1, <2>3, <3>4, <4>2, <4>3, <4>4, SettledKeeps
        <3>5. CASE /\ fKind \in {"appointments", "twilio"} \/ fKind \in Forms!HydratesOnce
                   /\ fTouched' = Forms!Settled(r) /\ UNCHANGED <<fShown, fHydrated, fRaced>>
            <4>1. fTouched' \subseteq Forms!Fields
                BY <1>6, <3>5 DEF Forms!Settled
            <4>2. StillTyped
                BY <1>6, <3>1, <3>5, <4>1 DEF StillTyped
            <4>3. fKind # "campaign"
                BY <3>5 DEF Forms!HydratesOnce
            <4> QED BY <1>1, <1>3, <2>1, <2>3, <3>5, <4>2, <4>3, SettledKeeps
        <3> QED BY <2>3, <3>2, <3>3, <3>4, <3>5, Zenon DEF Forms!Saved
    <2>4. CASE r.op = "save" /\ r.state = "failed" /\ fBusy' = FALSE /\ UNCHANGED <<fKnown, fLoading>> /\ Forms!Kept
        <3>1. UNCHANGED <<fShown, fTouched, fHydrated, fRaced>>
            BY <2>4 DEF Forms!Kept
        <3>2. StillTyped
            BY <1>6, <2>4, <3>1 DEF StillTyped
        <3> QED BY <1>1, <1>5, <2>1, <2>4, <3>1, <3>2, KeptKeeps
    <2>5. CASE /\ r.op = "import" /\ fBusy' = FALSE
               /\ fShown' = IF r.state = "done" THEN [fShown EXCEPT !["choice"] = r.result["choice"]] ELSE fShown
               /\ UNCHANGED <<fTouched, fHydrated, fKnown, fLoading, fRaced>>
        <3>1. fKind = "twilio" /\ (r.state = "done" => fRaced)
            BY <1>2, <2>5 DEF FormInv, QueueInv
        <3>2. StillTyped
            BY <1>6, <1>9, <2>5 DEF StillTyped
        <3>3. ShownInv'
            BY <1>1, <2>5, <3>1 DEF FormInv, ShownInv, FormRests
        <3>4. Answering
            BY <1>1, <2>1, <2>5, <3>1 DEF Answering, FormRests
        <3> QED BY <3>2, <3>3, <3>4, AnsweringKeeps DEF StillTyped
    <2> QED BY <1>10, <1>11, <1>12, <2>2, <2>3, <2>4, <2>5, Zenon
<1> QED BY <1>10, <1>11, <1>12, <1>13, Zenon
\* Every step keeps the invariant.
LEMMA FormStep == ASSUME FormInv, [Forms!Next]_(Forms!formVars) PROVE FormInv'
<1>1. CASE UNCHANGED Forms!formVars
    <2>1. UNCHANGED <<fKind, fStore, fShown, fTouched, fHydrated, fKnown, fLoading, fBusy, fQueue, fMounts, fOthers, fActs, fRaced>>
        BY <1>1, Zenon DEF Forms!formVars
    <2>2. FormTypes'
        BY <2>1 DEF FormInv, FormTypes
    <2>3. ShownInv' /\ Rests
        BY <2>1 DEF FormInv, ShownInv, Rests
    <2> QED BY <2>2, <2>3, RestsKeeps
<1>2. CASE Forms!Next
    <2>1. CASE \E f \in Forms!Fields : Forms!Edit(f) \/ Forms!Click(f)
        BY <2>1, EditKeeps, ClickKeeps
    <2>2. CASE \/ Forms!Save \/ Forms!Refresh \/ Forms!Import \/ Forms!OpenEditor \/ Forms!CloseEditor \/ Forms!Mount
               \/ Forms!Handle \/ Forms!Other \/ Forms!Answer
        BY <2>2, FormSaveKeeps, RefreshKeeps, ImportKeeps, EditorKeeps, MountKeeps, HandleKeeps, OtherKeeps, AnswerKeeps
    <2> QED BY <1>2, <2>1, <2>2, Zenon DEF Forms!Next
<1> QED BY <1>1, <1>2, Zenon

\* An answer leaves what the operator has changed, in a form that loads once.
EditsStay ==
  (Len(fQueue') < Len(fQueue) /\ fMounts' = fMounts /\ (fKind = "webhook" \/ (fKind = "crm" /\ fHydrated)))
    => \A f \in fTouched : fShown'[f] = fShown[f]

\* No step replaces it.
LEMMA EditsStep == ASSUME FormInv, [Forms!Next]_(Forms!formVars) PROVE EditsStay
<1> SUFFICES ASSUME Len(fQueue') < Len(fQueue), fMounts' = fMounts, fKind = "webhook" \/ (fKind = "crm" /\ fHydrated)
             PROVE  \A f \in fTouched : fShown'[f] = fShown[f]
    BY DEF EditsStay
<1>1. /\ fQueue \in Seq(FormRequest) /\ Len(fQueue) \in Nat /\ DOMAIN fQueue = 1..Len(fQueue)
      /\ fKind \notin Forms!Instant /\ fKind # "campaign"
    BY Asked DEF Forms!Instant
<1>2. CASE UNCHANGED fQueue
    BY <1>1, <1>2
<1>3. ASSUME NEW r \in FormRequest, fQueue' = Append(fQueue, r) PROVE FALSE
    <2>1. Len(fQueue') = Len(fQueue) + 1
        BY <1>1, <1>3
    <2> QED BY <1>1, <2>1
<1>4. CASE UNCHANGED fShown
    BY <1>4
<1>5. CASE \E f \in Forms!Fields : Forms!Edit(f) \/ Forms!Click(f)
    <2>1. UNCHANGED fQueue
        BY <1>1, <1>5 DEF Forms!Edit, Forms!Click
    <2> QED BY <1>2, <2>1
<1>6. CASE Forms!Save \/ Forms!Refresh \/ Forms!Import \/ Forms!Handle \/ Forms!Other
    <2>1. UNCHANGED fShown
        BY <1>6, Zenon DEF Forms!Save, Forms!Refresh, Forms!Import, Forms!Handle, Forms!Other, Forms!Form
    <2> QED BY <1>4, <2>1
<1>7. CASE Forms!OpenEditor \/ Forms!CloseEditor
    BY <1>1, <1>7, Zenon DEF Forms!OpenEditor, Forms!CloseEditor
<1>8. CASE Forms!Mount
    <2>1. fMounts' = fMounts + 1 /\ fMounts \in Nat
        BY <1>8 DEF Forms!Mount, FormInv, FormTypes
    <2> QED BY <2>1
<1>9. CASE Forms!Answer
    <2>1. fQueue # <<>> /\ Head(fQueue) = fQueue[1] /\ 1 \in DOMAIN fQueue
        BY <1>9, OneIsAlone DEF Forms!Answer
    <2>2. \/ /\ Head(fQueue).op = "read" /\ (Forms!Loaded(Head(fQueue).result) \/ Forms!Kept)
          \/ Head(fQueue).op = "save" /\ (Forms!Saved(Head(fQueue)) \/ UNCHANGED fShown \/ Forms!Kept)
          \/ Head(fQueue).op = "import"
        BY <1>9, Zenon DEF Forms!Answer
    <2>3. Head(fQueue).op # "import"
        BY <1>1, <2>1 DEF FormInv, QueueInv
    <2>4. ASSUME NEW values, Forms!Filled(values), Forms!Hydrates PROVE fTouched = {}
        BY <2>4 DEF Forms!Hydrates
    <2>5. CASE Forms!Kept
        BY <1>4, <2>5 DEF Forms!Kept
    <2>6. CASE Forms!Loaded(Head(fQueue).result)
        <3>1. fKind \in Forms!HydratesOnce
            BY DEF Forms!HydratesOnce
        <3>2. Forms!Kept \/ (Forms!Hydrates /\ Forms!Filled(Head(fQueue).result))
            BY <2>6, <3>1, Zenon DEF Forms!Loaded
        <3> QED BY <2>4, <2>5, <3>2
    <2>7. CASE Forms!Saved(Head(fQueue))
        <3>1. UNCHANGED fShown \/ (Forms!Hydrates /\ Forms!Filled(Head(fQueue).result))
            <4>1. fKind # "budget"
                OBVIOUS
            <4> QED BY <1>1, <2>7, <4>1, Zenon DEF Forms!Saved
        <3> QED BY <1>4, <2>4, <3>1
    <2> QED BY <1>4, <2>2, <2>3, <2>5, <2>6, <2>7
<1>10. UNCHANGED Forms!formVars => UNCHANGED fQueue
    BY Zenon DEF Forms!formVars
<1> QED BY <1>2, <1>5, <1>6, <1>7, <1>8, <1>9, <1>10, Zenon DEF Forms!Next

\* A save that is handled changes what was changed before it was sent.
TouchedStay ==
  \A k \in DOMAIN fQueue :
    (fQueue[k].op = "save" /\ fQueue[k].state = "sent" /\ k \in DOMAIN fQueue' /\ fQueue'[k].state \in {"done", "failed"}
      /\ fQueue'[k].op = "save" /\ Len(fQueue') = Len(fQueue))
    => \A f \in Forms!Fields : fStore'[f] # fStore[f] => (f \in fQueue[k].mine \/ ~fQueue[k].sure \/ fRaced)

\* Every step keeps to that.
LEMMA TouchedStep == ASSUME FormInv, [Forms!Next]_(Forms!formVars) PROVE TouchedStay
<1> SUFFICES ASSUME NEW k \in DOMAIN fQueue, fQueue[k].op = "save", fQueue[k].state = "sent", k \in DOMAIN fQueue',
                    fQueue'[k].state \in {"done", "failed"}, Len(fQueue') = Len(fQueue),
                    NEW f \in Forms!Fields, fStore'[f] # fStore[f]
             PROVE  f \in fQueue[k].mine \/ ~fQueue[k].sure \/ fRaced
    BY DEF TouchedStay
<1>1. /\ fQueue \in Seq(FormRequest) /\ Len(fQueue) \in Nat /\ DOMAIN fQueue = 1..Len(fQueue)
      /\ \A j \in DOMAIN fQueue : fQueue[j] \in FormRequest
    BY Asked
<1>2. CASE UNCHANGED fStore
    BY <1>2
<1>3. CASE UNCHANGED fQueue
    BY <1>3
<1>4. CASE Forms!Handle
    <2> PICK h \in DOMAIN fQueue, state \in {"done", "failed"} : Handles(h, state)
        BY <1>4, HandleIs
    <2>1. Writes(fQueue[h], state) /\ Waits(h)
        BY Zenon DEF Handles
    <2>2. fQueue[h].live
        <3> SUFFICES ASSUME ~fQueue[h].live PROVE FALSE
            OBVIOUS
        <3>1. fQueue' = Tail(fQueue) /\ fQueue # <<>>
            BY HandledAway
        <3>2. Len(fQueue') = Len(fQueue) - 1
            BY <1>1, <3>1, HeadTailProperties
        <3> QED BY <1>1, <3>2
    <2> PICK values \in Forms!Values : fQueue' = [fQueue EXCEPT ![h] = Forms!Answered(fQueue[h], state, values)]
        BY <2>2, Zenon DEF Handles
    <2>3. h = k
        <3> SUFFICES ASSUME h # k PROVE FALSE
            OBVIOUS
        <3>1. fQueue'[k] = fQueue[k]
            BY <1>1
        <3> QED BY <3>1
    <2>4. fStore' = Forms!Merged(fQueue[k])
        BY <1>2, <2>1, <2>3 DEF Writes
    <2>5. f \in fQueue[k].fields /\ fQueue[k].sent[f] # fStore[f]
        BY <1>1, <2>4, MergedIs
    <2>6. CASE ~fRaced /\ fQueue[k].sure
        <3>1. Pends(k)
            BY <2>1, <2>2, <2>3, <2>6 DEF Pends
        <3> QED BY <2>5, <2>6, <3>1 DEF FormInv, PendsInv
    <2> QED BY <1>1, <2>6
<1>5. CASE Forms!Other
    BY <1>3, <1>5, Zenon DEF Forms!Other
<1>6. CASE \E g \in Forms!Fields : Forms!Edit(g) \/ Forms!Click(g)
    BY <1>2, <1>6, Zenon DEF Forms!Edit, Forms!Click
<1>7. CASE \/ Forms!Save \/ Forms!Refresh \/ Forms!Import \/ Forms!OpenEditor \/ Forms!CloseEditor \/ Forms!Mount \/ Forms!Answer
    BY <1>2, <1>7, Zenon DEF Forms!Save, Forms!Refresh, Forms!Import, Forms!OpenEditor, Forms!CloseEditor, Forms!Mount, Forms!Answer
<1>8. UNCHANGED Forms!formVars => UNCHANGED fQueue
    BY Zenon DEF Forms!formVars
<1> QED BY <1>3, <1>4, <1>5, <1>6, <1>7, <1>8, Zenon DEF Forms!Next

\* The forms of the window keep their promises.
LEMMA FormSafe ==
  Forms!Init /\ [][Forms!Next]_(Forms!formVars)
    => /\ [](Forms!TypeOK /\ Forms!ShowsStored) /\ Forms!EditsAreKept /\ Forms!OnlyTouchedIsChanged
<1>1. Forms!Init => FormInv
    <2> SUFFICES ASSUME Forms!Init PROVE FormInv
        OBVIOUS
    <2>1. /\ fKind \in Forms!Forms /\ fStore = [f \in Forms!Fields |-> 1] /\ fShown = Forms!Default /\ fTouched = {}
          /\ fHydrated = FALSE /\ fKnown = Forms!None /\ fLoading = FALSE /\ fBusy = FALSE /\ fQueue = <<>>
          /\ fMounts = 0 /\ fOthers = 0 /\ fActs = 0 /\ fRaced = FALSE
        BY Zenon DEF Forms!Init
    <2>2. Forms!Default \in Forms!Values /\ fStore \in Forms!Values
        BY <2>1 DEF Forms!Default, Forms!Values
    <2>3. FormTypes
        <3>1. fQueue \in Seq(FormRequest) /\ 0 \in 0..MaxActs
            BY <2>1, EmptySeq, FormBounds
        <3> QED BY <2>1, <2>2, <3>1 DEF FormTypes
    <2>4. DOMAIN fQueue = {}
        BY <2>1
    <2>5. QueueInv /\ EditorInv /\ ShownInv /\ PendsInv /\ DoneInv
        BY <2>1, <2>4 DEF QueueInv, EditorInv, ShownInv, PendsInv, DoneInv
    <2> QED BY <2>3, <2>5 DEF FormInv
<1>2. FormInv /\ [Forms!Next]_(Forms!formVars) => FormInv'
    BY FormStep
<1>3. FormInv => Forms!TypeOK /\ Forms!ShowsStored
    <2> SUFFICES ASSUME FormInv PROVE Forms!TypeOK /\ Forms!ShowsStored
        OBVIOUS
    <2>1. Forms!TypeOK
        BY DEF FormInv, FormTypes, Forms!TypeOK
    <2>2. ASSUME fHydrated, fTouched = {}, ~fRaced PROVE fShown = fStore
        <3>1. \A f \in Forms!Fields : fShown[f] = fStore[f]
            BY <2>2 DEF FormInv, ShownInv
        <3>2. fShown \in [Forms!Fields -> 0..1] /\ fStore \in [Forms!Fields -> 0..1]
            BY DEF FormInv, FormTypes, Forms!Values
        <3> QED BY <3>1, <3>2
    <2> QED BY <2>1, <2>2 DEF Forms!ShowsStored
<1>4. FormInv /\ [Forms!Next]_(Forms!formVars) => EditsStay /\ TouchedStay
    BY EditsStep, TouchedStep
<1> QED BY <1>1, <1>2, <1>3, <1>4, PTL DEF Forms!EditsAreKept, Forms!OnlyTouchedIsChanged, EditsStay, TouchedStay

-----------------------------------------------------------------------------
(* The model *)

\* A behaviour of the model is one of every module in it.
LEMMA PartsRun ==
  MCSpec => /\ Init /\ [][Next]_recordVars
            /\ Api!Init /\ [][Api!Next]_(Api!apiVars)
            /\ Config!Init /\ [][Config!Next]_(Config!vars)
            /\ Host!Init /\ [][Host!Next]_(Host!hostVars)
            /\ Server!Init /\ [][Server!Next]_(Server!serverVars)
            /\ Client!Init /\ [][Client!Next]_(Client!cliVars)
            /\ Cloud!Init /\ [][Cloud!Next]_(Cloud!vars)
            /\ Port!Init /\ [][Port!Next]_(Port!portVars)
            /\ View!Init /\ [][View!Next]_(View!historyVars)
            /\ Forms!Init /\ [][Forms!Next]_(Forms!formVars)
<1>1. MCInit => Init /\ Api!Init /\ Config!Init /\ Host!Init /\ Server!Init /\ Client!Init /\ Cloud!Init /\ Port!Init
            /\ View!Init /\ Forms!Init
    BY Zenon DEF MCInit
<1>2. [MCNext]_vars => /\ [Next]_recordVars /\ [Api!Next]_(Api!apiVars)
                       /\ [Config!Next]_(Config!vars) /\ [Host!Next]_(Host!hostVars)
                       /\ [Server!Next]_(Server!serverVars) /\ [Client!Next]_(Client!cliVars)
                       /\ [Cloud!Next]_(Cloud!vars) /\ [Port!Next]_(Port!portVars)
                       /\ [View!Next]_(View!historyVars) /\ [Forms!Next]_(Forms!formVars)
    <2>1. ASSUME MCNext PROVE /\ Next \/ UNCHANGED recordVars
                              /\ Api!Next \/ UNCHANGED aVars
                              /\ Config!Next \/ UNCHANGED cVars
                              /\ Host!Next \/ UNCHANGED hVars
                              /\ Server!Next \/ UNCHANGED sVars
                              /\ Client!Next \/ UNCHANGED iVars
                              /\ Cloud!Next \/ UNCHANGED kVars
                              /\ Port!Next \/ UNCHANGED dVars
                              /\ View!Next \/ UNCHANGED vVars
                              /\ Forms!Next \/ UNCHANGED fVars
        BY <2>1, Zenon DEF MCNext
    <2>2. ASSUME UNCHANGED vars
          PROVE /\ UNCHANGED recordVars /\ UNCHANGED aVars /\ UNCHANGED cVars /\ UNCHANGED hVars
                /\ UNCHANGED sVars /\ UNCHANGED iVars /\ UNCHANGED kVars /\ UNCHANGED dVars
                /\ UNCHANGED vVars /\ UNCHANGED fVars
        BY <2>2, Zenon DEF vars
    <2>3. /\ UNCHANGED aVars => UNCHANGED Api!apiVars
          /\ UNCHANGED cVars => UNCHANGED Config!vars
          /\ UNCHANGED hVars => UNCHANGED Host!hostVars
          /\ UNCHANGED sVars => UNCHANGED Server!serverVars
        BY DEF aVars, Api!apiVars, cVars, Config!vars, hVars, Host!hostVars, sVars, Server!serverVars
    <2>4. /\ UNCHANGED iVars => UNCHANGED Client!cliVars
          /\ UNCHANGED kVars => UNCHANGED Cloud!vars
          /\ UNCHANGED dVars => UNCHANGED Port!portVars
        BY DEF iVars, Client!cliVars, Client!world, Client!client, kVars, Cloud!vars, dVars, Port!portVars
    <2>5. /\ UNCHANGED vVars => UNCHANGED View!historyVars
          /\ UNCHANGED fVars => UNCHANGED Forms!formVars
        BY DEF vVars, View!historyVars, fVars, Forms!formVars
    <2> QED BY <2>1, <2>2, <2>3, <2>4, <2>5
<1> QED BY <1>1, <1>2, PTL DEF MCSpec

\* Whatever is reported of calls, twice, late or across a stop of the
\* application, each keeps its own lines, in their order, ends once and stays
\* over; and however often a key is given, over whichever interface and in
\* whatever life, it is acted on once a life and makes one task, and one
\* decision of an approval counts.
THEOREM RecordsAreKept == MCSpec => RecordsPromise
BY PartsRun, RecordsSafe, ApiSafe, PTL DEF RecordsPromise

\* Whenever the application is told to quit, notices late, is hidden or fails
\* to dispose of a part, all that exists is disposed of, users before what
\* they use, and only an event that came too late brings a part back.
THEOREM QuitIsOrderly == MCSpec => QuitPromise
BY PartsRun, QuitSafe, PTL DEF QuitPromise

\* However often the application stops, also in the middle of a write, what a
\* save has answered is on the disk if its file is renamed into place, a save
\* keeps the fields it does not name, and the telephone mode changes by a
\* start only.
THEOREM SettingsAreKept == MCSpec => SettingsPromise
BY PartsRun, SettingsSafe, PTL DEF SettingsPromise

\* However the control server is switched, restarted or killed, its endpoint
\* file names what listens and what is off is closed; and whatever becomes of
\* the application meanwhile, the command line makes one request a run, exits
\* with the code of its answer, and takes the end of a task it was told of.
THEOREM ControlIsKept == MCSpec => ControlPromise
BY PartsRun, ServerSafe, CliSafe, PTL DEF ControlPromise

\* For any calls, handoffs and commands: the phone of the headless host is the
\* state of its line and a handoff has one outcome; and whatever the timeouts,
\* reloads and late results, a command done to the desktop's phone is not sent
\* again, a hangup ends its own call, and the phone's status does not go back.
THEOREM PortsAreKept == MCSpec => PortsPromise
BY PartsRun, CloudSafe, PortSafe, PTL DEF PortsPromise

\* However many calls begin while the history is read page by page, and
\* whichever form of the window is edited, saved, left and entered again: no
\* call is skipped unless pages were crossed, the detail is of the call that
\* is selected, an answer replaces no edit, a save changes what was edited
\* unless somebody else wrote, and a form at rest shows what is stored.
THEOREM ScreensAreKept == MCSpec => ScreensPromise
BY PartsRun, ViewSafe, FormSafe, PTL DEF ScreensPromise

=============================================================================

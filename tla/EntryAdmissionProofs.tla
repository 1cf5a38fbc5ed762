----------------------- MODULE EntryAdmissionProofs -----------------------
(***************************************************************************)
(* What the private stream vouches for, for every number of failures,      *)
(* changes and runs.  The inductive invariant follows one connection: what *)
(* its second snapshot did not show is pushed to it, in order, so what was *)
(* lost on the way is later than everything persisted, and the gap row     *)
(* that is filed next reaches back to the last change persisted.           *)
(***************************************************************************)
EXTENDS EntryAdmission, TLAPS, SequenceTheorems

Subscribed == {"asked", "live", "dead", "closed"}
Reading == {"baseline", "read", "write", "probe"}

\* Where the reader is, the state it shows and the connection it has.
Places ==
  /\ mem.pc \in Reading => mem.state = "healthy"
  /\ mem.state = "healthy" => mem.pc \in Reading \cup {"down"}
  /\ mem.frame # 0 <=> mem.pc = "write"
  /\ mem.pc \in {"off", "begin", "dial"} => sock = "none"
  /\ mem.state = "healthy" \/ mem.pc \in {"after", "settle"} => sock \in Subscribed
  /\ sock \notin {"live", "dead", "closed"} => wire = {}

\* Frames are pushed, received and persisted in one order.
InOrder ==
  /\ \A w \in wire, f \in inbox \cup {mem.frame} : f < w
  /\ mem.frame # 0 => \A f \in inbox : f < mem.frame

\* The row this process has open reaches back to the last change persisted when
\* it was opened.
Reaches(m) == m \in inbox \cup {0}
RowsReach ==
  /\ Reaches(mem.last)
  /\ mem.gap # 0 => OpenRow(mem.gap) /\ Reaches(gaps[mem.gap].last)

\* From the second snapshot on, a complete resync has seen or will see it all.
SeenWhole == mem.state = "healthy" \/ (mem.pc = "settle" /\ mem.whole)
SeesAll ==
  SeenWhole /\ sock # "closed" => \A e \in 1..world : e <= snapshot \/ e \in OnItsWay

After(e, s) == \A f \in s : f < e
\* What is neither persisted, nor on its way, nor filed is later than everything
\* that is, and the reader is about to file it.
ToBeFiled ==
  \A e \in 1..world :
    \/ e \in OnItsWay \/ Filed(e)
    \/ mem.state # "healthy" /\ After(e, inbox)
    \/ sock = "closed" /\ After(e, inbox \cup wire \cup {mem.frame})

StreamInv == StreamTypes /\ Places /\ InOrder /\ RowsReach /\ SeesAll /\ ToBeFiled

---------------------------------------------------------------------------
(* Types.                                                                  *)

Pc == {"off", "begin", "dial", "before", "subscribe", "after", "settle",
       "baseline", "read", "write", "probe", "down"}
State == {"connecting", "resyncing", "healthy", "disconnected"}
Memory(n, w) ==
  [pc : Pc, state : State, converged : BOOLEAN, gap : 0..n, last : 0..w,
   whole : BOOLEAN, frame : 0..w, base : -1..w, stale : BOOLEAN]

\* The list of gap rows after an append, and after a change of one row.
LEMMA RowAppended ==
  ASSUME NEW rows \in Seq(Row), NEW row \in Row
  PROVE  /\ Append(rows, row) \in Seq(Row)
         /\ Len(Append(rows, row)) = Len(rows) + 1
         /\ DOMAIN rows = 1..Len(rows)
         /\ DOMAIN Append(rows, row) = 1..(Len(rows) + 1)
         /\ \A i \in 1..Len(rows) : Append(rows, row)[i] = rows[i]
         /\ Append(rows, row)[Len(rows) + 1] = row
  OBVIOUS

LEMMA RowChanged ==
  ASSUME NEW rows \in Seq(Row), NEW i \in 1..Len(rows), NEW row \in Row
  PROVE  /\ [rows EXCEPT ![i] = row] \in Seq(Row)
         /\ Len([rows EXCEPT ![i] = row]) = Len(rows)
         /\ DOMAIN [rows EXCEPT ![i] = row] = DOMAIN rows
         /\ DOMAIN rows = 1..Len(rows)
         /\ [rows EXCEPT ![i] = row][i] = row
         /\ \A j \in 1..Len(rows) \ {i} : [rows EXCEPT ![i] = row][j] = rows[j]
  BY ExceptSeq, LenProperties

\* _record_gap_start, whatever the rest of the step does to the memory: it files
\* a row that reaches back to the last change persisted, or leaves the rows.
LEMMA GapStartFiles ==
  ASSUME StreamTypes, RowsReach, NEW m \in Memory(Len(gaps), world),
         m.gap = mem.gap, m.last = mem.last, GapStart(m), world' = world
  PROVE  /\ gaps' \in Seq(Row)
         /\ mem' \in Memory(Len(gaps'), world)
         /\ \A f \in {"pc", "state", "frame", "whole", "last"} : mem'[f] = m[f]
         /\ inbox' = inbox
         /\ troubles' \in Nat
         /\ RowsReach'
         /\ \A e \in 1..world : Filed(e) => Filed(e)'
<1> USE DEF StreamTypes, RowsReach, Reaches, OpenRow, Filed, Covers, Memory, Pc, State, Row,
            dbVars
<1>1. CASE mem.gap # 0
  BY <1>1, ZenonT(60) DEF GapStart
<1>2. CASE mem.gap = 0
  <2>. PICK ok \in BOOLEAN :
         /\ Trial(ok)
         /\ gaps' = IF ok THEN Append(gaps, [last |-> mem.last, open |-> TRUE, to |-> 0])
                    ELSE gaps
         /\ mem' = IF ok THEN [m EXCEPT !.gap = Len(gaps) + 1] ELSE m
         /\ inbox' = inbox
    BY <1>2 DEF GapStart
  <2>1. troubles' \in Nat
    BY SMTT(60) DEF Trial
  <2>2. CASE ~ok
    BY <1>2, <2>1, <2>2
  <2>3. CASE ok
    <3>. DEFINE row == [last |-> mem.last, open |-> TRUE, to |-> 0]
    <3>1. row \in Row
      OBVIOUS
    <3>2. gaps \in Seq(Row) /\ Len(gaps) \in Nat
      OBVIOUS
    <3>3. /\ gaps' \in Seq(Row) /\ Len(gaps') = Len(gaps) + 1
          /\ DOMAIN gaps = 1..Len(gaps) /\ DOMAIN gaps' = 1..(Len(gaps) + 1)
          /\ \A i \in 1..Len(gaps) : gaps'[i] = gaps[i]
          /\ gaps'[Len(gaps) + 1] = row
      BY <2>3, <3>1, <3>2, RowAppended
    <3>4. mem' = [m EXCEPT !.gap = Len(gaps) + 1]
      BY <2>3
    <3>5. RowsReach'
      BY <3>1, <3>2, <3>3, <3>4, SMTT(60)
    <3>6. mem' \in Memory(Len(gaps'), world)
      <4>1. m \in Memory(Len(gaps) + 1, world)
        BY <3>2, SMTT(60)
      <4>2. Len(gaps) + 1 \in 0..(Len(gaps) + 1)
        BY <3>2
      <4>q. QED  BY <3>3, <3>4, <4>1, <4>2, ZenonT(60)
    <3>7. \A e \in 1..world : Filed(e) => Filed(e)'
      <4>. TAKE e \in 1..world
      <4>. HAVE Filed(e)
      <4>1. PICK i \in 1..Len(gaps) : Covers(gaps[i], e)
        BY <3>3
      <4>2. i \in 1..(Len(gaps) + 1) /\ Covers(gaps'[i], e)
        BY <3>2, <3>3, <4>1, SMTT(60)
      <4>q. QED  BY <3>3, <4>2
    <3>q. QED  BY <2>1, <3>3, <3>4, <3>5, <3>6, <3>7, ZenonT(60)
  <2>q. QED  BY <2>2, <2>3
<1>q. QED  BY <1>1, <1>2

\* The types one at a time.
LEMMA Remembers ==
  ASSUME StreamTypes
  PROVE  /\ mem \in Memory(Len(gaps), world)
         /\ Len(gaps) \in Nat /\ world \in Nat
         /\ 0 \in 0..world /\ world \in -1..world /\ -1 \in -1..world
         /\ wire \subseteq 0..world /\ inbox \cup {0} \subseteq 0..world
         /\ mem.frame \in 0..world /\ mem.last \in 0..world
         /\ mem.stale \in BOOLEAN /\ mem.whole \in BOOLEAN
  BY DEF StreamTypes, Memory, Pc, State

\* The steps of the reader that touch neither the exchange nor the tables.
Quiet ==
  \/ Start \/ SnapshotBefore \/ SnapshotAfter \/ NotConverged \/ Baseline \/ ReadClosed
  \/ KeyExpires \/ Silence \/ ProbeKeeps \/ ProbeReconnects
Writing == Converged \/ ConvergedUnfiled \/ Persist
Connecting == Dial \/ Subscribe
Filing == Begin \/ Down

\* The memory of the reader after every step that files no gap.
LEMMA MemoryTyped ==
  ASSUME StreamTypes, Quiet \/ Writing \/ Connecting \/ Receive
  PROVE  mem' \in Memory(Len(gaps), world)
<1>. USE Remembers
<1>. DEFINE Typed == mem' \in Memory(Len(gaps), world)
<1>1. ASSUME Start PROVE Typed
  <2>1. PICK w \in 0..world : mem' = [Fresh EXCEPT !.pc = "begin", !.last = w]
    BY <1>1 DEF Start
  <2>2. mem' = [pc |-> "begin", state |-> "connecting", converged |-> FALSE, gap |-> 0,
                last |-> w, whole |-> FALSE, frame |-> 0, base |-> -1, stale |-> FALSE]
    BY <2>1 DEF Fresh
  <2>q. QED  BY <2>2 DEF Memory, Pc, State
<1>2. ASSUME SnapshotBefore \/ SnapshotAfter \/ NotConverged \/ ReadClosed \/ KeyExpires
             \/ Silence \/ ProbeReconnects \/ ProbeKeeps
      PROVE  Typed
  <2>1. ASSUME SnapshotBefore \/ SnapshotAfter PROVE Typed
    <3>1. PICK p \in Pc, b \in BOOLEAN : mem' = [mem EXCEPT !.pc = p, !.whole = b]
      BY <2>1 DEF SnapshotBefore, SnapshotAfter, Complete, Pc
    <3>q. QED  BY <3>1 DEF Memory
  <2>2. ASSUME NotConverged PROVE Typed
    <3>1. mem' = [mem EXCEPT !.pc = "down", !.converged = FALSE]
      BY <2>2 DEF NotConverged
    <3>q. QED  BY <3>1 DEF Memory, Pc
  <2>3. ASSUME ReadClosed \/ KeyExpires \/ Silence \/ ProbeReconnects PROVE Typed
    <3>1. PICK p \in Pc : mem' = [mem EXCEPT !.pc = p]
      BY <2>3 DEF ReadClosed, KeyExpires, Silence, ProbeReconnects, Pc
    <3>q. QED  BY <3>1 DEF Memory
  <2>4. ASSUME ProbeKeeps PROVE Typed
    <3>1. mem' = [mem EXCEPT !.pc = "read", !.base = world, !.stale = FALSE]
      BY <2>4 DEF ProbeKeeps
    <3>q. QED  BY <3>1 DEF Memory, Pc
  <2>q. QED  BY <1>2, <2>1, <2>2, <2>3, <2>4
<1>3. ASSUME Baseline PROVE Typed
  <2>1. PICK ok \in BOOLEAN, s \in BOOLEAN :
          mem' = [mem EXCEPT !.pc = "read", !.base = IF ok THEN world ELSE -1,
                             !.stale = IF ok THEN FALSE ELSE s]
    BY <1>3 DEF Baseline
  <2>2. PICK b \in -1..world, t \in BOOLEAN :
          mem' = [mem EXCEPT !.pc = "read", !.base = b, !.stale = t]
    BY <2>1
  <2>q. QED  BY <2>2 DEF Memory, Pc, State
<1>4. ASSUME Converged \/ ConvergedUnfiled PROVE Typed
  <2>1. mem' = [mem EXCEPT !.pc = "baseline", !.state = "healthy", !.converged = TRUE,
                           !.whole = FALSE, !.gap = 0]
    BY <1>4 DEF Converged, ConvergedUnfiled, Healthy
  <2>2. 0 \in 0..Len(gaps)
    OBVIOUS
  <2>q. QED  BY <2>1, <2>2 DEF Memory, Pc, State
<1>5. ASSUME Persist PROVE Typed
  <2>1. PICK l \in 0..world : mem' = [mem EXCEPT !.pc = "read", !.frame = 0, !.last = l]
    BY <1>5 DEF Persist
  <2>q. QED  BY <2>1 DEF Memory, Pc, State
<1>6. ASSUME Dial PROVE Typed
  <2>1. PICK p \in Pc, s \in State : mem' = [mem EXCEPT !.pc = p, !.state = s]
    BY <1>6 DEF Dial, Pc, State
  <2>q. QED  BY <2>1 DEF Memory, Pc, State
<1>7. ASSUME Subscribe PROVE Typed
  <2>1. \/ mem' = [mem EXCEPT !.pc = "after"]
        \/ mem' = [mem EXCEPT !.pc = "down", !.converged = FALSE, !.whole = FALSE]
    BY <1>7 DEF Subscribe
  <2>2. PICK p \in Pc, c \in BOOLEAN, w \in BOOLEAN :
          mem' = [mem EXCEPT !.pc = p, !.converged = c, !.whole = w]
    <3>1. mem.converged \in BOOLEAN
      BY DEF Memory
    <3>2. [mem EXCEPT !.pc = "after"] =
            [mem EXCEPT !.pc = "after", !.converged = mem.converged, !.whole = mem.whole]
      BY DEF Memory
    <3>q. QED  BY <2>1, <3>1, <3>2 DEF Pc
  <2>q. QED  BY <2>2 DEF Memory
<1>8. ASSUME Receive PROVE Typed
  <2>1. PICK e \in 0..world :
          mem' = [mem EXCEPT !.pc = "write", !.frame = e, !.stale = TRUE]
    BY <1>8 DEF Receive
  <2>q. QED  BY <2>1 DEF Memory, Pc, State
<1>q. QED
  BY <1>1, <1>2, <1>3, <1>4, <1>5, <1>6, <1>7, <1>8 DEF Quiet, Writing, Connecting

Socks == {"none", "open", "asked", "live", "dead", "closed"}
\* Types after every step of the reader.
LEMMA ReaderTypes ==
  ASSUME StreamTypes, Places, RowsReach, Reader
  PROVE  StreamTypes'
<1>. USE Remembers
<1>. DEFINE Shared == /\ world' = world /\ sock' \in Socks
                      /\ wire' \subseteq 1..world /\ inbox' \subseteq 1..world
                      /\ snapshot' \in 0..world /\ troubles' \in Nat
            Excused == excused' \in [changes : SUBSET (1..world), rows : SUBSET Nat]
<1>. USE DEF Socks
<1>1. ASSUME Quiet PROVE Shared /\ Excused /\ gaps' = gaps
  <2>1. UNCHANGED <<world, sock, wire, inbox, gaps, excused>>
        /\ snapshot' \in {snapshot, world, 0} /\ troubles' \in {troubles, troubles + 1}
    BY <1>1 DEF Quiet, Start, SnapshotBefore, SnapshotAfter, NotConverged, Baseline,
       ReadClosed, KeyExpires, Silence, ProbeKeeps, ProbeReconnects, exVars, dbVars, Trial, Fault
  <2>2. snapshot' \in 0..world /\ troubles' \in Nat
    BY <2>1, SMTT(60) DEF StreamTypes
  <2>q. QED  BY <2>1, <2>2 DEF StreamTypes
<1>2. ASSUME Connecting PROVE Shared /\ Excused /\ gaps' = gaps
  <2>1. UNCHANGED <<world, wire, inbox, gaps, snapshot, excused>> /\ sock' \in {sock, "open", "asked"}
    BY <1>2 DEF Connecting, Dial, Subscribe, dbVars
  <2>2. troubles' \in {troubles, troubles + 1}
    BY <1>2 DEF Connecting, Dial, Subscribe, Trial
  <2>3. sock \in Socks /\ Excused /\ gaps' = gaps
    BY <2>1 DEF StreamTypes
  <2>4. sock' \in Socks
    BY <2>1, <2>3
  <2>5. troubles' \in Nat
    BY <2>2 DEF StreamTypes
  <2>q. QED  BY <2>1, <2>3, <2>4, <2>5 DEF StreamTypes
<1>3. ASSUME Receive PROVE Shared /\ Excused /\ gaps' = gaps
  BY <1>3 DEF StreamTypes, Receive, dbVars
<1>4. ASSUME Persist PROVE Shared /\ Excused /\ gaps' = gaps
  <2>1. mem.frame \in 1..world
    BY <1>4 DEF Persist, Places
  <2>2. Shared /\ gaps' = gaps
    BY <1>4, <2>1, SMTT(60) DEF StreamTypes, Persist, Trial, exVars
  <2>3. Excused
    BY <1>4, <2>1, SMTT(60) DEF StreamTypes, Persist
  <2>q. QED  BY <2>2, <2>3
<1>5. ASSUME ConvergedUnfiled PROVE Shared /\ Excused /\ gaps' = gaps
  BY <1>5 DEF StreamTypes, ConvergedUnfiled, exVars, dbVars
<1>6. ASSUME Converged
      PROVE  Shared /\ Excused /\ gaps' \in Seq(Row) /\ Len(gaps') = Len(gaps)
  <2>1. mem.gap \in 1..Len(gaps) /\ mem.gap \in Nat /\ gaps[mem.gap] \in Row
    BY <1>6, ElementOfSeq, SMTT(60) DEF Converged, StreamTypes
  <2>2. [gaps[mem.gap] EXCEPT !.open = FALSE, !.to = world] \in Row
    BY <2>1 DEF Row
  <2>3. gaps' \in Seq(Row) /\ Len(gaps') = Len(gaps)
    BY <1>6, <2>1, <2>2, RowChanged DEF Converged, StreamTypes
  <2>4. UNCHANGED <<world, sock, wire, inbox, snapshot>> /\ troubles' \in {troubles, troubles + 1}
    BY <1>6 DEF Converged, Trial, exVars
  <2>5. excused' \in {excused, [excused EXCEPT !.rows = @ \cup {mem.gap}]}
    BY <1>6 DEF Converged
  <2>6. Excused
    BY <2>1, <2>5, SMTT(60) DEF StreamTypes
  <2>q. QED  BY <2>3, <2>4, <2>6, SMTT(60) DEF StreamTypes
<1>7. ASSUME Filing
      PROVE  Shared /\ Excused /\ gaps' \in Seq(Row) /\ mem' \in Memory(Len(gaps'), world)
  <2>1. PICK m \in Memory(Len(gaps), world) :
          GapStart(m) /\ m.gap = mem.gap /\ m.last = mem.last
    <3>1. CASE Begin
      <4>. DEFINE m == [mem EXCEPT !.pc = "dial"]
      <4>1. m \in Memory(Len(gaps), world) /\ m.gap = mem.gap /\ m.last = mem.last
        BY SMTT(60) DEF Memory, Pc, State
      <4>q. QED  BY <3>1, <4>1 DEF Begin
    <3>2. CASE Down
      <4>. DEFINE m == [mem EXCEPT !.pc = "dial", !.state = "disconnected"]
      <4>1. m \in Memory(Len(gaps), world) /\ m.gap = mem.gap /\ m.last = mem.last
        BY DEF Memory, Pc, State
      <4>q. QED  BY <3>2, <4>1 DEF Down
    <3>q. QED  BY <1>7, <3>1, <3>2 DEF Filing
  <2>2. world' = world
    BY <1>7 DEF Filing, Begin, Down, exVars
  <2>3. /\ gaps' \in Seq(Row) /\ mem' \in Memory(Len(gaps'), world)
        /\ inbox' = inbox /\ troubles' \in Nat
    BY <2>1, <2>2, GapStartFiles
  <2>4. Shared /\ Excused
    BY <1>7, <2>3 DEF Filing, Begin, Down, StreamTypes, exVars
  <2>q. QED  BY <2>3, <2>4
<1>8. Shared /\ Excused /\ gaps' \in Seq(Row) /\ mem' \in Memory(Len(gaps'), world)
  BY <1>1, <1>2, <1>3, <1>4, <1>5, <1>6, <1>7, MemoryTyped
  DEF StreamTypes, Reader, Quiet, Writing, Connecting, Filing
<1>q. QED  BY <1>8 DEF StreamTypes, Memory, Pc, State

---------------------------------------------------------------------------
(* Steps of the reader.                                                    *)

\* What filing an interruption leaves: the next dial, on no connection.
LEMMA FilingLeaves ==
  ASSUME StreamInv, Filing
  PROVE  /\ mem'.pc = "dial" /\ mem'.state # "healthy" /\ mem.frame = 0 /\ mem'.frame = 0
         /\ mem'.last = mem.last /\ inbox' = inbox /\ world' = world
         /\ sock' = "none" /\ wire' = {} /\ excused' = excused
         /\ Begin => wire = {}
         /\ RowsReach'
         /\ \A e \in 1..world : Filed(e) => Filed(e)'
<1>. USE Remembers DEF StreamInv
<1>1. CASE Begin
  <2>. DEFINE m == [mem EXCEPT !.pc = "dial"]
  <2>1. m \in Memory(Len(gaps), world) /\ m.gap = mem.gap /\ m.last = mem.last
    BY DEF Memory, Pc, State
  <2>2. m.pc = "dial" /\ m.state = mem.state /\ m.frame = mem.frame
    BY DEF Memory
  <2>3. GapStart(m) /\ mem.pc = "begin" /\ UNCHANGED <<exVars, excused>>
    BY <1>1 DEF Begin
  <2>4. sock = "none" /\ wire = {} /\ mem.frame = 0 /\ mem.state # "healthy"
    BY <2>3 DEF Places, Subscribed, Reading
  <2>5. world' = world /\ sock' = sock /\ wire' = wire /\ excused' = excused
    BY <2>3 DEF exVars
  <2>6. /\ \A f \in {"pc", "state", "frame", "whole", "last"} : mem'[f] = m[f]
        /\ inbox' = inbox /\ RowsReach'
        /\ \A e \in 1..world : Filed(e) => Filed(e)'
    BY <2>1, <2>3, <2>5, GapStartFiles
  <2>q. QED  BY <2>1, <2>2, <2>4, <2>5, <2>6
<1>2. CASE Down
  <2>. DEFINE m == [mem EXCEPT !.pc = "dial", !.state = "disconnected"]
  <2>1. m \in Memory(Len(gaps), world) /\ m.gap = mem.gap /\ m.last = mem.last
    BY DEF Memory, Pc, State
  <2>2. m.pc = "dial" /\ m.state = "disconnected" /\ m.frame = mem.frame
    BY DEF Memory
  <2>3. GapStart(m) /\ mem.pc = "down" /\ UNCHANGED <<world, excused>>
        /\ sock' = "none" /\ wire' = {} /\ ~Begin
    BY <1>2 DEF Down, Begin
  <2>4. mem.frame = 0
    BY <2>3 DEF Places
  <2>6. /\ \A f \in {"pc", "state", "frame", "whole", "last"} : mem'[f] = m[f]
        /\ inbox' = inbox /\ RowsReach'
        /\ \A e \in 1..world : Filed(e) => Filed(e)'
    BY <2>1, <2>3, GapStartFiles
  <2>q. QED  BY <2>1, <2>2, <2>3, <2>4, <2>6
<1>q. QED  BY <1>1, <1>2 DEF Filing

\* Where the reader is agrees with the connection it has.
LEMMA ReaderPlaces ==
  ASSUME StreamInv, Reader
  PROVE  Places'
<1>. USE DEF StreamInv, StreamTypes, Places, Subscribed, Reading, OnItsWay, Trial, Fault, exVars, dbVars, Fresh, Complete, Healthy
<1>1. CASE Start
  BY <1>1 DEF Start
<1>2. CASE SnapshotBefore
  BY <1>2 DEF SnapshotBefore
<1>3. CASE SnapshotAfter
  BY <1>3 DEF SnapshotAfter
<1>4. CASE NotConverged
  BY <1>4 DEF NotConverged
<1>5. CASE Baseline
  BY <1>5 DEF Baseline
<1>6. CASE ReadClosed
  BY <1>6 DEF ReadClosed
<1>7. CASE KeyExpires
  BY <1>7 DEF KeyExpires
<1>8. CASE Silence
  BY <1>8 DEF Silence
<1>9. CASE ProbeKeeps
  BY <1>9 DEF ProbeKeeps
<1>10. CASE ProbeReconnects
  BY <1>10 DEF ProbeReconnects
<1>11. CASE Converged
  BY <1>11 DEF Converged
<1>12. CASE ConvergedUnfiled
  BY <1>12 DEF ConvergedUnfiled
<1>13. CASE Persist
  BY <1>13 DEF Persist
<1>14. CASE Dial
  BY <1>14 DEF Dial
<1>15. CASE Subscribe
  BY <1>15 DEF Subscribe
<1>16. CASE Receive
  BY <1>16 DEF Receive
<1>17. CASE Filing
  BY <1>17, FilingLeaves
<1>q. QED
  BY <1>1, <1>2, <1>3, <1>4, <1>5, <1>6, <1>7, <1>8, <1>9, <1>10, <1>11, <1>12, <1>13,
     <1>14, <1>15, <1>16, <1>17, SMTT(60) DEF Reader, Filing

\* Frames are received and persisted in the order they are pushed.
LEMMA ReaderInOrder ==
  ASSUME StreamInv, Reader
  PROVE  InOrder'
<1>. USE DEF StreamInv, StreamTypes, Places, Subscribed, Reading, InOrder, OnItsWay, Trial, Fault, exVars, dbVars, Fresh, Complete, Healthy
<1>1. CASE Start
  BY <1>1 DEF Start
<1>2. CASE SnapshotBefore
  BY <1>2 DEF SnapshotBefore
<1>3. CASE SnapshotAfter
  BY <1>3 DEF SnapshotAfter
<1>4. CASE NotConverged
  BY <1>4 DEF NotConverged
<1>5. CASE Baseline
  BY <1>5 DEF Baseline
<1>6. CASE ReadClosed
  BY <1>6 DEF ReadClosed
<1>7. CASE KeyExpires
  BY <1>7 DEF KeyExpires
<1>8. CASE Silence
  BY <1>8 DEF Silence
<1>9. CASE ProbeKeeps
  BY <1>9 DEF ProbeKeeps
<1>10. CASE ProbeReconnects
  BY <1>10 DEF ProbeReconnects
<1>11. CASE Converged
  BY <1>11 DEF Converged
<1>12. CASE ConvergedUnfiled
  BY <1>12 DEF ConvergedUnfiled
<1>13. CASE Persist
  BY <1>13 DEF Persist
<1>14. CASE Dial
  BY <1>14 DEF Dial
<1>15. CASE Subscribe
  BY <1>15 DEF Subscribe
<1>16. CASE Receive
  BY <1>16, SMTT(60) DEF Receive
<1>17. CASE Filing
  BY <1>17, FilingLeaves
<1>q. QED
  BY <1>1, <1>2, <1>3, <1>4, <1>5, <1>6, <1>7, <1>8, <1>9, <1>10, <1>11, <1>12, <1>13,
     <1>14, <1>15, <1>16, <1>17, SMTT(60) DEF Reader, Filing

\* The open row reaches back to the last change persisted.
LEMMA ReaderRows ==
  ASSUME StreamInv, Reader
  PROVE  RowsReach'
<1>. USE DEF StreamInv, StreamTypes, Places, InOrder, RowsReach, Reaches, OpenRow, Row, Watermark, OnItsWay, Trial, Fault, exVars, dbVars, Fresh, Complete, Healthy
<1>1. CASE Start
  BY <1>1 DEF Start
<1>2. CASE SnapshotBefore
  BY <1>2 DEF SnapshotBefore
<1>3. CASE SnapshotAfter
  BY <1>3 DEF SnapshotAfter
<1>4. CASE NotConverged
  BY <1>4 DEF NotConverged
<1>5. CASE Baseline
  BY <1>5 DEF Baseline
<1>6. CASE ReadClosed
  BY <1>6 DEF ReadClosed
<1>7. CASE KeyExpires
  BY <1>7 DEF KeyExpires
<1>8. CASE Silence
  BY <1>8 DEF Silence
<1>9. CASE ProbeKeeps
  BY <1>9 DEF ProbeKeeps
<1>10. CASE ProbeReconnects
  BY <1>10 DEF ProbeReconnects
<1>11. CASE Converged
  BY <1>11 DEF Converged
<1>12. CASE ConvergedUnfiled
  BY <1>12 DEF ConvergedUnfiled
<1>13. CASE Persist
  BY <1>13, ZenonT(60) DEF Persist
<1>14. CASE Dial
  BY <1>14 DEF Dial
<1>15. CASE Subscribe
  BY <1>15 DEF Subscribe
<1>16. CASE Receive
  BY <1>16 DEF Receive
<1>17. CASE Filing
  BY <1>17, FilingLeaves
<1>q. QED
  BY <1>1, <1>2, <1>3, <1>4, <1>5, <1>6, <1>7, <1>8, <1>9, <1>10, <1>11, <1>12, <1>13,
     <1>14, <1>15, <1>16, <1>17, SMTT(60) DEF Reader, Filing

\* A complete second snapshot, and what is pushed after it, show everything.
LEMMA ReaderSees ==
  ASSUME StreamInv, Reader
  PROVE  SeesAll'
<1>. USE DEF StreamInv, StreamTypes, Places, Subscribed, Reading, SeesAll, SeenWhole, OnItsWay, Trial, Fault, exVars, dbVars, Fresh, Complete, Healthy
<1>1. CASE Start
  BY <1>1 DEF Start
<1>2. CASE SnapshotBefore
  BY <1>2 DEF SnapshotBefore
<1>3. CASE SnapshotAfter
  BY <1>3 DEF SnapshotAfter
<1>4. CASE NotConverged
  BY <1>4 DEF NotConverged
<1>5. CASE Baseline
  BY <1>5 DEF Baseline
<1>6. CASE ReadClosed
  BY <1>6 DEF ReadClosed
<1>7. CASE KeyExpires
  BY <1>7 DEF KeyExpires
<1>8. CASE Silence
  BY <1>8 DEF Silence
<1>9. CASE ProbeKeeps
  BY <1>9 DEF ProbeKeeps
<1>10. CASE ProbeReconnects
  BY <1>10 DEF ProbeReconnects
<1>11. CASE Converged
  BY <1>11 DEF Converged
<1>12. CASE ConvergedUnfiled
  BY <1>12 DEF ConvergedUnfiled
<1>13. CASE Persist
  BY <1>13 DEF Persist
<1>14. CASE Dial
  BY <1>14 DEF Dial
<1>15. CASE Subscribe
  BY <1>15 DEF Subscribe
<1>16. CASE Receive
  BY <1>16 DEF Receive
<1>17. CASE Filing
  BY <1>17, FilingLeaves
<1>q. QED
  BY <1>1, <1>2, <1>3, <1>4, <1>5, <1>6, <1>7, <1>8, <1>9, <1>10, <1>11, <1>12, <1>13,
     <1>14, <1>15, <1>16, <1>17, SMTT(60) DEF Reader, Filing

\* What is lost is filed, or later than everything persisted.
LEMMA ReaderToBeFiled ==
  ASSUME StreamInv, Reader
  PROVE  ToBeFiled'
<1>. USE DEF StreamInv, StreamTypes, Places, Subscribed, Reading, InOrder, RowsReach, Reaches, ToBeFiled, After, Filed, Covers, OpenRow, OnItsWay, Trial, Fault, exVars, dbVars, Fresh, Complete, Healthy
<1>1. CASE Start
  BY <1>1, SMTT(60) DEF Start
<1>2. CASE SnapshotBefore
  BY <1>2, SMTT(60) DEF SnapshotBefore
<1>3. CASE SnapshotAfter
  BY <1>3, SMTT(60) DEF SnapshotAfter
<1>4. CASE NotConverged
  BY <1>4, ZenonT(60) DEF NotConverged
<1>5. CASE Baseline
  BY <1>5, SMTT(60) DEF Baseline
<1>6. CASE ReadClosed
  BY <1>6 DEF ReadClosed
<1>7. CASE KeyExpires
  BY <1>7, SMTT(60) DEF KeyExpires
<1>8. CASE Silence
  BY <1>8 DEF Silence
<1>9. CASE ProbeKeeps
  BY <1>9, SMTT(60) DEF ProbeKeeps
<1>10. CASE ProbeReconnects
  BY <1>10 DEF ProbeReconnects
<1>11. CASE Converged
  <2>1. mem.gap \in 1..Len(gaps) /\ mem.gap \in Nat /\ gaps[mem.gap] \in Row
    BY <1>11, ElementOfSeq, SMTT(60) DEF Converged
  <2>2. [gaps[mem.gap] EXCEPT !.open = FALSE, !.to = world] \in Row
    BY <2>1 DEF Row
  <2>3. PICK ok \in BOOLEAN :
          /\ gaps' = IF ok THEN [gaps EXCEPT ![mem.gap] =
                                    [gaps[mem.gap] EXCEPT !.open = FALSE, !.to = world]]
                     ELSE gaps
          /\ UNCHANGED <<world, sock, wire, inbox>> /\ mem' = Healthy
          /\ \E r \in SUBSET Nat : excused' \in {excused, [excused EXCEPT !.rows = r]}
    <3>1. PICK ok \in BOOLEAN :
            /\ gaps' = IF ok THEN [gaps EXCEPT ![mem.gap] =
                                      [gaps[mem.gap] EXCEPT !.open = FALSE, !.to = world]]
                       ELSE gaps
            /\ excused' = IF ok THEN excused
                          ELSE [excused EXCEPT !.rows = excused.rows \cup {mem.gap}]
            /\ UNCHANGED <<world, sock, wire, inbox>> /\ mem' = Healthy
      BY <1>11 DEF Converged, exVars
    <3>2. excused.rows \cup {mem.gap} \in SUBSET Nat
      BY <2>1
    <3>q. QED  BY <3>1, <3>2
  <2>. DEFINE row == [gaps[mem.gap] EXCEPT !.open = FALSE, !.to = world]
  <2>4. /\ gaps' \in Seq(Row) /\ DOMAIN gaps' = DOMAIN gaps /\ DOMAIN gaps = 1..Len(gaps)
        /\ \A j \in 1..Len(gaps) \ {mem.gap} : gaps'[j] = gaps[j]
        /\ gaps'[mem.gap] \in {gaps[mem.gap], row}
    BY <2>1, <2>2, <2>3, RowChanged
  <2>5. row.last = gaps[mem.gap].last /\ row.to = world /\ row.last \in inbox \cup {0}
    BY <1>11, <2>1 DEF Row, Converged
  <2>6. ASSUME NEW i \in DOMAIN gaps, NEW e \in 1..world, Covers(gaps[i], e)
        PROVE  Filed(e)'
    BY <2>3, <2>4, <2>5, <2>6, SMTT(60)
  <2>7. ASSUME NEW e \in 1..world, After(e, inbox) PROVE Filed(e)'
    <3>1. Covers(gaps[mem.gap], e)
      BY <1>11, <2>1, <2>5, <2>7 DEF Converged
    <3>q. QED  BY <2>1, <2>4, <2>6, <3>1
  <2>8. mem'.frame = mem.frame /\ excused'.changes = excused.changes
    BY <2>3
  <2>9. ASSUME NEW e \in 1..world
        PROVE  e \in OnItsWay' \/ Filed(e)'
    <3>1. CASE e \in OnItsWay
      BY <2>3, <2>8, <3>1
    <3>2. CASE Filed(e)
      BY <2>6, <3>2
    <3>3. CASE After(e, inbox)
      BY <2>7, <3>3
    <3>q. QED  BY <3>1, <3>2, <3>3, SMTT(60)
  <2>q. QED  BY <2>3, <2>9, SMTT(60)
<1>12. CASE ConvergedUnfiled
  BY <1>12 DEF ConvergedUnfiled
<1>13. CASE Persist
  BY <1>13, SMTT(60) DEF Persist
<1>14. CASE Dial
  BY <1>14, SMTT(60) DEF Dial
<1>15. CASE Subscribe
  BY <1>15, SMTT(60) DEF Subscribe
<1>16. CASE Receive
  <2>1. PICK w \in wire :
          /\ \A f \in wire : w <= f
          /\ mem' = [mem EXCEPT !.pc = "write", !.frame = w, !.stale = TRUE]
          /\ wire' = wire \ {w}
          /\ UNCHANGED <<world, sock, inbox, gaps, excused>>
    BY <1>16 DEF Receive
  <2>2. mem.frame = 0 /\ mem'.frame = w /\ mem'.state = mem.state
    BY <1>16, <2>1 DEF Receive
  <2>3. \A e \in 1..world : e \in OnItsWay => e \in OnItsWay'
    BY <2>1, <2>2
  <2>4. \A e \in 1..world : After(e, inbox \cup wire \cup {mem.frame})
                              => After(e, (inbox \cup wire \cup {mem.frame})')
    BY <2>1, <2>2
  <2>5. \A e \in 1..world : Filed(e) => Filed(e)'
    BY <2>1
  <2>q. QED  BY <2>1, <2>2, <2>3, <2>4, <2>5, SMTT(60)
<1>17. CASE Filing
  <2>1. \A e \in 1..world : e \in wire => After(e, inbox)
    OBVIOUS
  <2>q. QED  BY <1>17, <2>1, FilingLeaves
<1>q. QED
  BY <1>1, <1>2, <1>3, <1>4, <1>5, <1>6, <1>7, <1>8, <1>9, <1>10, <1>11, <1>12, <1>13,
     <1>14, <1>15, <1>16, <1>17, SMTT(60) DEF Reader, Filing

\* Every step of the reader keeps the invariant.
LEMMA ReaderKeeps ==
  ASSUME StreamInv, Reader
  PROVE  StreamInv'
<1>1. StreamTypes'
  BY ReaderTypes DEF StreamInv
<1>q. QED
  BY <1>1, ReaderPlaces, ReaderInOrder, ReaderRows, ReaderSees, ReaderToBeFiled DEF StreamInv

---------------------------------------------------------------------------
(* The surroundings.                                                       *)

\* What is lost with a socket is what was pushed last.
LEMMA ExchangeKeeps ==
  ASSUME StreamInv, TakesEffect \/ RoutingStops \/ Closes
  PROVE  StreamInv'
<1>. USE DEF StreamInv
<1>1. CASE TakesEffect \/ RoutingStops
  <2>1. /\ UNCHANGED <<world, wire, inbox, gaps, mem, snapshot, excused>>
        /\ sock \in {"asked", "live"} /\ sock' \in {"live", "dead"}
        /\ troubles' \in {troubles, troubles + 1}
    BY <1>1 DEF TakesEffect, RoutingStops, Fault, Trial, dbVars
  <2>2. StreamTypes'
    BY <2>1, SMTT(60) DEF StreamTypes
  <2>3. Places' /\ InOrder' /\ RowsReach'
    BY <2>1 DEF Places, Subscribed, Reading, InOrder, RowsReach, Reaches, OpenRow
  <2>4. SeesAll' /\ ToBeFiled'
    BY <2>1 DEF SeesAll, SeenWhole, ToBeFiled, OnItsWay, Filed, Covers, After
  <2>q. QED  BY <2>2, <2>3, <2>4
<1>2. CASE Closes
  <2>1. PICK k \in 0..world : wire' = {e \in wire : e <= k}
    BY <1>2, Remembers DEF Closes
  <2>2. /\ UNCHANGED <<world, inbox, gaps, mem, snapshot, excused>>
        /\ sock # "none" /\ sock' = "closed" /\ troubles' = troubles + 1
    BY <1>2 DEF Closes, Fault, Trial, dbVars
  <2>3. StreamTypes'
    <3>1. wire' \subseteq wire /\ troubles' \in Nat
      BY <2>1, <2>2 DEF StreamTypes
    <3>q. QED  BY <2>2, <3>1 DEF StreamTypes
  <2>4. Places' /\ InOrder' /\ RowsReach'
    BY <2>1, <2>2 DEF Places, Subscribed, Reading, InOrder, RowsReach, Reaches, OpenRow
  <2>5. SeesAll'
    BY <2>2 DEF SeesAll
  <2>6. ASSUME NEW e \in 1..world, e \in wire, e \notin wire'
        PROVE  After(e, (inbox \cup wire \cup {mem.frame})')
    BY <2>1, <2>2, <2>6 DEF After, InOrder, StreamTypes
  <2>7. ASSUME NEW e \in 1..world, After(e, inbox \cup wire \cup {mem.frame})
        PROVE  After(e, (inbox \cup wire \cup {mem.frame})')
    BY <2>1, <2>2, <2>7 DEF After
  <2>8. \A e \in 1..world : (Filed(e) => Filed(e)') /\ (After(e, inbox) => After(e, inbox'))
    BY <2>2 DEF Filed, Covers, After
  <2>9. \A e \in 1..world : e \in OnItsWay => e \in OnItsWay' \/ (e \in wire /\ e \notin wire')
    BY <2>2 DEF OnItsWay
  <2>10. ToBeFiled'
    BY <2>2, <2>6, <2>7, <2>8, <2>9, SMTT(60) DEF ToBeFiled
  <2>q. QED  BY <2>3, <2>4, <2>5, <2>10
<1>q. QED  BY <1>1, <1>2

\* A process that dies is not healthy: the next one files from the last row.
LEMMA KillKeeps ==
  ASSUME StreamInv, Kill
  PROVE  StreamInv'
<1>. USE DEF StreamInv
<1>1. /\ UNCHANGED <<world, inbox, gaps>>
      /\ mem' = Fresh /\ sock' = "none" /\ wire' = {} /\ snapshot' = 0
      /\ excused' = [excused EXCEPT !.rows = @ \cup ({mem.gap} \ {0})]
      /\ troubles' = troubles + 1
  BY DEF Kill, Fault, Trial, dbVars
<1>2. StreamTypes'
  BY <1>1, SMTT(60) DEF StreamTypes, Fresh
<1>3. Places' /\ InOrder' /\ RowsReach' /\ SeesAll'
  BY <1>1 DEF Places, Subscribed, Reading, InOrder, RowsReach, Reaches, SeesAll, SeenWhole, Fresh
<1>4. \A e \in 1..world : e \in wire \cup {mem.frame} => After(e, inbox)
  BY DEF InOrder, After, StreamTypes
<1>5. \A e \in 1..world : After(e, inbox \cup wire \cup {mem.frame}) => After(e, inbox)
  BY DEF After
<1>6. excused'.changes = excused.changes /\ mem'.state # "healthy"
  BY <1>1 DEF Fresh, StreamTypes
<1>7. ToBeFiled'
  BY <1>1, <1>4, <1>5, <1>6 DEF ToBeFiled, OnItsWay, Filed, Covers, After
<1>q. QED  BY <1>2, <1>3, <1>7

\* A change of the account, the entry's own order included.
LEMMA ChangeKeeps ==
  ASSUME StreamInv, Change, UNCHANGED <<sock, dbVars, mem, snapshot, troubles>>
  PROVE  StreamInv'
<1>. USE DEF StreamInv
<1>0. UNCHANGED <<inbox, gaps>>
  BY DEF dbVars
<1>1. world \in Nat /\ world' = world + 1
  BY DEF Change, StreamTypes
<1>2. /\ wire' \in {wire, wire \cup {world'}}
      /\ excused' \in {excused, [excused EXCEPT !.changes = @ \cup {world'}]}
      /\ sock # "live" => wire' = wire
      /\ sock = "live" => world' \in wire'
  BY DEF Change
<1>2a. Deaf => world' \in excused'.changes
  BY DEF Change, StreamTypes
<1>3. wire' \subseteq 1..world' /\ excused' \in [changes : SUBSET (1..world'), rows : SUBSET Nat]
  BY <1>1, <1>2, SMTT(60) DEF StreamTypes
<1>4. StreamTypes'
  BY <1>0, <1>1, <1>3, SMTT(60) DEF StreamTypes
<1>5. \A f \in inbox \cup wire \cup {mem.frame} : f < world'
  BY <1>1 DEF StreamTypes
<1>6. Places' /\ InOrder' /\ RowsReach'
  BY <1>0, <1>2, <1>5 DEF Places, Subscribed, Reading, InOrder, RowsReach, Reaches, OpenRow
<1>7. SeesAll'
  <2>. SUFFICES ASSUME SeenWhole, sock # "closed"
                PROVE  world' \in OnItsWay' /\ SeesAll'
    BY <1>0 DEF SeesAll, SeenWhole
  <2>1. sock \in {"asked", "live", "dead"} /\ mem.pc # "after"
    BY DEF SeenWhole, Places, Subscribed, Reading
  <2>2. world' \in OnItsWay'
    BY <1>2, <1>2a, <2>1 DEF Deaf, OnItsWay
  <2>3. \A e \in 1..world : e \in OnItsWay => e \in OnItsWay'
    BY <1>0, <1>2 DEF OnItsWay, StreamTypes
  <2>q. QED  BY <1>0, <1>1, <2>2, <2>3 DEF SeesAll, SeenWhole
<1>8. ToBeFiled'
  <2>1. \A e \in 1..world : e \in OnItsWay => e \in OnItsWay'
    BY <1>0, <1>2, SMTT(60) DEF OnItsWay, StreamTypes
  <2>2. \A e \in 1..world : Filed(e) => Filed(e)'
    BY <1>0 DEF Filed, Covers
  <2>3. \A e \in 1..world :
          (\/ e \in OnItsWay \/ Filed(e)
           \/ mem.state # "healthy" /\ After(e, inbox)
           \/ sock = "closed" /\ After(e, inbox \cup wire \cup {mem.frame}))'
    BY <1>0, <1>2, <2>1, <2>2 DEF ToBeFiled, After
  <2>4. \/ world' \in OnItsWay'
        \/ mem.state # "healthy" /\ After(world', inbox)
        \/ sock = "closed" /\ After(world', inbox \cup wire \cup {mem.frame})
    <3>1. CASE sock = "closed"
      BY <1>5, <3>1 DEF After
    <3>2. CASE sock \in {"none", "open"} \/ mem.pc = "after"
      <4>1. mem.state # "healthy"
        BY <3>2 DEF Places, Subscribed, Reading
      <4>q. QED  BY <1>5, <4>1 DEF After
    <3>3. CASE sock \in {"asked", "live", "dead"} /\ mem.pc # "after"
      BY <1>2, <1>2a, <3>3 DEF Deaf, OnItsWay
    <3>q. QED  BY <3>1, <3>2, <3>3 DEF StreamTypes
  <2>5. sock = "closed" => wire' = wire
    BY <1>2
  <2>q. QED  BY <1>0, <1>1, <2>3, <2>4, <2>5 DEF ToBeFiled
<1>q. QED  BY <1>4, <1>6, <1>7, <1>8

---------------------------------------------------------------------------
(* The entry.                                                              *)

\* What the entry and its reconcilers leave alone.
Untouched == UNCHANGED <<exVars, dbVars, mem, snapshot, excused>>
\* A step that leaves the stream alone.
LEMMA UntouchedKeeps ==
  ASSUME StreamInv, Untouched, troubles' \in Nat
  PROVE  StreamInv'
<1>. USE DEF StreamInv
<1>1. UNCHANGED <<world, sock, wire, inbox, gaps, mem, snapshot, excused>>
  BY DEF Untouched, exVars, dbVars
<1>2. StreamTypes'
  BY <1>1, SMTT(60) DEF StreamTypes
<1>3. Places' /\ InOrder' /\ RowsReach'
  BY <1>1 DEF Places, Subscribed, Reading, InOrder, RowsReach, Reaches, OpenRow
<1>4. SeesAll' /\ ToBeFiled'
  BY <1>1 DEF SeesAll, SeenWhole, ToBeFiled, OnItsWay, Filed, Covers, After
<1>q. QED  BY <1>2, <1>3, <1>4

Reconcilers == Expire \/ Release \/ ExpireContract \/ DelayElapses \/ DeadlinePasses

\* The entry and its reconcilers read the stream and do not write it.
LEMMA EntryLeaves ==
  ASSUME StreamInv, Claim \/ Admit \/ Hold \/ ProjectDeferred \/ Defer \/ Prepare
                    \/ Commit \/ Check \/ Record \/ Reconcilers
  PROVE  Untouched /\ troubles' \in Nat
<1>1. Untouched
  BY DEF Untouched, Claim, Admit, Hold, ProjectDeferred, Defer, Prepare, Commit, Check,
     Record, Reconcilers, Expire, Release, ExpireContract, DelayElapses, DeadlinePasses,
     streamVars
<1>2. troubles' \in {troubles, troubles + 1}
  BY DEF Claim, Admit, Hold, ProjectDeferred, Defer, Prepare, Commit, Check, Record,
     Reconcilers, Expire, Release, ExpireContract, DelayElapses, DeadlinePasses, streamVars,
     Refused, Fault, Trial
<1>q. QED  BY <1>1, <1>2 DEF StreamInv, StreamTypes

Items == [status : {"pending", "executing", "submitted", "failed", "unknown"},
          delay : BOOLEAN, deadline : BOOLEAN, reason : {"none", "expired"}]
Contracts == [state : {"pending", "deferred", "submitting", "submit_unknown", "verified",
                       "failed", "expired"}, deadline : BOOLEAN]
RunOf == [pc : {"idle", "gate", "project", "defer", "prepare", "commit", "check", "send",
                "record"}, late : BOOLEAN,
          seen : {"none", "pending", "deferred"}, answer : {"none", "yes", "no", "lost"}]
EntryTypes ==
  /\ item \in Items /\ contract \in Contracts /\ run \in RunOf
  /\ overdue \in BOOLEAN /\ runs \in 0..MaxRuns /\ sent \subseteq 1..MaxRuns

\* A run has a number, and knows something of the order once the call was made.
Answered ==
  /\ run.pc # "idle" => runs > 0
  /\ run.pc = "record" => run.answer # "none"

EntryInv == EntryTypes /\ Answered

\* Types of the entry's part.
LEMMA EntryKeeps ==
  ASSUME EntryInv, Next
  PROVE  EntryInv'
<1>. USE DEF EntryInv, EntryTypes, Answered
<1>0. Idle \in RunOf /\ Idle.pc = "idle"
  BY DEF Idle, RunOf
<1>0a. \A st \in {"pending", "executing", "submitted", "failed", "unknown"}, d \in BOOLEAN :
         /\ [item EXCEPT !.status = st] \in Items
         /\ [item EXCEPT !.status = st, !.delay = d] \in Items /\ Expired \in Items
         /\ [item EXCEPT !.delay = d] \in Items /\ [item EXCEPT !.deadline = d] \in Items
  BY DEF Items, Expired
<1>0b. \A st \in {"pending", "deferred", "submitting", "submit_unknown", "verified", "failed",
                   "expired"} :
         /\ [contract EXCEPT !.state = st] \in Contracts
         /\ [contract EXCEPT !.deadline = TRUE] \in Contracts
  BY DEF Contracts
<1>1. CASE StreamStep \/ Others
  BY <1>1 DEF StreamStep, Others, entryVars
<1>2. CASE Crash
  BY <1>0, <1>2 DEF Crash
<1>3. CASE Claim
  <2>1. run' \in RunOf /\ run'.pc = "gate"
    BY <1>3 DEF Claim, Idle, RunOf
  <2>2. item' \in Items /\ UNCHANGED <<contract, overdue, sent>>
    BY <1>0a, <1>3 DEF Claim
  <2>3. runs' = runs + 1 /\ runs < MaxRuns
    BY <1>3 DEF Claim
  <2>4. runs' \in 0..MaxRuns /\ runs' > 0
    BY <2>3, EntryAssumption
  <2>q. QED  BY <2>1, <2>2, <2>4
<1>4. CASE Admit
  BY <1>4 DEF Admit, RunOf
<1>5. CASE Hold
  <2>1. CASE Stamp
    <3>1. run' \in RunOf /\ run'.pc = "project"
      BY <2>1 DEF Stamp, RunOf
    <3>2. /\ item' \in Items /\ contract' \in Contracts /\ runs > 0
          /\ UNCHANGED <<overdue, runs, sent>>
      BY <1>0a, <1>0b, <1>5, <2>1 DEF Hold, Stamp
    <3>q. QED  BY <3>1, <3>2
  <2>2. CASE Ends("failed") /\ UNCHANGED contract
    BY <1>0, <1>0a, <1>5, <2>2 DEF Hold, Ends
  <2>q. QED  BY <1>5, <2>1, <2>2 DEF Hold
<1>6. CASE ProjectDeferred
  <2>1. run' \in RunOf /\ run'.pc = "defer"
    BY <1>6 DEF ProjectDeferred, RunOf
  <2>q. QED  BY <1>0b, <1>6, <2>1 DEF ProjectDeferred
<1>7. CASE Defer
  BY <1>0, <1>0a, <1>7 DEF Defer
<1>8. CASE Prepare
  <2>1. UNCHANGED <<overdue, runs, sent>> /\ runs > 0
    BY <1>8 DEF Prepare
  <2>2. CASE Ends("failed")
    <3>1. contract' \in {contract, [contract EXCEPT !.state = "expired"]}
      BY <1>0, <1>8, <2>2 DEF Prepare, Ends
    <3>q. QED  BY <1>0, <1>0a, <1>0b, <2>1, <2>2, <3>1 DEF Ends
  <2>3. CASE contract.state \in {"pending", "deferred"} /\ UNCHANGED <<item, contract>>
             /\ \E ok \in BOOLEAN :
                  run' = IF ok THEN [run EXCEPT !.pc = "commit", !.seen = contract.state]
                         ELSE [run EXCEPT !.pc = "check"]
    <3>1. run' \in RunOf /\ run'.pc # "record"
      BY <2>3, ZenonT(60) DEF RunOf
    <3>q. QED  BY <2>1, <2>3, <3>1
  <2>q. QED  BY <1>8, <2>2, <2>3 DEF Prepare
<1>9. CASE Commit
  <2>1. run' \in RunOf /\ run'.pc = "check"
    BY <1>9 DEF Commit, RunOf
  <2>q. QED  BY <1>0b, <1>9, <2>1 DEF Commit
<1>10. CASE Check
  <2>1. UNCHANGED <<overdue, runs, sent>> /\ runs > 0
    BY <1>10 DEF Check
  <2>2. CASE run' = [run EXCEPT !.pc = "send"] /\ UNCHANGED <<item, contract>>
    <3>1. run' \in RunOf /\ run'.pc = "send"
      BY <2>2 DEF RunOf
    <3>q. QED  BY <2>1, <2>2, <3>1
  <2>3. CASE Ends("failed") /\ contract' \in {contract, [contract EXCEPT !.state = "failed"]}
    BY <1>0, <1>0a, <1>0b, <2>1, <2>3 DEF Ends
  <2>q. QED  BY <1>10, <2>2, <2>3 DEF Check
<1>11. CASE Send
  <2>1. PICK placed \in BOOLEAN, answer \in {"yes", "no", "lost"} :
          /\ run' = [run EXCEPT !.pc = "record", !.answer = answer]
          /\ sent' = IF placed THEN sent \cup {runs} ELSE sent
          /\ UNCHANGED <<item, contract, overdue, runs>>
    BY <1>11 DEF Send
  <2>2. run' \in RunOf /\ run'.answer # "none"
    BY <2>1 DEF RunOf
  <2>3. runs \in 1..MaxRuns
    BY <1>11 DEF Send
  <2>q. QED  BY <2>1, <2>2, <2>3
<1>12. CASE Record
  <2>1. ItemStatuses(run.answer) \subseteq {"submitted", "failed", "unknown"}
    BY <1>12 DEF Record, ItemStatuses, RunOf
  <2>2. /\ run' = Idle
        /\ \E status \in ItemStatuses(run.answer) : item' = [item EXCEPT !.status = status]
        /\ UNCHANGED <<overdue, runs, sent>>
        /\ \E s \in {"submitting", "verified", "submit_unknown"} :
             contract' \in {contract, [contract EXCEPT !.state = s]}
    BY <1>12 DEF Record, Ends
  <2>q. QED  BY <1>0, <1>0a, <1>0b, <2>1, <2>2
<1>13. CASE Reconcilers
  BY <1>0a, <1>0b, <1>13
  DEF Reconcilers, Expire, Release, ExpireContract, DelayElapses, DeadlinePasses
<1>q. QED
  BY <1>1, <1>2, <1>3, <1>4, <1>5, <1>6, <1>7, <1>8, <1>9, <1>10, <1>11, <1>12, <1>13
  DEF Next, Run, Reconcilers

---------------------------------------------------------------------------
(* The theorems.                                                           *)

IInv == StreamInv /\ EntryInv

\* The invariant at the start ...
LEMMA InitHolds == Init => IInv
<1>. SUFFICES ASSUME Init PROVE IInv
  OBVIOUS
<1>. USE DEF Init, StreamInit, Fresh
<1>1. StreamTypes
  BY DEF StreamTypes
<1>2. Places /\ InOrder /\ RowsReach /\ SeesAll /\ ToBeFiled
  BY DEF Places, Subscribed, Reading, InOrder, RowsReach, Reaches, SeesAll, SeenWhole, ToBeFiled
<1>3. item \in Items /\ contract \in Contracts /\ run \in RunOf /\ run.pc = "idle"
  BY DEF Idle, Items, Contracts, RunOf
<1>4. overdue \in BOOLEAN /\ sent \subseteq 1..MaxRuns
  OBVIOUS
<1>4a. runs \in 0..MaxRuns
  BY EntryAssumption
<1>5. EntryInv
  BY <1>3, <1>4, <1>4a DEF EntryInv, EntryTypes, Answered
<1>q. QED  BY <1>1, <1>2, <1>5 DEF IInv, StreamInv

\* ... after every step ...
LEMMA NextKeeps == IInv /\ [Next]_vars => IInv'
<1>. SUFFICES ASSUME IInv, [Next]_vars PROVE IInv'
  OBVIOUS
<1>1. CASE UNCHANGED vars
  <2>1. Untouched /\ UNCHANGED <<troubles, item, contract, overdue, run, runs, sent>>
    BY <1>1 DEF vars, streamVars, entryVars, Untouched
  <2>2. StreamInv'
    BY <2>1, UntouchedKeeps DEF IInv, StreamInv, StreamTypes
  <2>3. EntryInv'
    BY <2>1 DEF IInv, EntryInv, EntryTypes, Answered
  <2>q. QED  BY <2>2, <2>3 DEF IInv
<1>2. CASE Next
  <2>1. EntryInv'
    BY <1>2, EntryKeeps DEF IInv
  <2>2. StreamInv'
    <3>1. CASE StreamStep
      BY <3>1, ReaderKeeps, ExchangeKeeps DEF StreamStep, IInv
    <3>2. CASE Crash
      BY <3>2, KillKeeps DEF Crash, IInv
    <3>3. CASE Others
      BY <3>3, ChangeKeeps DEF Others, IInv
    <3>4. CASE Send
      <4>1. CASE Change
        BY <3>4, <4>1, ChangeKeeps DEF Send, IInv
      <4>2. CASE UNCHANGED <<world, wire, excused>>
        <5>1. Untouched /\ troubles' = troubles
          BY <3>4, <4>2 DEF Send, Untouched, exVars
        <5>q. QED  BY <5>1, UntouchedKeeps DEF IInv, StreamInv, StreamTypes
      <4>q. QED  BY <3>4, <4>1, <4>2 DEF Send
    <3>5. CASE Claim \/ Admit \/ Hold \/ ProjectDeferred \/ Defer \/ Prepare
               \/ Commit \/ Check \/ Record \/ Reconcilers
      BY <3>5, EntryLeaves, UntouchedKeeps DEF IInv
    <3>q. QED  BY <1>2, <3>1, <3>2, <3>3, <3>4, <3>5 DEF Next, Run, Reconcilers
  <2>q. QED  BY <2>1, <2>2 DEF IInv
<1>q. QED  BY <1>1, <1>2

\* ... and in every state.
LEMMA AlwaysIInv == Spec => []IInv
  BY InitHolds, NextKeeps, PTL DEF Spec

\* Every state of the stream and of the entry is well formed.
THEOREM WellTyped == Spec => []TypeOK
<1>1. IInv => TypeOK
  BY DEF IInv, StreamInv, EntryInv, EntryTypes, TypeOK, Items, Contracts, RunOf
<1>q. QED  BY <1>1, AlwaysIInv, PTL

\* When the stream vouches (PermitsNewEntry) and its socket is up, every change
\* of the account was in the second snapshot or has been pushed to it.
THEOREM VouchedWasSeen == Spec => []VouchedIsSeen
<1>1. IInv => VouchedIsSeen
  BY DEF IInv, StreamInv, SeesAll, SeenWhole, VouchedIsSeen, PermitsNewEntry
<1>q. QED  BY <1>1, AlwaysIInv, PTL

\* ... and a change that was never persisted lies in a gap row, or the row for it
\* is still to be written.
THEOREM ChangesAccounted == Spec => []Accounted
<1>1. IInv => GapsOnRecord
  <2>. SUFFICES ASSUME IInv, NEW e \in 1..world, e \notin OnItsWay, ~Filed(e)
                PROVE  (mem.state # "healthy" \/ sock = "closed") /\ \A f \in inbox : f < e
    BY DEF GapsOnRecord
  <2>1. \/ mem.state # "healthy" /\ After(e, inbox)
        \/ sock = "closed" /\ After(e, inbox \cup wire \cup {mem.frame})
    BY DEF IInv, StreamInv, ToBeFiled
  <2>q. QED  BY <2>1 DEF After
<1>2. IInv => VouchedIsSeen
  BY DEF IInv, StreamInv, SeesAll, SeenWhole, VouchedIsSeen, PermitsNewEntry
<1>3. IInv => Accounted
  BY <1>1, <1>2 DEF Accounted
<1>q. QED  BY <1>3, AlwaysIInv, PTL
---------------------------------------------------------------------------
(* The promise of FiledCall.                                               *)

\* The item and the order, as the runs go: only the last run can have an order,
\* and not if its item waits or has expired.
OrderInv ==
  /\ run.pc # "idle" => item.status = "executing" /\ item.reason = "none"
  /\ item.reason = "expired" => item.status = "failed"
  /\ sent \subseteq {runs}
  /\ runs \in sent => ~Back /\ run.pc \in {"idle", "record"}
  /\ item.status = "submitted" => runs \in sent
  /\ run.pc = "record" /\ run.answer = "yes" => runs \in sent

\* What a step may do to the item, the run and the order.
Early == {"gate", "project", "defer", "prepare", "commit", "check"}
Status(s) == item.status = s
SameItem == item'.status = item.status /\ item'.reason = item.reason
Aside == SameItem /\ UNCHANGED <<run, runs, sent>>
Begins ==
  /\ Status("pending") /\ run.pc = "idle" /\ runs < MaxRuns
  /\ Status("executing")' /\ item'.reason = item.reason
  /\ run'.pc \in Early /\ runs' = runs + 1 /\ sent' = sent
GoesOn ==
  /\ run.pc \in Early /\ run'.pc \in Early \cup {"send"}
  /\ SameItem /\ UNCHANGED <<runs, sent>>
GivesUp ==
  /\ run.pc \in Early \/ Status("pending")
  /\ run'.pc = "idle" /\ item'.status \in {"failed", "pending"} /\ (Back => Back')
  /\ item'.reason = "expired" => item'.status = "failed"
  /\ UNCHANGED <<runs, sent>>
Stops == run'.pc = "idle" /\ SameItem /\ UNCHANGED <<runs, sent>>
Sends ==
  /\ run.pc = "send" /\ run'.pc = "record" /\ SameItem /\ runs' = runs
  /\ sent' \in {sent, sent \cup {runs}}
  /\ run'.answer = "yes" => runs \in sent'
Records ==
  /\ run.pc = "record" /\ run'.pc = "idle" /\ UNCHANGED <<runs, sent>>
  /\ item'.status \in ItemStatuses(run.answer) /\ item'.reason = item.reason

LEMMA OrderStep ==
  ASSUME IInv, OrderInv, [Next]_vars
  PROVE  Aside \/ Begins \/ GoesOn \/ GivesUp \/ Stops \/ Sends \/ Records
<1>. USE DEF IInv, EntryInv, EntryTypes, SameItem
<1>1. CASE StreamStep \/ Others \/ Release \/ ExpireContract \/ DelayElapses \/ DeadlinePasses
           \/ UNCHANGED vars
  BY <1>1 DEF StreamStep, Others, Release, ExpireContract, DelayElapses, DeadlinePasses,
              entryVars, vars, Aside, Items
<1>2. CASE Crash
  BY <1>2 DEF Crash, Stops, Idle
<1>3. CASE Claim
  BY <1>3 DEF Claim, Idle, Begins, Early, Status, Items
<1>4. CASE Admit \/ ProjectDeferred \/ Commit
  BY <1>4 DEF Admit, ProjectDeferred, Commit, GoesOn, Early, RunOf
<1>5. CASE Hold
  BY <1>5 DEF Hold, Stamp, Ends, Idle, GoesOn, GivesUp, Early, RunOf, Items, OrderInv, Back
<1>6. CASE Defer
  BY <1>6 DEF Defer, Expired, Idle, GivesUp, Stops, Early, Items, OrderInv, Back
<1>7. CASE Prepare
  <2>1. UNCHANGED <<runs, sent>> /\ run.pc = "prepare"
    BY <1>7 DEF Prepare
  <2>2. CASE Ends("failed")
    BY <2>1, <2>2 DEF Ends, Idle, GivesUp, Early, Items, OrderInv, Back
  <2>3. CASE item' = item /\ \E ok \in BOOLEAN :
                 run' = IF ok THEN [run EXCEPT !.pc = "commit", !.seen = contract.state]
                        ELSE [run EXCEPT !.pc = "check"]
    BY <2>1, <2>3 DEF GoesOn, Early, RunOf
  <2>. QED BY <1>7, <2>2, <2>3 DEF Prepare
<1>8. CASE Check
  BY <1>8 DEF Check, Ends, Idle, GoesOn, GivesUp, Early, RunOf, Items, OrderInv, Back
<1>9. CASE Send
  BY <1>9 DEF Send, Sends, RunOf
<1>10. CASE Record
  BY <1>10 DEF Record, Ends, Idle, Records, RunOf, Items
<1>11. CASE Expire
  <2>1. run.pc = "idle" /\ Status("pending")
    BY <1>11 DEF Expire, Held, OrderInv, Status
  <2>. QED BY <1>11, <2>1 DEF Expire, Expired, GivesUp, Back, Status, Items
<1>. QED
  BY <1>1, <1>2, <1>3, <1>4, <1>5, <1>6, <1>7, <1>8, <1>9, <1>10, <1>11 DEF Next, Run

LEMMA OrderKept == IInv /\ OrderInv /\ [Next]_vars => OrderInv'
<1>. SUFFICES ASSUME IInv, OrderInv, [Next]_vars PROVE OrderInv'
  OBVIOUS
<1>0. /\ run.pc \in Early \cup {"idle", "send", "record"}
      /\ run.answer \in {"none", "yes", "no", "lost"}
      /\ run.pc = "record" => run.answer # "none"
      /\ runs \in Nat /\ item.reason \in {"none", "expired"}
  BY DEF IInv, EntryInv, EntryTypes, Answered, RunOf, Items, Early
<1>. USE DEF OrderInv, Back, Early, Status, SameItem
<1>1. CASE Aside
  BY <1>1 DEF Aside
<1>2. CASE Begins
  <2>1. sent = {} /\ sent' = {} /\ item.reason = "none"
    BY <1>2, <1>0 DEF Begins
  <2>2. item'.status = "executing" /\ item'.reason = "none"
    BY <1>2, <2>1 DEF Begins
  <2>. QED BY <1>2, <2>1, <2>2 DEF Begins
<1>3. CASE GoesOn
  BY <1>3 DEF GoesOn
<1>4. CASE GivesUp
  BY <1>4 DEF GivesUp
<1>5. CASE Stops
  BY <1>5 DEF Stops
<1>6. CASE Sends
  BY <1>6 DEF Sends
<1>7. CASE Records
  BY <1>0, <1>7 DEF Records, ItemStatuses
<1>. QED BY <1>1, <1>2, <1>3, <1>4, <1>5, <1>6, <1>7, OrderStep

LEMMA CallsStep ==
  IInv /\ IInv' /\ OrderInv /\ OrderInv' /\ [Next]_vars => [Calls!Next]_(Calls!vars)
<1>. SUFFICES ASSUME IInv, IInv', OrderInv, OrderInv', [Next]_vars
              PROVE  [Calls!Next]_(Calls!vars)
  OBVIOUS
<1>0. /\ run.pc \in Early \cup {"idle", "send", "record"}
      /\ runs \in 0..MaxRuns /\ runs' \in 0..MaxRuns /\ MaxRuns \in Nat
      /\ run.pc # "idle" => runs > 0
      /\ sent \subseteq 1..MaxRuns
  BY EntryAssumption DEF IInv, EntryInv, EntryTypes, Answered, RunOf, Early
<1>. DEFINE Word == /\ UNCHANGED <<runs, sent>> /\ (Back => Back')
                    /\ Status("submitted") => Status("submitted")'
<1>1. CASE Word
  <2>1. Fruitless \subseteq Fruitless' /\ Fruitless' \subseteq (1..MaxRuns) \ sent
    BY <1>0, <1>1 DEF Fruitless, OrderInv
  <2>2. (1..runs') \ Fruitless' = ((1..runs) \ Fruitless) \ Fruitless'
    BY <1>1, <2>1
  <2>3. Calls!Tell
    BY <1>1, <2>1, <2>2 DEF Calls!Tell, OrderInv, Status
  <2>. QED BY <2>3 DEF Calls!Next
<1>2. CASE Begins
  <2>1. /\ runs + 1 \in 1..MaxRuns /\ runs' = runs + 1 /\ sent' = sent
        /\ ~Status("submitted") /\ ~Status("submitted")'
        /\ Back /\ ~Back'
    BY <1>0, <1>2 DEF Begins, Status, Back, OrderInv
  <2>2. Fruitless = 1..runs /\ Fruitless' = 1..runs
    BY <1>0, <2>1 DEF Fruitless
  <2>3. Calls!File(runs + 1)
    BY <1>0, <2>1, <2>2 DEF Calls!File, Status
  <2>. QED BY <2>1, <2>3 DEF Calls!Next
<1>3. CASE Sends
  <2>1. /\ runs \in 1..MaxRuns /\ runs' = runs /\ runs \notin sent
        /\ Status("submitted")' <=> Status("submitted")
        /\ Fruitless' = Fruitless
        /\ runs \notin Fruitless
    BY <1>0, <1>3 DEF Sends, SameItem, OrderInv, Fruitless, Back, Status
  <2>2. CASE sent' = sent
    BY <2>1, <2>2 DEF Calls!vars, Status
  <2>3. CASE sent' = sent \cup {runs}
    <3>0. PICK last \in 1..MaxRuns : last = runs
      BY <2>1
    <3>1. last \in (1..runs) \ Fruitless
      BY <1>0, <2>1, <3>0
    <3>2. [r \in 1..MaxRuns |-> IF r \in sent' THEN 1 ELSE 0]
          = [[r \in 1..MaxRuns |-> IF r \in sent THEN 1 ELSE 0] EXCEPT ![last] = 1]
      BY <1>0, <2>1, <2>3, <3>0
    <3>3. Calls!Call(last)
      BY <1>0, <2>1, <2>3, <3>0, <3>1, <3>2 DEF Calls!Call, Status
    <3>. QED BY <3>3 DEF Calls!Next
  <2>. QED BY <1>3, <2>2, <2>3 DEF Sends
<1>4. CASE Aside \/ GoesOn \/ Stops
  BY <1>1, <1>4 DEF Aside, GoesOn, Stops, SameItem, Back, Status
<1>5. CASE GivesUp \/ Records
  <2>1. Word
    BY <1>5 DEF GivesUp, Records, OrderInv, Back, Status, Early
  <2>. QED BY <1>1, <2>1
<1>. QED BY <1>2, <1>3, <1>4, <1>5, OrderStep

\* Each run of an entry calls for its order only while its item is on record as
\* executing.  Once the item is put back to be run again, or has expired, there is
\* no order of any run so far and none will come; a submitted item has the order of
\* its last run; neither word is ever taken back.
THEOREM EntryKeepsPromise == Spec => CallsFiled
<1>1. Init => Calls!Init /\ OrderInv
  <2>. SUFFICES ASSUME Init PROVE Calls!Init /\ OrderInv
    OBVIOUS
  <2>1. /\ item.status = "pending" /\ item.reason = "none" /\ run.pc = "idle"
        /\ runs = 0 /\ sent = {}
    BY DEF Init, Idle
  <2>. QED BY <2>1 DEF Calls!Init, OrderInv, Fruitless
<1>2. Spec => []OrderInv
  BY <1>1, AlwaysIInv, OrderKept, PTL DEF Spec
<1>. QED BY <1>1, <1>2, CallsStep, AlwaysIInv, PTL DEF Spec, CallsFiled, Calls!Spec

\* The same calls, with what is proved of FiledCall.
Books == INSTANCE FiledCallProofs WITH
  Ids <- 1..MaxRuns, filed <- (1..runs) \ Fruitless,
  calls <- [r \in 1..MaxRuns |-> IF r \in sent THEN 1 ELSE 0],
  effects <- sent,
  done <- (IF item.status = "submitted" THEN {runs} ELSE {}),
  denied <- Fruitless

\* What the entry's promise comes to: an order exists only of the last run of an
\* item that neither waits nor expired, and of a submitted one it does.
THEOREM EntryBooks == Spec => []Calls!BooksTrue
<1>1. Books!Init <=> Calls!Init
  BY DEF Books!Init, Calls!Init
<1>2. [Books!Next]_(Books!vars) <=> [Calls!Next]_(Calls!vars)
  BY DEF Books!Next, Books!File, Books!Call, Books!TakeEffect, Books!Tell, Books!vars,
         Calls!Next, Calls!File, Calls!Call, Calls!TakeEffect, Calls!Tell, Calls!vars
<1>3. Books!BooksTrue <=> Calls!BooksTrue
  BY DEF Books!BooksTrue, Calls!BooksTrue
<1>. QED
  BY <1>1, <1>2, <1>3, EntryKeepsPromise, Books!BooksAreTrue, PTL DEF CallsFiled, Calls!Spec, Books!Spec
=============================================================================

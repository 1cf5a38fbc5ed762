---------------------------- MODULE PrivateStream ----------------------------
(* The worker's reader of Deepcoin's private stream.  It connects, takes a    *)
(* REST snapshot on each side of the subscription, reads frames into the      *)
(* inbox, compares snapshots when the stream is silent and files every        *)
(* interruption as a gap row.  Entries are admitted by PermitsNewEntry.       *)
(*                                                                            *)
(* The exchange numbers the changes of the account 1, 2, ... and pushes each  *)
(* once.  Every step that reads or writes something may fail (Trial).  This   *)
(* module has the reader and its surroundings; EntryAdmission adds the entry  *)
(* that waits for it, and the specification.                                  *)
EXTENDS Integers, Sequences

CONSTANT
  MaxTroubles   \* bound: failed reads and writes, closed or silenced sockets,
                \* expired keys, process deaths, all together

ASSUME StreamAssumption == MaxTroubles \in Nat

VARIABLES
  world,     \* changes of the account so far
  sock,      \* the connection, as the exchange sees it
  wire,      \* changes pushed and not yet received
  inbox,     \* deepcoin_ws_events: changes persisted
  gaps,      \* deepcoin_ws_connection_gaps: the change received last, whether
             \* the row is open, and how far the closed one reaches
  mem,       \* memory of the reader (Fresh)
  snapshot,  \* the account as this connection's second snapshot had it, 0 if
             \* there is none
  excused,   \* history: changes and rows that a fault, or a subscription that
             \* carries nothing, put beyond the reader
  troubles   \* what counts for MaxTroubles

dbVars == <<inbox, gaps>>
exVars == <<world, sock, wire>>
streamVars == <<exVars, dbVars, mem, snapshot, excused, troubles>>

Fresh == [pc |-> "off",           \* where run_forever is
          state |-> "connecting", \* of the state machine
          converged |-> FALSE,    \* last_resync_outcome
          gap |-> 0,              \* open_gap_id
          last |-> 0,             \* last_event_id
          whole |-> FALSE,        \* no read of this resync failed
          frame |-> 0,            \* received and not yet persisted
          base |-> -1,            \* silence_baseline_fingerprint, -1 for None
          stale |-> FALSE]        \* silence_baseline_stale

StreamInit ==
  /\ world = 0 /\ sock = "none" /\ wire = {} /\ inbox = {} /\ gaps = <<>>
  /\ mem = Fresh /\ snapshot = 0 /\ troubles = 0
  /\ excused = [changes |-> {}, rows |-> {}]

Alive == mem.pc # "off"

\* One read or write, answered or failed.
Trial(ok) ==
  /\ ok \/ troubles < MaxTroubles
  /\ troubles' = IF ok THEN troubles ELSE troubles + 1

Fault == Trial(FALSE)

Covers(row, e) == e > row.last /\ (row.open \/ e <= row.to)
Filed(e) == \E i \in DOMAIN gaps : Covers(gaps[i], e)
OpenRow(i) == gaps[i].open

PermitsNewEntry ==
  /\ mem.state = "healthy" /\ mem.converged
  /\ \A i \in DOMAIN gaps : ~OpenRow(i)

\* latest_event_watermark: frames are persisted in the order they are pushed.
Watermark(w) == w \in inbox \cup {0} /\ \A f \in inbox : f <= w

---------------------------------------------------------------------------
(* The reader.                                                              *)

\* _record_gap_start, unless this process has a row open; m is the memory the
\* step leaves otherwise.
GapStart(m) ==
  \/ /\ mem.gap # 0
     /\ mem' = m
     /\ UNCHANGED <<dbVars, troubles>>
  \/ /\ mem.gap = 0
     /\ \E ok \in BOOLEAN :
          /\ Trial(ok)
          /\ gaps' = IF ok THEN Append(gaps, [last |-> mem.last, open |-> TRUE, to |-> 0])
                     ELSE gaps
          /\ mem' = IF ok THEN [m EXCEPT !.gap = Len(gaps) + 1] ELSE m
     /\ UNCHANGED inbox

Start ==
  /\ mem.pc = "off"
  /\ \E ok \in BOOLEAN, w \in inbox \cup {0} :
       /\ Trial(ok)
       /\ IF ok THEN Watermark(w) ELSE w = 0
       /\ mem' = [Fresh EXCEPT !.pc = "begin", !.last = w]
  /\ UNCHANGED <<exVars, dbVars, snapshot, excused>>

Begin ==
  /\ mem.pc = "begin"
  /\ GapStart([mem EXCEPT !.pc = "dial"])
  /\ UNCHANGED <<exVars, snapshot, excused>>

\* A listen key, then the connection.
Dial ==
  /\ mem.pc = "dial"
  /\ \E ok \in BOOLEAN :
       /\ Trial(ok)
       /\ sock' = IF ok THEN "open" ELSE sock
       /\ mem' = [mem EXCEPT !.pc = IF ok THEN "before" ELSE "down",
                             !.state = IF ok THEN "resyncing" ELSE "connecting"]
  /\ UNCHANGED <<world, wire, dbVars, snapshot, excused>>

SnapshotBefore ==
  /\ mem.pc = "before"
  /\ \E ok \in BOOLEAN :
       /\ Trial(ok)
       /\ mem' = [mem EXCEPT !.pc = "subscribe", !.whole = ok]
  /\ UNCHANGED <<exVars, dbVars, snapshot, excused>>

\* The frame is sent; no acknowledgement is waited for.
Subscribe ==
  /\ mem.pc = "subscribe"
  /\ \E ok \in BOOLEAN :
       /\ ok => sock = "open"
       /\ IF sock = "open" THEN Trial(ok) ELSE UNCHANGED troubles
       /\ sock' = IF ok THEN "asked" ELSE sock
       /\ mem' = IF ok THEN [mem EXCEPT !.pc = "after"]
                 ELSE [mem EXCEPT !.pc = "down", !.converged = FALSE, !.whole = FALSE]
  /\ UNCHANGED <<world, wire, dbVars, snapshot, excused>>

\* Mutant: a failed read counts only in the first snapshot.
FirstOnly(ok) == mem.whole
\* Both snapshots have to be complete.
Complete(ok) == mem.whole /\ ok

SnapshotAfter ==
  /\ mem.pc = "after"
  /\ \E ok \in BOOLEAN :
       /\ Trial(ok)
       /\ mem' = [mem EXCEPT !.pc = "settle", !.whole = Complete(ok)]
       /\ snapshot' = IF ok THEN world ELSE 0
  /\ UNCHANGED <<exVars, dbVars, excused>>

NotConverged ==
  /\ mem.pc = "settle" /\ ~mem.whole
  /\ mem' = [mem EXCEPT !.pc = "down", !.converged = FALSE]
  /\ UNCHANGED <<exVars, dbVars, snapshot, excused, troubles>>

Healthy == [mem EXCEPT !.pc = "baseline", !.state = "healthy", !.converged = TRUE,
                       !.whole = FALSE, !.gap = 0]

\* _record_gap_end forgets the row even when it could not be closed.
Converged ==
  /\ mem.pc = "settle" /\ mem.whole /\ mem.gap # 0
  /\ \E ok \in BOOLEAN :
       /\ Trial(ok)
       /\ gaps' = IF ok THEN [gaps EXCEPT ![mem.gap] = [@ EXCEPT !.open = FALSE, !.to = world]]
                  ELSE gaps
       /\ excused' = IF ok THEN excused ELSE [excused EXCEPT !.rows = @ \cup {mem.gap}]
  /\ mem' = Healthy
  /\ UNCHANGED <<exVars, inbox, snapshot>>

\* The row could not be written when the interruption began, and never will.
ConvergedUnfiled ==
  /\ mem.pc = "settle" /\ mem.whole /\ mem.gap = 0
  /\ excused' = [excused EXCEPT !.changes =
                   @ \cup {e \in 1..world : e \notin inbox \cup wire /\ ~Filed(e)}]
  /\ mem' = Healthy
  /\ UNCHANGED <<exVars, dbVars, snapshot, troubles>>

\* A capture that raises leaves the old `stale` standing.
Baseline ==
  /\ mem.pc = "baseline"
  /\ \E ok \in BOOLEAN, s \in {FALSE, mem.stale} :
       /\ Trial(ok)
       /\ mem' = [mem EXCEPT !.pc = "read", !.base = IF ok THEN world ELSE -1,
                             !.stale = IF ok THEN FALSE ELSE s]
  /\ UNCHANGED <<exVars, dbVars, snapshot, excused>>

Receive ==
  /\ mem.pc = "read"
  /\ \E e \in wire :
       /\ \A f \in wire : e <= f
       /\ mem' = [mem EXCEPT !.pc = "write", !.frame = e, !.stale = TRUE]
       /\ wire' = wire \ {e}
  /\ UNCHANGED <<world, sock, dbVars, snapshot, excused, troubles>>

\* A frame that cannot be persisted is logged and dropped.
Persist ==
  /\ mem.pc = "write"
  /\ \E ok \in BOOLEAN :
       /\ Trial(ok)
       /\ inbox' = IF ok THEN inbox \cup {mem.frame} ELSE inbox
       /\ excused' = IF ok THEN excused ELSE [excused EXCEPT !.changes = @ \cup {mem.frame}]
       /\ mem' = [mem EXCEPT !.pc = "read", !.frame = 0,
                             !.last = IF ok THEN mem.frame ELSE @]
  /\ UNCHANGED <<exVars, gaps, snapshot>>

ReadClosed ==
  /\ mem.pc = "read" /\ sock = "closed" /\ wire = {}
  /\ mem' = [mem EXCEPT !.pc = "down"]
  /\ UNCHANGED <<exVars, dbVars, snapshot, excused, troubles>>

KeyExpires ==
  /\ mem.pc = "read"
  /\ Fault
  /\ mem' = [mem EXCEPT !.pc = "down"]
  /\ UNCHANGED <<exVars, dbVars, snapshot, excused>>

Silence ==
  /\ mem.pc = "read" /\ sock # "closed" /\ wire = {}
  /\ mem' = [mem EXCEPT !.pc = "probe"]
  /\ UNCHANGED <<exVars, dbVars, snapshot, excused, troubles>>

\* Keep the connection if the account is as the baseline has it, or if a frame
\* came since the baseline; the picture read is the next baseline.
ProbeKeeps ==
  /\ mem.pc = "probe" /\ (mem.stale \/ mem.base = world)
  /\ mem' = [mem EXCEPT !.pc = "read", !.base = world, !.stale = FALSE]
  /\ UNCHANGED <<exVars, dbVars, snapshot, excused, troubles>>

ProbeReconnects ==
  /\ mem.pc = "probe"
  /\ \/ ~mem.stale /\ mem.base # world /\ UNCHANGED troubles
     \/ Fault
  /\ mem' = [mem EXCEPT !.pc = "down"]
  /\ UNCHANGED <<exVars, dbVars, snapshot, excused>>

\* Every way out of _run_once: file the gap, disconnect, back off.
Down ==
  /\ mem.pc = "down"
  /\ GapStart([mem EXCEPT !.pc = "dial", !.state = "disconnected"])
  /\ sock' = "none" /\ wire' = {} /\ snapshot' = 0
  /\ UNCHANGED <<world, excused>>

Reader ==
  \/ Start \/ Begin \/ Dial \/ SnapshotBefore \/ Subscribe \/ SnapshotAfter
  \/ NotConverged \/ Converged \/ ConvergedUnfiled \/ Baseline \/ Receive \/ Persist
  \/ ReadClosed \/ KeyExpires \/ Silence \/ ProbeKeeps \/ ProbeReconnects \/ Down

---------------------------------------------------------------------------
(* The surroundings.                                                        *)

Kill ==
  /\ Alive
  /\ Fault
  /\ mem' = Fresh /\ sock' = "none" /\ wire' = {} /\ snapshot' = 0
  /\ excused' = [excused EXCEPT !.rows = @ \cup ({mem.gap} \ {0})]
  /\ UNCHANGED <<world, dbVars>>

TakesEffect ==
  /\ sock = "asked"
  /\ sock' = "live"
  /\ UNCHANGED <<world, wire, dbVars, mem, snapshot, excused, troubles>>

\* The socket stays up and carries nothing more.
RoutingStops ==
  /\ sock = "live"
  /\ Fault
  /\ sock' = "dead"
  /\ UNCHANGED <<world, wire, dbVars, mem, snapshot, excused>>

\* What was pushed last does not arrive.
Closes ==
  /\ sock \in {"open", "asked", "live", "dead"}
  /\ Fault
  /\ sock' = "closed"
  /\ \E k \in wire \cup {0} : wire' = {e \in wire : e <= k}
  /\ UNCHANGED <<world, dbVars, mem, snapshot, excused>>

\* The subscription has not taken effect although the resync has read past it.
Deaf == sock = "dead" \/ (sock = "asked" /\ mem.pc # "after")

\* The account changes: a fill, an order, a position.
Change ==
  /\ world' = world + 1
  /\ wire' = IF sock = "live" THEN wire \cup {world'} ELSE wire
  /\ excused' = IF Deaf THEN [excused EXCEPT !.changes = @ \cup {world'}] ELSE excused

---------------------------------------------------------------------------
(* Properties.                                                              *)

Row == [last : Nat, open : BOOLEAN, to : Nat]
StreamTypes ==
  /\ world \in Nat /\ sock \in {"none", "open", "asked", "live", "dead", "closed"}
  /\ wire \subseteq 1..world /\ inbox \subseteq 1..world
  /\ gaps \in Seq(Row)
  /\ mem \in [pc : {"off", "begin", "dial", "before", "subscribe", "after", "settle",
                    "baseline", "read", "write", "probe", "down"},
              state : {"connecting", "resyncing", "healthy", "disconnected"},
              converged : BOOLEAN, gap : 0..Len(gaps), last : 0..world,
              whole : BOOLEAN, frame : 0..world, base : -1..world, stale : BOOLEAN]
  /\ snapshot \in 0..world
  /\ excused \in [changes : SUBSET (1..world), rows : SUBSET Nat]
  /\ troubles \in Nat

OnItsWay == inbox \cup wire \cup {mem.frame} \cup excused.changes

\* "Whether this process's observation of the exchange is complete": as long as
\* the stream vouches and its socket is up, every change of the account was in
\* the second snapshot or has been pushed to this connection.
VouchedIsSeen ==
  PermitsNewEntry /\ sock # "closed" => \A e \in 1..world : e <= snapshot \/ e \in OnItsWay

\* A disconnect or a restart leaves a record (DeepcoinWsConnectionGap): a change
\* that was never persisted lies in a gap row, or is later than everything
\* persisted and the row for it is still to be written.
GapsOnRecord ==
  \A e \in 1..world :
    \/ e \in OnItsWay \/ Filed(e)
    \/ (mem.state # "healthy" \/ sock = "closed") /\ \A f \in inbox : f < e

Accounted == VouchedIsSeen /\ GapsOnRecord

\* Whatever went wrong, the stream vouches again, unless a gap row was left
\* open by a process that died or could not close it.
StreamRecovers ==
  []<>(PermitsNewEntry \/ \E i \in DOMAIN gaps \cap excused.rows : OpenRow(i))

\* Silence is answered by "did anything change that we would have missed": with
\* a baseline that no frame has outdated, a change that a silenced socket did
\* not push does not go unnoticed for ever.
MissedIsFound ==
  []<>~(/\ PermitsNewEntry /\ mem.pc = "read" /\ sock = "dead" /\ wire = {}
        /\ ~mem.stale /\ mem.base < world)
=============================================================================

----------------------------- MODULE ReplicaRedo -----------------------------
(***************************************************************************)
(* A hot standby: the startup process replays a fixed stretch of WAL while *)
(* a backend reads pages through its prefetch pipeline.                    *)
(*                                                                         *)
(* For every block a record references, redo first asks                    *)
(* neon_redo_read_buffer_filter whether it may skip the block.  The filter *)
(* publishes the record's end as the block's last-written LSN and skips    *)
(* the block when it is not in shared buffers.  A backend that reads a     *)
(* block asks neon_get_request_lsn for the LSN (in recovery: the block's   *)
(* last-written LSN, latest = false).  neon_read_at_lsn then waits until   *)
(* replay has reached that LSN (XLogWaitForReplayOf) and goes through the  *)
(* pipeline of NeonPrefetch, instantiated here in recovery mode.           *)
(*                                                                         *)
(* Record i of Recs ends at LSN i and changes the blocks Recs[i] lists, in *)
(* block_id order.  The page server holds all of this WAL, so the version *)
(* of b at LSN l is the last record <= l that changes b.                   *)
(***************************************************************************)
EXTENDS Integers, Sequences

CONSTANTS
  Blocks,        \* BufferTags (model values)
  NoTag,         \* the zeroed BufferTag
  SharedBlocks,  \* blocks of shared catalogs (rnode.dbNode invalid)
  Recs,          \* the WAL to replay: Recs[i] is the blocks record i changes
  RingSize,      \* readahead_buffer_size
  MaxRing        \* bound on the backend's ring_unused

ASSUME ReplicaAssumption ==
  /\ NoTag \notin Blocks
  /\ SharedBlocks \subseteq Blocks
  /\ Recs \in Seq(Seq(Blocks))
  /\ \A i \in DOMAIN Recs : \A x, y \in DOMAIN Recs[i] : Recs[i][x] = Recs[i][y] => x = y
  /\ RingSize \in Nat \ {0, 1}
  /\ MaxRing \in Nat

VARIABLES
  replayed,  \* lastReplayedEndRecPtr: records 1 .. replayed are applied
  cursor,    \* the startup process inside record replayed + 1
  locked,    \* buffers the startup process holds locked for that record
  buf,       \* buf[b]: "none", "io" (allocated, read in progress), "valid"
  bufPage,   \* bufPage[b]: the page image in b's buffer
  lwlsn,     \* last-written LSN of each block
  bk,        \* the backend's ReadBuffer call in progress
  pst        \* the backend's prefetch pipeline (MyPState)

vars == <<replayed, cursor, locked, buf, bufPage, lwlsn, bk, pst>>

(* The WAL as the page server sees it: the records that change each block. *)
WalOf == [b \in Blocks |-> {i \in DOMAIN Recs : \E x \in DOMAIN Recs[i] : Recs[i][x] = b}]

P == INSTANCE NeonPrefetch WITH
       InitSize <- RingSize, Sizes <- {}, FlushEvery <- 0, Failures <- FALSE,
       RacyPrefetch <- FALSE, MaxLsn <- Len(Recs), Recovery <- TRUE,
       reading <- [blk |-> NoTag, lsn |-> 0],
       resident <- [b \in Blocks |-> buf[b] # "none"],
       wal <- WalOf, insertLsn <- 1, checked <- NoTag

Max2(a, b) == IF a > b THEN a ELSE b

(* The record being replayed, and the block its next filter call is for. *)
Cur == replayed + 1
CurBlock == Recs[Cur][cursor.j]

Init ==
  /\ replayed = 0
  /\ cursor = [j |-> 1, redo |-> FALSE]
  /\ locked = {}
  /\ buf = [b \in Blocks |-> "none"]
  /\ bufPage = [b \in Blocks |-> P!NoPage]
  /\ lwlsn = [b \in Blocks |-> 0]
  /\ bk = [pc |-> "idle", blk |-> NoTag, lsn |-> 0]
  /\ pst = P!InitPState

-----------------------------------------------------------------------------
(* The startup process. *)

(* Mutant: the filter also skips a block whose buffer is being read in. *)
FilterSkipsIO ==
  /\ Cur <= Len(Recs) /\ cursor.j <= Len(Recs[Cur]) /\ ~cursor.redo
  /\ IF CurBlock \in SharedBlocks
     THEN /\ cursor' = [cursor EXCEPT !.redo = TRUE]
          /\ UNCHANGED lwlsn
     ELSE /\ lwlsn' = [lwlsn EXCEPT ![CurBlock] = Max2(@, Cur)]
          /\ cursor' = IF buf[CurBlock] # "valid"
                       THEN [j |-> cursor.j + 1, redo |-> FALSE]
                       ELSE [cursor EXCEPT !.redo = TRUE]
  /\ UNCHANGED <<replayed, locked, buf, bufPage, bk, pst>>

(* neon_redo_read_buffer_filter for the next block of the record: shared   *)
(* catalogs are always redone; otherwise, under the mapping partition      *)
(* lock, the block's last-written LSN is raised to the record's end and    *)
(* the block is skipped when it has no buffer.                             *)
Filter ==
  /\ Cur <= Len(Recs) /\ cursor.j <= Len(Recs[Cur]) /\ ~cursor.redo
  /\ IF CurBlock \in SharedBlocks
     THEN /\ cursor' = [cursor EXCEPT !.redo = TRUE]
          /\ UNCHANGED lwlsn
     ELSE /\ lwlsn' = [lwlsn EXCEPT ![CurBlock] = Max2(@, Cur)]
          /\ cursor' = IF buf[CurBlock] = "none"
                       THEN [j |-> cursor.j + 1, redo |-> FALSE]
                       ELSE [cursor EXCEPT !.redo = TRUE]
  /\ UNCHANGED <<replayed, locked, buf, bufPage, bk, pst>>

(* Mutant: redo does not wait for a read in progress on the block. *)
RedoIgnoresIO ==
  /\ Cur <= Len(Recs) /\ cursor.redo
  /\ buf' = [buf EXCEPT ![CurBlock] = "valid"]
  /\ bufPage' = [bufPage EXCEPT ![CurBlock] = [blk |-> CurBlock, ver |-> Cur]]
  /\ locked' = locked \cup {CurBlock}
  /\ cursor' = [j |-> cursor.j + 1, redo |-> FALSE]
  /\ UNCHANGED <<replayed, lwlsn, bk, pst>>

(* XLogReadBufferForRedo for a block the filter did not skip: wait for a   *)
(* read in progress, read the block if it has no buffer (at its           *)
(* last-written LSN, without waiting for replay), lock it and apply the   *)
(* record unless the page LSN shows it applied already.                    *)
Redo ==
  /\ Cur <= Len(Recs) /\ cursor.redo
  /\ buf[CurBlock] # "io"
  /\ buf' = [buf EXCEPT ![CurBlock] = "valid"]
  /\ bufPage' = [bufPage EXCEPT ![CurBlock] = [blk |-> CurBlock, ver |-> Cur]]
  /\ locked' = locked \cup {CurBlock}
  /\ cursor' = [j |-> cursor.j + 1, redo |-> FALSE]
  /\ UNCHANGED <<replayed, lwlsn, bk, pst>>

(* The record is applied: its buffers are unlocked and                    *)
(* lastReplayedEndRecPtr moves past it.                                    *)
EndRecord ==
  /\ Cur <= Len(Recs) /\ cursor.j > Len(Recs[Cur])
  /\ replayed' = Cur
  /\ locked' = {}
  /\ cursor' = [j |-> 1, redo |-> FALSE]
  /\ UNCHANGED <<buf, bufPage, lwlsn, bk, pst>>

-----------------------------------------------------------------------------
(* A backend on the standby. *)

(* BufferAlloc: a buffer for b enters the mapping table, its read in      *)
(* progress; the partition lock is released before smgrread.               *)
Alloc(b) ==
  /\ bk.pc = "idle" /\ buf[b] = "none"
  /\ buf' = [buf EXCEPT ![b] = "io"]
  /\ bk' = [pc |-> "alloc", blk |-> b, lsn |-> 0]
  /\ UNCHANGED <<replayed, cursor, locked, bufPage, lwlsn, pst>>

(* neon_read: neon_get_request_lsn in recovery returns the block's        *)
(* last-written LSN with latest = false.  nm_adjust_lsn only moves an LSN  *)
(* just past a page header back to the page start, which includes the     *)
(* same records, so on record-end LSNs it changes nothing.                 *)
RequestLsn ==
  /\ bk.pc = "alloc"
  /\ bk' = [bk EXCEPT !.pc = "wait", !.lsn = lwlsn[bk.blk]]
  /\ UNCHANGED <<replayed, cursor, locked, buf, bufPage, lwlsn, pst>>

(* neon_read_at_lsn: XLogWaitForReplayOf(request_lsn), then the pipeline;  *)
(* the page it returns fills the buffer and the read completes.            *)
ReadPage ==
  /\ bk.pc = "wait"
  /\ replayed >= bk.lsn
  /\ pst.unused < MaxRing
  /\ \E o \in P!ReadStartOutcomes(pst, bk.blk, bk.lsn) :
        /\ pst' = o.st
        /\ IF o.done
           THEN /\ buf' = [buf EXCEPT ![bk.blk] = "valid"]
                /\ bufPage' = [bufPage EXCEPT ![bk.blk] = o.page]
                /\ bk' = [pc |-> "idle", blk |-> NoTag, lsn |-> 0]
           ELSE /\ bk' = [bk EXCEPT !.pc = "hung"]
                /\ UNCHANGED <<buf, bufPage>>
  /\ UNCHANGED <<replayed, cursor, locked, lwlsn>>

(* PrefetchSharedBuffer finds b absent and calls neon_prefetch.           *)
Prefetch(b) ==
  /\ bk.pc = "idle" /\ buf[b] = "none"
  /\ pst.unused < MaxRing
  /\ \E x \in P!Register(pst, b, P!NoForce) : pst' = x.st
  /\ UNCHANGED <<replayed, cursor, locked, buf, bufPage, lwlsn, bk>>

(* A clean or dirty unlocked buffer is evicted.  neon_write ->            *)
(* neon_wallog_page returns at once in recovery (!XLogInsertAllowed), so   *)
(* no last-written LSN is published.                                       *)
Evict(b) ==
  /\ buf[b] = "valid" /\ b \notin locked
  /\ buf' = [buf EXCEPT ![b] = "none"]
  /\ UNCHANGED <<replayed, cursor, locked, bufPage, lwlsn, bk, pst>>

Next ==
  \/ Filter \/ Redo \/ EndRecord
  \/ \E b \in Blocks : Alloc(b) \/ Prefetch(b) \/ Evict(b)
  \/ RequestLsn \/ ReadPage

Spec == Init /\ [][Next]_vars

-----------------------------------------------------------------------------
(* Properties *)

TypeOK ==
  /\ replayed \in 0 .. Len(Recs)
  /\ cursor \in [j : Nat \ {0}, redo : BOOLEAN]
  /\ locked \subseteq Blocks
  /\ buf \in [Blocks -> {"none", "io", "valid"}]
  /\ bufPage \in [Blocks -> P!Page]
  /\ lwlsn \in [Blocks -> 0 .. Len(Recs)]
  /\ bk \in [pc : {"idle", "alloc", "wait", "hung"}, blk : Blocks \cup {NoTag},
             lsn : 0 .. Len(Recs)]

(* Standby reads see exactly the replayed state: every buffer the startup *)
(* process is not modifying holds its block's page as of                  *)
(* lastReplayedEndRecPtr, neither older (a change redo skipped, or a      *)
(* stale prefetch) nor newer (a record not yet replayed).  This is what   *)
(* the filter's last-written-LSN update and XLogWaitForReplayOf in        *)
(* neon_read_at_lsn are for.                                               *)
ReplicaFresh ==
  \A b \in Blocks :
    buf[b] = "valid" /\ b \notin locked => bufPage[b] = P!VersionAt(b, replayed)

(* A read waiting in XLogWaitForReplayOf asks for an LSN no older than    *)
(* any replayed change of its block (shared catalogs aside): the filter   *)
(* published the change before the read took its request LSN, or redo    *)
(* could not get past the block, whose buffer the read holds in I/O.      *)
(* So the LSN the read waits for and then sends to the page server        *)
(* already includes every change the standby has replayed to the block.   *)
ReadLsnCovers ==
  bk.pc = "wait" /\ bk.blk \notin SharedBlocks =>
    \A i \in 1 .. replayed : \A x \in DOMAIN Recs[i] :
      Recs[i][x] = bk.blk => bk.lsn >= i

(* No wait cycle between redo and a reader: the startup process never     *)
(* waits for a backend's read of the block it must redo while that read   *)
(* waits in XLogWaitForReplayOf for this very record (the comment in      *)
(* neon_read_at_lsn says such reads never ask for an LSN that large).      *)
NoRedoReadCycle ==
  ~ /\ Cur <= Len(Recs) /\ cursor.redo
    /\ buf[CurBlock] = "io"
    /\ bk.pc = "wait" /\ bk.blk = CurBlock
    /\ bk.lsn >= Cur

=============================================================================

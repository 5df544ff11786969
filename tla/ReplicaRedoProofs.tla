-------------------------- MODULE ReplicaRedoProofs --------------------------
(***************************************************************************)
(* The last-written-LSN protocol of a standby, for every WAL, every set of *)
(* blocks and shared catalogs and every ring size: the redo filter raises  *)
(* the last-written LSN of every block of a replayed record to at least   *)
(* the record's end (except for shared catalogs), and never beyond the     *)
(* record being replayed, so a reader waits in XLogWaitForReplayOf for at  *)
(* most the current record, for an LSN that includes every replayed       *)
(* change of its block.  None of this depends on the prefetch pipeline,   *)
(* whose steps leave replay, the cache and the read's buffer alone.        *)
(***************************************************************************)
EXTENDS ReplicaRedo, TLAPS

PCs == {"idle", "alloc", "wait", "hung"}

(* The part of the type invariant the argument needs: replay, the filter's *)
(* cursor inside the current record, the cache and the backend's request.  *)
ReplayTypeOK ==
  /\ replayed \in 0 .. Len(Recs)
  /\ cursor \in [j : Nat \ {0}, redo : BOOLEAN]
  /\ Cur <= Len(Recs) => /\ cursor.j <= Len(Recs[Cur]) + 1
                         /\ cursor.redo => cursor.j <= Len(Recs[Cur])
  /\ lwlsn \in [Blocks -> Nat]
  /\ bk \in [pc : PCs, blk : Blocks \cup {NoTag}, lsn : Nat]
  /\ bk.pc = "alloc" => bk.blk \in Blocks

(* Every block of every replayed record, except blocks of shared          *)
(* catalogs (which the filter returns for before the update), has a       *)
(* last-written LSN at least the end of that record, whether redo applied  *)
(* it or skipped it.                                                        *)
FilterCoversReplayed ==
  \A i \in 1 .. replayed : \A x \in DOMAIN Recs[i] :
    Recs[i][x] \notin SharedBlocks => lwlsn[Recs[i][x]] >= i

(* Block x of the current record has been through the filter. *)
Filtered(x) == x < cursor.j \/ (x = cursor.j /\ cursor.redo)

(* The blocks of the current record the filter has passed are covered     *)
(* already, before the record ends.                                        *)
CurrentCovered ==
  Cur <= Len(Recs) =>
    \A x \in DOMAIN Recs[Cur] :
      Filtered(x) /\ Recs[Cur][x] \notin SharedBlocks => lwlsn[Recs[Cur][x]] >= Cur

(* No last-written LSN is beyond the record being replayed. *)
LwlsnBelowCur == \A b \in Blocks : lwlsn[b] <= Cur

(* A read waiting in XLogWaitForReplayOf waits for at most the record     *)
(* being replayed: when that record ends, the read can go on, unless redo *)
(* of that very record waits for it (the cycle NoRedoReadCycle forbids).  *)
ReadWaitBounded == bk.pc = "wait" => bk.lsn <= replayed + 1

IInv ==
  /\ ReplayTypeOK
  /\ FilterCoversReplayed
  /\ CurrentCovered
  /\ LwlsnBelowCur
  /\ bk.lsn <= Cur

(* The buffer states of the mapping table. *)
BufOK == buf \in [Blocks -> {"none", "io", "valid"}]

(* A read between BufferAlloc and the end of smgrread holds its block's   *)
(* buffer in I/O, so the filter does not skip the block and redo of it    *)
(* waits for the read.                                                     *)
BufIO == bk.pc \in {"alloc", "wait"} => buf[bk.blk] = "io"

(* The blocks of the current record that redo has got past are covered by *)
(* the request LSN of a read waiting for them.                             *)
CurrentReadCovers ==
  bk.pc = "wait" /\ bk.blk \notin SharedBlocks /\ Cur <= Len(Recs) =>
    \A x \in DOMAIN Recs[Cur] : x < cursor.j /\ Recs[Cur][x] = bk.blk => bk.lsn >= Cur

ReadInv == BufOK /\ BufIO /\ CurrentReadCovers /\ ReadLsnCovers

-----------------------------------------------------------------------------
(* The WAL is a sequence of records, each a sequence of blocks. *)
LEMMA RecsFacts ==
  /\ DOMAIN Recs = 1 .. Len(Recs)
  /\ \A i \in 1 .. Len(Recs) : /\ Recs[i] \in Seq(Blocks)
                               /\ DOMAIN Recs[i] = 1 .. Len(Recs[i])
BY ReplicaAssumption

(* Each entry of a record is a block. *)
LEMMA RecBlock ==
  ASSUME NEW i \in 1 .. Len(Recs), NEW x \in DOMAIN Recs[i]
  PROVE  Recs[i][x] \in Blocks
<1>1. Recs[i] \in Seq(Blocks)
  BY RecsFacts
<1>. QED
  BY <1>1

(* The initial state satisfies the inductive invariant. *)
LEMMA InitIInv == Init => IInv
BY ReplicaAssumption DEF Init, IInv, ReplayTypeOK, PCs, FilterCoversReplayed,
                         CurrentCovered, Filtered, LwlsnBelowCur, Cur

(* The filter, for a shared-catalog block or any other. *)
LEMMA FilterIInv ==
  ASSUME IInv, Filter
  PROVE  IInv'
<1>0. /\ Cur <= Len(Recs) /\ cursor.j <= Len(Recs[Cur]) /\ ~cursor.redo
      /\ UNCHANGED <<replayed, bk>>
  BY DEF Filter
<1>1. CurBlock \in Blocks /\ cursor.j \in DOMAIN Recs[Cur]
  BY <1>0, RecsFacts DEF IInv, ReplayTypeOK, CurBlock, Cur
<1>2. Cur' = Cur
  BY <1>0 DEF Cur
<1>3. CASE CurBlock \in SharedBlocks
  <2>1. cursor' = [cursor EXCEPT !.redo = TRUE] /\ lwlsn' = lwlsn
    BY <1>3 DEF Filter
  <2>2. ReplayTypeOK'
    BY <1>0, <1>2, <2>1 DEF IInv, ReplayTypeOK
  <2>3. CurrentCovered'
    BY <1>0, <1>1, <1>2, <1>3, <2>1 DEF IInv, ReplayTypeOK, CurrentCovered, Filtered, CurBlock
  <2>. QED
    BY <1>0, <1>2, <2>1, <2>2, <2>3
       DEF IInv, FilterCoversReplayed, LwlsnBelowCur
<1>4. CASE CurBlock \notin SharedBlocks
  <2>1. /\ lwlsn' = [lwlsn EXCEPT ![CurBlock] = Max2(@, Cur)]
        /\ cursor' \in {[j |-> cursor.j + 1, redo |-> FALSE], [cursor EXCEPT !.redo = TRUE]}
    BY <1>4 DEF Filter
  <2>2. /\ lwlsn' \in [Blocks -> Nat]
        /\ lwlsn'[CurBlock] >= Cur /\ lwlsn'[CurBlock] <= Cur
        /\ \A b \in Blocks : lwlsn'[b] >= lwlsn[b]
        /\ \A b \in Blocks \ {CurBlock} : lwlsn'[b] = lwlsn[b]
    BY <1>1, <2>1 DEF IInv, ReplayTypeOK, LwlsnBelowCur, Max2, Cur
  <2>3. \A x \in DOMAIN Recs[Cur] : Filtered(x)' => Filtered(x) \/ x = cursor.j
    BY <1>0, <2>1 DEF IInv, ReplayTypeOK, Filtered
  <2>4. ReplayTypeOK'
    <3>1. cursor' \in [j : Nat \ {0}, redo : BOOLEAN]
          /\ (cursor'.j <= Len(Recs[Cur]) + 1)
          /\ (cursor'.redo => cursor'.j <= Len(Recs[Cur]))
      <4>1. CASE cursor' = [j |-> cursor.j + 1, redo |-> FALSE]
        BY <1>0, <4>1 DEF IInv, ReplayTypeOK
      <4>2. CASE cursor' = [cursor EXCEPT !.redo = TRUE]
        BY <1>0, <4>2 DEF IInv, ReplayTypeOK
      <4>. QED
        BY <2>1, <4>1, <4>2
    <3>. QED
      BY <1>0, <1>2, <2>2, <3>1 DEF IInv, ReplayTypeOK
  <2>5. FilterCoversReplayed'
    <3> SUFFICES ASSUME NEW i \in 1 .. replayed, NEW x \in DOMAIN Recs[i],
                        Recs[i][x] \notin SharedBlocks
                 PROVE  lwlsn'[Recs[i][x]] >= i
      BY <1>0 DEF FilterCoversReplayed
    <3>1. Recs[i][x] \in Blocks
      BY RecBlock DEF IInv, ReplayTypeOK
    <3>2. lwlsn[Recs[i][x]] >= i
      BY DEF IInv, FilterCoversReplayed
    <3>. QED
      BY <2>2, <3>1, <3>2 DEF IInv, ReplayTypeOK
  <2>6. CurrentCovered'
    <3> SUFFICES ASSUME NEW x \in DOMAIN Recs[Cur], Filtered(x)',
                        Recs[Cur][x] \notin SharedBlocks
                 PROVE  lwlsn'[Recs[Cur][x]] >= Cur
      BY <1>2 DEF CurrentCovered
    <3>1. Recs[Cur][x] \in Blocks
      <4>1. Cur \in 1 .. Len(Recs)
        BY <1>0 DEF IInv, ReplayTypeOK, Cur
      <4>. QED
        BY <4>1, RecBlock
    <3>2. CASE Recs[Cur][x] = CurBlock
      BY <2>2, <3>2
    <3>3. CASE Recs[Cur][x] # CurBlock
      <4>1. x # cursor.j
        BY <3>3 DEF CurBlock
      <4>2. Filtered(x)
        BY <2>3, <4>1
      <4>. QED
        BY <1>0, <2>2, <3>1, <3>3, <4>2 DEF IInv, CurrentCovered
    <3>. QED
      BY <3>2, <3>3
  <2>7. LwlsnBelowCur'
    BY <1>2, <2>2 DEF IInv, LwlsnBelowCur
  <2>. QED
    BY <1>0, <1>2, <2>4, <2>5, <2>6, <2>7 DEF IInv
<1>. QED
  BY <1>3, <1>4

(* XLogReadBufferForRedo applies the block the filter let through. *)
LEMMA RedoIInv ==
  ASSUME IInv, Redo
  PROVE  IInv'
<1>0. /\ Cur <= Len(Recs) /\ cursor.redo
      /\ cursor' = [j |-> cursor.j + 1, redo |-> FALSE]
      /\ UNCHANGED <<replayed, lwlsn, bk>>
  BY DEF Redo
<1>1. Cur' = Cur
  BY <1>0 DEF Cur
<1>2. \A x \in DOMAIN Recs[Cur] : Filtered(x)' => Filtered(x)
  BY <1>0 DEF IInv, ReplayTypeOK, Filtered
<1>. QED
  BY <1>0, <1>1, <1>2 DEF IInv, ReplayTypeOK, FilterCoversReplayed, CurrentCovered,
                          LwlsnBelowCur

(* The end of a record: every block of it has been through the filter. *)
LEMMA EndRecordIInv ==
  ASSUME IInv, EndRecord
  PROVE  IInv'
<1>0. /\ Cur <= Len(Recs) /\ cursor.j > Len(Recs[Cur])
      /\ replayed' = Cur /\ cursor' = [j |-> 1, redo |-> FALSE]
      /\ UNCHANGED <<lwlsn, bk>>
  BY DEF EndRecord
<1>1. Cur' = Cur + 1 /\ Cur \in 1 .. Len(Recs)
  BY <1>0 DEF IInv, ReplayTypeOK, Cur
<1>2. ReplayTypeOK'
  BY <1>0, <1>1 DEF IInv, ReplayTypeOK
<1>3. FilterCoversReplayed'
  <2> SUFFICES ASSUME NEW i \in 1 .. replayed', NEW x \in DOMAIN Recs[i],
                      Recs[i][x] \notin SharedBlocks
               PROVE  lwlsn'[Recs[i][x]] >= i
    BY DEF FilterCoversReplayed
  <2>1. CASE i = Cur
    <3>1. x \in 1 .. Len(Recs[Cur])
      BY <1>1, <2>1, RecsFacts
    <3>2. Filtered(x)
      BY <1>0, <3>1 DEF IInv, ReplayTypeOK, Filtered
    <3>. QED
      BY <1>0, <2>1, <3>2 DEF IInv, CurrentCovered
  <2>2. CASE i # Cur
    <3>1. i \in 1 .. replayed
      BY <1>0, <1>1, <2>2 DEF IInv, ReplayTypeOK, Cur
    <3>. QED
      BY <1>0, <3>1 DEF IInv, FilterCoversReplayed
  <2>. QED
    BY <2>1, <2>2
<1>4. CurrentCovered'
  <2> SUFFICES ASSUME Cur' <= Len(Recs), NEW x \in DOMAIN Recs[Cur']
               PROVE  ~Filtered(x)'
    BY DEF CurrentCovered
  <2>1. x \in Nat /\ x >= 1
    BY <1>1, RecsFacts
  <2>2. cursor'.j = 1 /\ cursor'.redo = FALSE
    BY <1>0
  <2>3. Filtered(x)' <=> (x < cursor'.j \/ (x = cursor'.j /\ cursor'.redo))
    BY DEF Filtered
  <2>. QED
    BY <2>1, <2>2, <2>3
<1>5. LwlsnBelowCur' /\ bk.lsn' <= Cur'
  BY <1>0, <1>1 DEF IInv, ReplayTypeOK, LwlsnBelowCur
<1>. QED
  BY <1>2, <1>3, <1>4, <1>5 DEF IInv

(* The backend's steps leave replay and the cache alone; the request LSN  *)
(* it takes is a last-written LSN, hence at most the current record.       *)
LEMMA BackendIInv ==
  ASSUME IInv,
         \/ \E b \in Blocks : Alloc(b) \/ Prefetch(b) \/ Evict(b)
         \/ RequestLsn \/ ReadPage
  PROVE  IInv'
<1>0. UNCHANGED <<replayed, cursor, lwlsn>>
  BY DEF Alloc, Prefetch, Evict, RequestLsn, ReadPage
<1>1. Cur' = Cur
  BY <1>0 DEF Cur
<1>2. /\ bk' \in [pc : PCs, blk : Blocks \cup {NoTag}, lsn : Nat]
      /\ bk'.pc = "alloc" => bk'.blk \in Blocks
      /\ bk'.lsn <= Cur
  <2>1. CASE \E b \in Blocks : Alloc(b)
    BY <2>1 DEF Alloc, PCs, Cur, IInv, ReplayTypeOK
  <2>2. CASE \E b \in Blocks : Prefetch(b) \/ Evict(b)
    BY <2>2 DEF Prefetch, Evict, IInv, ReplayTypeOK
  <2>3. CASE RequestLsn
    BY <2>3 DEF RequestLsn, PCs, IInv, ReplayTypeOK, LwlsnBelowCur
  <2>4. CASE ReadPage
    <3>1. bk' = [pc |-> "idle", blk |-> NoTag, lsn |-> 0] \/ bk' = [bk EXCEPT !.pc = "hung"]
      BY <2>4 DEF ReadPage
    <3>. QED
      BY <3>1 DEF PCs, Cur, IInv, ReplayTypeOK
  <2>. QED
    BY <2>1, <2>2, <2>3, <2>4
<1>. QED
  BY <1>0, <1>1, <1>2 DEF IInv, ReplayTypeOK, FilterCoversReplayed, CurrentCovered,
                          Filtered, LwlsnBelowCur

(* Every step preserves the inductive invariant. *)
LEMMA NextIInv == IInv /\ [Next]_vars => IInv'
<1> SUFFICES ASSUME IInv, [Next]_vars PROVE IInv'
  OBVIOUS
<1>1. CASE Filter
  BY <1>1, FilterIInv
<1>2. CASE Redo
  BY <1>2, RedoIInv
<1>3. CASE EndRecord
  BY <1>3, EndRecordIInv
<1>4. CASE \/ \E b \in Blocks : Alloc(b) \/ Prefetch(b) \/ Evict(b)
           \/ RequestLsn \/ ReadPage
  BY <1>4, BackendIInv
<1>5. CASE UNCHANGED vars
  BY <1>5 DEF vars, IInv, ReplayTypeOK, FilterCoversReplayed, CurrentCovered,
              Filtered, LwlsnBelowCur, Cur
<1>. QED
  BY <1>1, <1>2, <1>3, <1>4, <1>5 DEF Next

-----------------------------------------------------------------------------
(* The read side: a waiting read's request LSN covers what is replayed.  *)

LEMMA InitReadInv == Init => ReadInv
BY DEF Init, ReadInv, BufOK, BufIO, CurrentReadCovers, ReadLsnCovers

(* The filter moves past a block only if it skips it, which it does not   *)
(* for the block a read holds in I/O.                                      *)
LEMMA FilterReadInv ==
  ASSUME IInv, ReadInv, Filter
  PROVE  ReadInv'
<1>0. /\ Cur <= Len(Recs) /\ cursor.j <= Len(Recs[Cur]) /\ ~cursor.redo
      /\ UNCHANGED <<replayed, buf, bk>>
  BY DEF Filter
<1>1. Cur' = Cur
  BY <1>0 DEF Cur
<1>2. CurrentReadCovers'
  <2> SUFFICES ASSUME bk.pc = "wait", bk.blk \notin SharedBlocks, Cur <= Len(Recs),
                      NEW x \in DOMAIN Recs[Cur], x < cursor'.j, Recs[Cur][x] = bk.blk
               PROVE  bk.lsn >= Cur
    BY <1>0, <1>1 DEF CurrentReadCovers
  <2>1. buf[bk.blk] = "io"
    BY DEF ReadInv, BufIO
  <2>0. x \in Nat /\ cursor \in [j : Nat \ {0}, redo : BOOLEAN]
    <3>1. Cur \in 1 .. Len(Recs)
      BY <1>0 DEF IInv, ReplayTypeOK, Cur
    <3>. QED
      BY <3>1, RecsFacts DEF IInv, ReplayTypeOK
  <2>2. CASE x < cursor.j
    BY <2>2 DEF ReadInv, CurrentReadCovers
  <2>3. CASE x >= cursor.j
    <3>0. x \in Nat /\ cursor \in [j : Nat \ {0}, redo : BOOLEAN]
      BY <2>0
    <3>1. cursor' \in {[j |-> cursor.j + 1, redo |-> FALSE], [cursor EXCEPT !.redo = TRUE]}
      BY DEF Filter
    <3>2. CASE cursor' = [cursor EXCEPT !.redo = TRUE]
      <4>1. cursor'.j = cursor.j
        BY <3>0, <3>2
      <4>. QED
        BY <2>3, <3>0, <4>1
    <3>3. CASE cursor' = [j |-> cursor.j + 1, redo |-> FALSE]
      <4>1. cursor' # [cursor EXCEPT !.redo = TRUE]
        BY <3>0, <3>3
      <4>2. CurBlock \notin SharedBlocks /\ buf[CurBlock] = "none"
        BY <4>1 DEF Filter
      <4>3. x = cursor.j
        BY <2>3, <3>0, <3>3
      <4>. QED
        BY <2>1, <4>2, <4>3 DEF CurBlock
    <3>. QED
      BY <3>1, <3>2, <3>3
  <2>. QED
    BY <2>0, <2>2, <2>3
<1>. QED
  BY <1>0, <1>2 DEF ReadInv, BufOK, BufIO, ReadLsnCovers

(* Redo of a block waits for a read of it, so it never passes the block   *)
(* of a waiting read.                                                      *)
LEMMA RedoReadInv ==
  ASSUME IInv, ReadInv, Redo
  PROVE  ReadInv'
<1>0. /\ Cur <= Len(Recs) /\ cursor.redo /\ buf[CurBlock] # "io"
      /\ buf' = [buf EXCEPT ![CurBlock] = "valid"]
      /\ cursor' = [j |-> cursor.j + 1, redo |-> FALSE]
      /\ UNCHANGED <<replayed, bk>>
  BY DEF Redo
<1>1. Cur' = Cur
  BY <1>0 DEF Cur
<1>2. bk.pc \in {"alloc", "wait"} => bk.blk # CurBlock
  BY <1>0 DEF ReadInv, BufIO
<1>3. CurBlock \in Blocks
  <2>1. Cur \in 1 .. Len(Recs) /\ cursor.j \in DOMAIN Recs[Cur]
    BY <1>0, RecsFacts DEF IInv, ReplayTypeOK, Cur
  <2>. QED
    BY <2>1, RecBlock DEF CurBlock
<1>4. (BufOK /\ BufIO)'
  BY <1>0, <1>2, <1>3 DEF ReadInv, BufOK, BufIO
<1>5. CurrentReadCovers'
  <2> SUFFICES ASSUME bk.pc = "wait", bk.blk \notin SharedBlocks,
                      NEW x \in DOMAIN Recs[Cur], x < cursor'.j, Recs[Cur][x] = bk.blk
               PROVE  bk.lsn >= Cur
    BY <1>0, <1>1 DEF CurrentReadCovers
  <2>1. x # cursor.j
    BY <1>2 DEF CurBlock
  <2>2. x < cursor.j
    BY <1>0, <2>1 DEF IInv, ReplayTypeOK
  <2>. QED
    BY <1>0, <2>2 DEF ReadInv, CurrentReadCovers
<1>. QED
  BY <1>0, <1>4, <1>5 DEF ReadInv, ReadLsnCovers

(* A record ends only after redo got past all of its blocks. *)
LEMMA EndRecordReadInv ==
  ASSUME IInv, ReadInv, EndRecord
  PROVE  ReadInv'
<1>0. /\ Cur <= Len(Recs) /\ cursor.j > Len(Recs[Cur])
      /\ replayed' = Cur /\ cursor' = [j |-> 1, redo |-> FALSE]
      /\ UNCHANGED <<buf, bk>>
  BY DEF EndRecord
<1>1. Cur' = Cur + 1 /\ Cur \in 1 .. Len(Recs)
  BY <1>0 DEF IInv, ReplayTypeOK, Cur
<1>2. ReadLsnCovers'
  <2> SUFFICES ASSUME bk.pc = "wait", bk.blk \notin SharedBlocks,
                      NEW i \in 1 .. replayed', NEW x \in DOMAIN Recs[i],
                      Recs[i][x] = bk.blk
               PROVE  bk.lsn >= i
    BY <1>0 DEF ReadLsnCovers
  <2>1. CASE i = Cur
    <3>1. x \in 1 .. Len(Recs[Cur])
      BY <1>1, <2>1, RecsFacts
    <3>2. x < cursor.j
      BY <1>0, <3>1 DEF IInv, ReplayTypeOK
    <3>. QED
      BY <1>0, <2>1, <3>2 DEF ReadInv, CurrentReadCovers
  <2>2. CASE i # Cur
    <3>1. i \in 1 .. replayed
      BY <1>0, <1>1, <2>2 DEF IInv, ReplayTypeOK, Cur
    <3>. QED
      BY <3>1 DEF ReadInv, ReadLsnCovers
  <2>. QED
    BY <2>1, <2>2
<1>3. CurrentReadCovers'
  <2> SUFFICES ASSUME Cur' <= Len(Recs), NEW x \in DOMAIN Recs[Cur']
               PROVE  ~(x < cursor'.j)
    BY DEF CurrentReadCovers
  <2>1. x \in Nat /\ x >= 1
    BY <1>1, RecsFacts
  <2>2. cursor'.j = 1
    BY <1>0
  <2>. QED
    BY <2>1, <2>2
<1>. QED
  BY <1>0, <1>2, <1>3 DEF ReadInv, BufOK, BufIO

(* A read takes as request LSN its block's last-written LSN, which covers *)
(* every replayed record and the filtered part of the current one.        *)
LEMMA RequestLsnReadInv ==
  ASSUME IInv, ReadInv, RequestLsn
  PROVE  ReadInv'
<1>0. /\ bk.pc = "alloc" /\ bk' = [bk EXCEPT !.pc = "wait", !.lsn = lwlsn[bk.blk]]
      /\ UNCHANGED <<replayed, cursor, buf, lwlsn>>
  BY DEF RequestLsn
<1>1. bk.blk \in Blocks /\ buf[bk.blk] = "io" /\ Cur' = Cur
  BY <1>0 DEF IInv, ReplayTypeOK, ReadInv, BufIO, Cur
<1>2. bk'.pc = "wait" /\ bk'.blk = bk.blk /\ bk'.lsn = lwlsn[bk.blk]
  BY <1>0, <1>1 DEF IInv, ReplayTypeOK
<1>3. ReadLsnCovers'
  BY <1>0, <1>2 DEF ReadLsnCovers, IInv, FilterCoversReplayed
<1>4. CurrentReadCovers'
  <2> SUFFICES ASSUME bk.blk \notin SharedBlocks, Cur <= Len(Recs),
                      NEW x \in DOMAIN Recs[Cur], x < cursor.j, Recs[Cur][x] = bk.blk
               PROVE  lwlsn[bk.blk] >= Cur
    BY <1>0, <1>1, <1>2 DEF CurrentReadCovers
  <2>1. Filtered(x)
    BY DEF Filtered
  <2>. QED
    BY <2>1 DEF IInv, CurrentCovered
<1>. QED
  BY <1>0, <1>1, <1>2, <1>3, <1>4 DEF ReadInv, BufOK, BufIO

(* The other backend steps start a read, end it, or touch neither replay  *)
(* nor the read in progress.                                               *)
LEMMA OtherReadInv ==
  ASSUME IInv, ReadInv,
         \/ \E b \in Blocks : Alloc(b) \/ Prefetch(b) \/ Evict(b)
         \/ ReadPage
  PROVE  ReadInv'
<1>0. UNCHANGED <<replayed, cursor>>
  BY DEF Alloc, Prefetch, Evict, ReadPage
<1>1. Cur' = Cur
  BY <1>0 DEF Cur
<1>2. CASE \E b \in Blocks : Alloc(b)
  BY <1>0, <1>2 DEF Alloc, ReadInv, BufOK, BufIO, CurrentReadCovers, ReadLsnCovers
<1>3. CASE \E b \in Blocks : Prefetch(b)
  BY <1>0, <1>3 DEF Prefetch, ReadInv, BufOK, BufIO, CurrentReadCovers, ReadLsnCovers, Cur
<1>4. CASE \E b \in Blocks : Evict(b)
  <2> PICK b \in Blocks : Evict(b)
    BY <1>4
  <2>1. bk.pc \in {"alloc", "wait"} => bk.blk # b
    BY DEF Evict, ReadInv, BufIO
  <2>. QED
    BY <1>0, <2>1 DEF Evict, ReadInv, BufOK, BufIO, CurrentReadCovers, ReadLsnCovers, Cur
<1>5. CASE ReadPage
  <2>0. \/ bk' = [pc |-> "idle", blk |-> NoTag, lsn |-> 0]
           /\ buf' = [buf EXCEPT ![bk.blk] = "valid"]
        \/ bk' = [bk EXCEPT !.pc = "hung"] /\ buf' = buf
    BY <1>5 DEF ReadPage
  <2>1. bk'.pc \in {"idle", "hung"}
    BY <2>0 DEF IInv, ReplayTypeOK
  <2>2. BufOK'
    BY <2>0 DEF ReadInv, BufOK
  <2>. QED
    BY <2>1, <2>2 DEF ReadInv, BufIO, CurrentReadCovers, ReadLsnCovers
<1>. QED
  BY <1>2, <1>3, <1>4, <1>5

(* Every step preserves the read-side invariant. *)
LEMMA NextReadInv == IInv /\ ReadInv /\ [Next]_vars => ReadInv'
<1> SUFFICES ASSUME IInv, ReadInv, [Next]_vars PROVE ReadInv'
  OBVIOUS
<1>1. CASE Filter
  BY <1>1, FilterReadInv
<1>2. CASE Redo
  BY <1>2, RedoReadInv
<1>3. CASE EndRecord
  BY <1>3, EndRecordReadInv
<1>4. CASE RequestLsn
  BY <1>4, RequestLsnReadInv
<1>5. CASE \/ \E b \in Blocks : Alloc(b) \/ Prefetch(b) \/ Evict(b)
           \/ ReadPage
  BY <1>5, OtherReadInv
<1>6. CASE UNCHANGED vars
  BY <1>6 DEF vars, ReadInv, BufOK, BufIO, CurrentReadCovers, ReadLsnCovers, Cur
<1>. QED
  BY <1>1, <1>2, <1>3, <1>4, <1>5, <1>6 DEF Next

-----------------------------------------------------------------------------
(* A standby read that waits in XLogWaitForReplayOf (neon_read_at_lsn,    *)
(* line 1888) waits for at most the record being replayed.                *)
THEOREM ReplayWaitBounded == Spec => []ReadWaitBounded
<1>1. IInv => ReadWaitBounded
  BY DEF IInv, ReadWaitBounded, Cur
<1>. QED
  BY <1>1, InitIInv, NextIInv, PTL DEF Spec

(* A standby read waiting in XLogWaitForReplayOf asks, for every WAL, for *)
(* an LSN that includes every replayed change of its block outside the    *)
(* shared catalogs: neon_redo_read_buffer_filter published the change     *)
(* first, or redo is held up by the read's buffer I/O.                     *)
THEOREM ReadsCoverReplay == Spec => []ReadLsnCovers
<1>1. Init => IInv /\ ReadInv
  BY InitIInv, InitReadInv
<1>2. IInv /\ ReadInv /\ [Next]_vars => IInv' /\ ReadInv'
  BY NextIInv, NextReadInv
<1>3. IInv /\ ReadInv => ReadLsnCovers
  BY DEF ReadInv
<1>. QED
  BY <1>1, <1>2, <1>3, PTL DEF Spec

=============================================================================

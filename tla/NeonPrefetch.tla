---------------------------- MODULE NeonPrefetch ----------------------------
(***************************************************************************)
(* The per-backend prefetch pipeline of pagestore_smgr.c (PrefetchState,   *)
(* prefetch_register_buffer, prefetch_wait_for, compaction, disconnect,    *)
(* readahead_buffer_resize) and the two smgr entry points that drive it,   *)
(* neon_prefetch and neon_read / neon_read_at_lsn, together with the       *)
(* environment the pipeline relies on: other backends that load, modify    *)
(* and evict pages, the WAL insert pointer and the last-written-LSN cache. *)
(*                                                                         *)
(* Each C function of the pipeline is an operator from a pipeline state    *)
(* (a record with the fields of MyPState, prefetch_lsn and the connection) *)
(* to the set of states it may return: the transport may fail at every     *)
(* flush, send and receive, and a receive may block forever.  A backend    *)
(* call is one atomic step, since the pipeline is private to the backend   *)
(* and only other backends run in between.                                 *)
(***************************************************************************)
EXTENDS Integers, FiniteSets

CONSTANTS
  Blocks,       \* BufferTags the backend reads (model values)
  NoTag,        \* the zeroed BufferTag of an UNUSED slot
  InitSize,     \* readahead_buffer_size at neon_init
  Sizes,        \* values readahead_buffer_size may be SET to at run time
  FlushEvery,   \* flush_every_n_requests (0: no threshold flush)
  Failures,     \* whether the page-server connection may drop
  RacyPrefetch, \* whether smgrprefetch may be called for a resident page
  MaxRing,      \* bound on ring_unused (the uint64 counters never wrap)
  MaxLsn,       \* bound on the WAL insert pointer
  Recovery      \* RecoveryInProgress(): requests are made with latest = false

ASSUME TagAssumption == NoTag \notin Blocks
ASSUME SizeAssumption == InitSize \in Nat \ {0, 1} /\ Sizes \subseteq Nat \ {0, 1}
ASSUME FlushAssumption == FlushEvery \in Nat
ASSUME FlagAssumption ==
  Failures \in BOOLEAN /\ RacyPrefetch \in BOOLEAN /\ Recovery \in BOOLEAN
ASSUME BoundAssumption == MaxRing \in Nat /\ MaxLsn \in Nat \ {0}

VARIABLES
  pst,        \* MyPState, prefetch_lsn and the page-server connection
  reading,    \* the neon_read_at_lsn call in progress, or NoRead
  resident,   \* resident[b]: b is in shared buffers
  bufPage,    \* bufPage[b]: the page image in its shared buffer
  lwlsn,      \* last-written LSN of each block (SetLastWrittenLSNForBlock)
  wal,        \* wal[b]: LSNs of the WAL records that modified b
  insertLsn,  \* WAL insert pointer
  checked     \* block PrefetchSharedBuffer found absent, smgrprefetch pending

vars == <<pst, reading, resident, bufPage, lwlsn, wal, insertLsn, checked>>

Status == {"UNUSED", "REQUESTED", "RECEIVED", "TAG_REMAINS"}
Lsn == 0 .. MaxLsn

(* A page image: the block it is a version of and the LSN of the last     *)
(* modification it contains (0: the page as created).                     *)
Page == [blk : Blocks \cup {NoTag}, ver : Lsn]
NoPage == [blk |-> NoTag, ver |-> 0]

(* PrefetchRequest.  'sent' is the LSN of the GetPage request written to  *)
(* the connection for this slot and 'page' the response, once received.   *)
EmptySlot == [tag |-> NoTag, status |-> "UNUSED", lsn |-> 0, sent |-> 0,
              page |-> NoPage, idx |-> 0]

NoRead == [blk |-> NoTag, lsn |-> 0]
NoForce == [latest |-> FALSE, lsn |-> -1]
NoHit == [idx |-> -1, pos |-> -1]

(* The page the page server returns for b at lsn: every modification of   *)
(* b up to lsn applied.                                                   *)
VersionAt(b, lsn) ==
  LET older == {x \in wal[b] : x <= lsn}
  IN  [blk |-> b, ver |-> IF older = {} THEN 0
                          ELSE CHOOSE x \in older : \A y \in older : y <= x]
LastVersion(b) == VersionAt(b, MaxLsn)

-----------------------------------------------------------------------------
(* Ring addressing: ring_index k lives in prf_buffer[k % size].            *)
Pos(s, k) == k % s.size
Sl(s, k) == s.ring[k % s.size]

(* The simplehash table prf_hash stores slot pointers with the hash of    *)
(* the tag they had at insertion (SH_STORE_HASH); a lookup compares the   *)
(* stored hash and then the tag the slot holds now (SH_EQUAL).            *)
Lookup(s, t) == {e \in s.hash : e.key = t /\ s.ring[e.slot].tag = t}

(* Mutant: prefetch_set_unused forgets prfh_delete. *)
HashDeleteKeep(s, p) == s

HashDelete(s, p) ==
  LET t == s.ring[p].tag
  IN  [s EXCEPT !.hash = @ \ {e \in @ : e.key = t /\ s.ring[e.slot].tag = t}]

HashInsert(s, p) ==
  IF Lookup(s, s.ring[p].tag) # {} THEN s
  ELSE [s EXCEPT !.hash = @ \cup {[slot |-> p, key |-> s.ring[p].tag]}]

(* ReceiveBufferNeedsCompaction() *)
NeedsCompaction(s) == s.nbuf \div 8 < s.receive - s.last - s.nbuf

(* prefetch_cleanup_trailing_unused: ring_last skips UNUSED slots up to   *)
(* ring_receive.                                                          *)
CleanupTrailing(s) ==
  LET stop == {k \in s.last .. s.receive :
                 k = s.receive \/ Sl(s, k).status # "UNUSED"}
  IN  [s EXCEPT !.last = CHOOSE k \in stop : \A j \in stop : k <= j]

(* compact_prefetch_buffers: below the highest UNUSED slot e of           *)
(* [ring_last, ring_receive), every used slot moves up into the gap,      *)
(* keeping its order, so that the used ones end at e; the hash entries    *)
(* move with them.  Returns whether a slot moved.                         *)
Compact(s) ==
  LET holes == {k \in s.last .. s.receive - 1 : Sl(s, k).status = "UNUSED"}
      e == CHOOSE k \in holes : \A j \in holes : j <= k
      used == {k \in s.last .. e - 1 : Sl(s, k).status # "UNUSED"}
      Dest(k) == e - Cardinality({j \in used : j > k})
      lowest == e - Cardinality(used) + 1
      Content(q) ==
        IF q >= lowest
        THEN LET k == CHOOSE j \in used : Dest(j) = q
             IN  [Sl(s, k) EXCEPT !.idx = q]
        ELSE EmptySlot
      moved == {Sl(s, k).tag : k \in used}
      newRing == [p \in DOMAIN s.ring |->
                    IF \E q \in s.last .. e : Pos(s, q) = p
                    THEN Content(CHOOSE q \in s.last .. e : Pos(s, q) = p)
                    ELSE s.ring[p]]
      s1 == [s EXCEPT
               !.ring = newRing,
               !.hash = {x \in @ : ~(x.key \in moved /\ s.ring[x.slot].tag = x.key)}
                        \cup {[slot |-> Pos(s, Dest(k)), key |-> Sl(s, k).tag] :
                                k \in used}]
  IN  IF holes = {} \/ used = {}
      THEN [moved |-> FALSE, st |-> s]
      ELSE [moved |-> TRUE, st |-> CleanupTrailing(s1)]

(* prefetch_set_unused(ring_index) *)
SetUnused(s, k) ==
  LET p == Pos(s, k)
      sl == s.ring[p]
      rcv == sl.status = "RECEIVED"
      s1 == [HashDelete(s, p) EXCEPT
               !.ring[p] = EmptySlot,
               !.nbuf = IF rcv THEN @ - 1 ELSE @,
               !.nunused = IF rcv THEN @ + 1 ELSE @]
  IN  IF k < s.last \/ sl.status = "UNUSED" THEN s
      ELSE IF s.last = k THEN CleanupTrailing(s1)
      ELSE IF NeedsCompaction(s1) THEN Compact(s1).st
      ELSE s1

(* prefetch_on_ps_disconnect: every REQUESTED slot becomes TAG_REMAINS    *)
(* and is retired at once, oldest first; the connection is new and empty. *)
Disconnect(s) ==
  LET n == s.unused - s.receive
      f[i \in 0 .. n] ==
        IF i = 0 THEN [s EXCEPT !.flush = s.unused, !.unsent = 0]
        ELSE LET t == f[i - 1]
                 k == t.receive
             IN  SetUnused([t EXCEPT !.ring[Pos(t, k)].status = "TAG_REMAINS",
                                     !.ninflight = @ - 1,
                                     !.receive = @ + 1], k)
  IN  f[n]

(* Mutant: prefetch_read does not count the buffered response. *)
ReceiveNNoCount(s, j) ==
  [s EXCEPT
     !.ring = [p \in DOMAIN s.ring |->
                 IF \E k \in s.receive .. s.receive + j - 1 : Pos(s, k) = p
                 THEN [s.ring[p] EXCEPT
                         !.status = "RECEIVED",
                         !.page = VersionAt(s.ring[p].tag, s.ring[p].sent)]
                 ELSE s.ring[p]],
     !.ninflight = @ - j,
     !.receive = @ + j]

(* j calls of prefetch_read: the next j responses arrive, in ring order.  *)
ReceiveN(s, j) ==
  [s EXCEPT
     !.ring = [p \in DOMAIN s.ring |->
                 IF \E k \in s.receive .. s.receive + j - 1 : Pos(s, k) = p
                 THEN [s.ring[p] EXCEPT
                         !.status = "RECEIVED",
                         !.page = VersionAt(s.ring[p].tag, s.ring[p].sent)]
                 ELSE s.ring[p]],
     !.nbuf = @ + j,
     !.ninflight = @ - j,
     !.receive = @ + j]

(* The response to the oldest outstanding request can only arrive if that *)
(* request has left the connection's output buffer.                       *)
Deliverable(s, j) == s.unused - (s.receive + j) > s.unsent

(* page_server->flush(): a failure drops the connection.                  *)
Flush(s) ==
  {[ok |-> TRUE, st |-> [s EXCEPT !.unsent = 0]]}
  \cup (IF Failures THEN {[ok |-> FALSE, st |-> Disconnect(s)]} ELSE {})

(* Mutant: prefetch_wait_for receives ring_index + 1 - ring_receive      *)
(* responses even when ring_index is already received.                   *)
WaitForNoClamp(s, k) ==
  LET flushed ==
        IF s.flush <= k /\ s.unused > s.flush
        THEN {[o EXCEPT !.st.flush = IF o.ok THEN s.unused ELSE @] : o \in Flush(s)}
        ELSE {[ok |-> TRUE, st |-> s]}
      Receive(t) ==
        LET need == k + 1 - t.receive
            blocked == {j \in 0 .. need - 1 : ~Deliverable(t, j)}
            h == IF blocked = {} THEN need
                 ELSE CHOOSE j \in blocked : \A i \in blocked : j <= i
        IN  (IF blocked = {} THEN {[ok |-> TRUE, st |-> ReceiveN(t, need)]}
             ELSE {[ok |-> FALSE, st |-> [ReceiveN(t, h) EXCEPT !.hung = TRUE]]})
            \cup (IF Failures
                  THEN {[ok |-> FALSE, st |-> Disconnect(ReceiveN(t, j))] : j \in 0 .. h - 1}
                  ELSE {})
  IN  UNION {IF o.ok THEN Receive(o.st) ELSE {o} : o \in flushed}

(* prefetch_wait_for(ring_index): flush if the request may still be in    *)
(* the output buffer, then receive until ring_receive > ring_index.  A    *)
(* receive fails by dropping the connection, and blocks forever (hung) if *)
(* the response it waits for was never requested on the wire.             *)
WaitFor(s, k) ==
  LET flushed ==
        IF s.flush <= k /\ s.unused > s.flush
        THEN {[o EXCEPT !.st.flush = IF o.ok THEN s.unused ELSE @] : o \in Flush(s)}
        ELSE {[ok |-> TRUE, st |-> s]}
      Receive(t) ==
        LET need == IF k < t.receive THEN 0 ELSE k + 1 - t.receive
            blocked == {j \in 0 .. need - 1 : ~Deliverable(t, j)}
            h == IF blocked = {} THEN need
                 ELSE CHOOSE j \in blocked : \A i \in blocked : j <= i
        IN  (IF blocked = {} THEN {[ok |-> TRUE, st |-> ReceiveN(t, need)]}
             ELSE {[ok |-> FALSE, st |-> [ReceiveN(t, h) EXCEPT !.hung = TRUE]]})
            \cup (IF Failures
                  THEN {[ok |-> FALSE, st |-> Disconnect(ReceiveN(t, j))] : j \in 0 .. h - 1}
                  ELSE {})
  IN  UNION {IF o.ok THEN Receive(o.st) ELSE {o} : o \in flushed}

(* Retire slot k after waiting for it, as the callers of wait_for do; a   *)
(* hung backend does nothing more.                                        *)
WaitThenSetUnused(s, k, Slot(_)) ==
  {IF o.st.hung THEN o.st ELSE SetUnused(o.st, Slot(o.st)) : o \in WaitFor(s, k)}

(* Mutant: effective_request_lsn is the WAL insert pointer. *)
DoRequestInsertLsn(s, force) ==
  LET k == s.unused
      p == Pos(s, k)
      t == s.ring[p].tag
      forced == force # NoForce
      reqLsn == IF forced THEN force.lsn ELSE lwlsn[t]
      plsn == IF forced THEN s.plsn ELSE IF lwlsn[t] > s.plsn THEN lwlsn[t] ELSE s.plsn
      Send(u) ==
        HashInsert([u EXCEPT
                      !.ring[p].status = "REQUESTED",
                      !.ring[p].lsn = IF forced THEN force.lsn ELSE insertLsn,
                      !.ring[p].sent = reqLsn,
                      !.plsn = plsn,
                      !.unsent = @ + 1,
                      !.ninflight = @ + 1,
                      !.nunused = @ - 1,
                      !.unused = @ + 1], p)
  IN  {Send(s)} \cup (IF Failures THEN {Send(Disconnect(s))} ELSE {})

(* Mutant: effective_request_lsn is stamped before prefetch_lsn is raised. *)
DoRequestStampBefore(s, force) ==
  LET k == s.unused
      p == Pos(s, k)
      t == s.ring[p].tag
      forced == force # NoForce
      reqLsn == IF forced THEN force.lsn ELSE lwlsn[t]
      plsn == IF forced THEN s.plsn ELSE IF lwlsn[t] > s.plsn THEN lwlsn[t] ELSE s.plsn
      Send(u) ==
        HashInsert([u EXCEPT
                      !.ring[p].status = "REQUESTED",
                      !.ring[p].lsn = IF forced THEN force.lsn ELSE s.plsn,
                      !.ring[p].sent = reqLsn,
                      !.plsn = plsn,
                      !.unsent = @ + 1,
                      !.ninflight = @ + 1,
                      !.nunused = @ - 1,
                      !.unused = @ + 1], p)
  IN  {Send(s)} \cup (IF Failures THEN {Send(Disconnect(s))} ELSE {})

(* prefetch_do_request for the slot at ring_unused: the request LSN is    *)
(* the forced one, or the block's last-written LSN, which also raises     *)
(* prefetch_lsn, the LSN recorded as effective_request_lsn.  A failed     *)
(* send drops the connection and is retried on a new one.                 *)
DoRequest(s, force) ==
  LET k == s.unused
      p == Pos(s, k)
      t == s.ring[p].tag
      forced == force # NoForce
      reqLsn == IF forced THEN force.lsn ELSE lwlsn[t]
      plsn == IF forced THEN s.plsn ELSE IF lwlsn[t] > s.plsn THEN lwlsn[t] ELSE s.plsn
      Send(u) ==
        HashInsert([u EXCEPT
                      !.ring[p].status = "REQUESTED",
                      !.ring[p].lsn = IF forced THEN force.lsn ELSE plsn,
                      !.ring[p].sent = reqLsn,
                      !.plsn = plsn,
                      !.unsent = @ + 1,
                      !.ninflight = @ + 1,
                      !.nunused = @ - 1,
                      !.unused = @ + 1], p)
  IN  {Send(s)} \cup (IF Failures THEN {Send(Disconnect(s))} ELSE {})

(* The slot found for tag t by prfh_lookup, if any. *)
Found(s, t) == (CHOOSE e \in Lookup(s, t) : TRUE).slot

(* prefetch_register_buffer(tag, force): returns the possible outcomes    *)
(* [st, idx], idx the ring index of the slot holding the request.         *)
Register(s, t, force) ==
  LET \* 1. an existing slot for t: reuse it, or retire it
      found ==
        IF Lookup(s, t) = {} THEN {[st |-> s, dup |-> FALSE]}
        ELSE LET sl == s.ring[Found(s, t)]
                 stale == force # NoForce /\
                          IF force.latest THEN force.lsn > sl.lsn
                                          ELSE force.lsn # sl.lsn
             IN  IF stale
                 THEN {[st |-> u, dup |-> FALSE] :
                         u \in WaitThenSetUnused(s, sl.idx, LAMBDA v : sl.idx)}
                 ELSE IF sl.status = "TAG_REMAINS"
                 THEN {[st |-> SetUnused(s, sl.idx), dup |-> FALSE]}
                 ELSE {[st |-> s, dup |-> TRUE]}
      \* 2. a full ring: compact, or retire the oldest slot
      MakeRoom(u) ==
        IF u.last + u.size - 1 # u.unused THEN {u}
        ELSE LET c == Compact(u)
             IN  IF NeedsCompaction(u) /\ c.moved THEN {c.st}
                 ELSE IF Sl(u, u.last).status = "REQUESTED"
                 THEN WaitThenSetUnused(u, u.last, LAMBDA v : u.last)
                 ELSE {SetUnused(u, u.last)}
      \* 3. fill the slot at ring_unused and send the request
      Allocate(u) ==
        DoRequest([u EXCEPT !.ring[Pos(u, u.unused)].tag = t,
                            !.ring[Pos(u, u.unused)].idx = u.unused], force)
      \* 4. flush every flush_every_n_requests requests
      FlushPolicy(u) ==
        IF FlushEvery > 0 /\ u.unused - u.flush >= FlushEvery
        THEN {[o.st EXCEPT !.flush = o.st.unused] : o \in Flush(u)}
        ELSE {u}
      New(u) ==
        IF u.hung THEN {[st |-> u, idx |-> 0]}
        ELSE LET roomy == MakeRoom(u)
                 sent == UNION {IF v.hung THEN {v} ELSE Allocate(v) : v \in roomy}
             IN  UNION {IF v.hung THEN {[st |-> v, idx |-> 0]}
                        ELSE {[st |-> w, idx |-> v.unused - 1] : w \in FlushPolicy(v)}
                          : v \in sent}
  IN  UNION {IF f.dup THEN {[st |-> f.st, idx |-> f.st.ring[Found(f.st, t)].idx]}
             ELSE New(f.st) : f \in found}

(* Mutant: the new ring gets one slot more than readahead_buffer_size. *)
RebuildOversize(u, n) ==
  LET live == {k \in u.last .. u.unused - 1 : Sl(u, k).status # "UNUSED"}
      Rank(k) == Cardinality({j \in live : j >= k})
      kept == {k \in live : Rank(k) <= n}
      Count(st) == Cardinality({k \in kept : Sl(u, k).status = st})
      Newest(k) == ~\E j \in kept : j > k /\ Sl(u, j).tag = Sl(u, k).tag
  IN  [u EXCEPT
         !.ring = [p \in 0 .. n |->
                     IF \E k \in kept : n - Rank(k) = p
                     THEN [Sl(u, CHOOSE k \in kept : n - Rank(k) = p) EXCEPT !.idx = p]
                     ELSE EmptySlot],
         !.hash = {[slot |-> n - Rank(k), key |-> Sl(u, k).tag] : k \in {j \in kept : Newest(j)}},
         !.size = n,
         !.unused = n,
         !.flush = n,
         !.receive = n - Count("REQUESTED"),
         !.last = n - Cardinality(kept),
         !.ninflight = Count("REQUESTED"),
         !.nbuf = Count("RECEIVED"),
         !.nunused = n - Cardinality(kept)]

(* readahead_buffer_resize(newsize): first receive all but the newest     *)
(* newsize requests, then copy the newest live slots (at most newsize)    *)
(* into the tail of a fresh ring, newest last, with fresh ring indexes    *)
(* and counters; the rest are dropped.  ring_flush restarts at            *)
(* ring_unused.                                                           *)
Rebuild(u, n) ==
  LET live == {k \in u.last .. u.unused - 1 : Sl(u, k).status # "UNUSED"}
      Rank(k) == Cardinality({j \in live : j >= k})
      kept == {k \in live : Rank(k) <= n}
      Count(st) == Cardinality({k \in kept : Sl(u, k).status = st})
      Newest(k) == ~\E j \in kept : j > k /\ Sl(u, j).tag = Sl(u, k).tag
  IN  [u EXCEPT
         !.ring = [p \in 0 .. n - 1 |->
                     IF \E k \in kept : n - Rank(k) = p
                     THEN [Sl(u, CHOOSE k \in kept : n - Rank(k) = p) EXCEPT !.idx = p]
                     ELSE EmptySlot],
         !.hash = {[slot |-> n - Rank(k), key |-> Sl(u, k).tag] : k \in {j \in kept : Newest(j)}},
         !.size = n,
         !.unused = n,
         !.flush = n,
         !.receive = n - Count("REQUESTED"),
         !.last = n - Cardinality(kept),
         !.ninflight = Count("REQUESTED"),
         !.nbuf = Count("RECEIVED"),
         !.nunused = n - Cardinality(kept)]

ResizeOutcomes(s, n) ==
  LET waited == IF s.ninflight > n THEN {o.st : o \in WaitFor(s, s.unused - n)}
                ELSE {s}
  IN  {IF u.hung THEN u ELSE Rebuild(u, n) : u \in waited}

(* page_server_request: send and flush the request (retried over a new    *)
(* connection until both succeed), consume_prefetch_responses, then       *)
(* receive the answer, starting over if the connection dropped.           *)
SyncOutcomes(s) ==
  LET sent == {[s EXCEPT !.flush = s.unused, !.unsent = 0]}
              \cup (IF Failures THEN {Disconnect(s)} ELSE {})
      Consume(u) == IF u.receive < u.unused THEN {o.st : o \in WaitFor(u, u.unused - 1)}
                    ELSE {u}
  IN  UNION {Consume(u) : u \in sent}

(* One pass of the retry loop of neon_read_at_lsn for block b at LSN r:   *)
(* register the block unless the lookup already hit slot 'hit', wait for  *)
(* it, and on success copy the slot's response out and retire the slot.   *)
(* The page copied out is whatever response the slot at that ring index   *)
(* holds when the wait returns.                                           *)
ReadAttempt(s, b, r, hit) ==
  LET regs == IF hit # NoHit THEN {[st |-> s, idx |-> hit.idx, pos |-> hit.pos]}
              ELSE {[g EXCEPT !.pos = Pos(g.st, g.idx)] :
                      g \in {[st |-> x.st, idx |-> x.idx, pos |-> 0] :
                               x \in Register(s, b, [latest |-> ~Recovery, lsn |-> r])}}
      Finish(g) ==
        IF g.st.hung THEN {[st |-> g.st, done |-> FALSE, page |-> NoPage]}
        ELSE {IF o.ok
              THEN [st |-> CleanupTrailing(SetUnused(o.st, g.idx)), done |-> TRUE,
                    page |-> o.st.ring[g.pos].page]
              ELSE [st |-> o.st, done |-> FALSE, page |-> NoPage]
                : o \in WaitFor(g.st, g.idx)}
  IN  UNION {Finish(g) : g \in regs}

(* Mutant: neon_read_at_lsn accepts a buffered slot whatever its LSN. *)
ReadStartAnyLsn(s, b, r) ==
  LET pre ==
        IF Lookup(s, b) = {} THEN {[st |-> s, hit |-> NoHit]}
        ELSE LET p == Found(s, b)
                 sl == s.ring[p]
             IN  {[st |-> s, hit |-> [idx |-> sl.idx, pos |-> p]]}
  IN  UNION {IF x.st.hung THEN {[st |-> x.st, done |-> FALSE, page |-> NoPage]}
             ELSE ReadAttempt(x.st, b, r, x.hit) : x \in pre}

(* The start of neon_read_at_lsn: a buffered slot for b is a hit if its   *)
(* effective_request_lsn >= r; otherwise it is waited for and retired,    *)
(* re-reading the slot's ring index after the wait.                       *)
ReadStartOutcomes(s, b, r) ==
  LET pre ==
        IF Lookup(s, b) = {} THEN {[st |-> s, hit |-> NoHit]}
        ELSE LET p == Found(s, b)
                 sl == s.ring[p]
             IN  IF sl.lsn >= r THEN {[st |-> s, hit |-> [idx |-> sl.idx, pos |-> p]]}
                 ELSE IF sl.status = "REQUESTED"
                 THEN {[st |-> u, hit |-> NoHit] :
                         u \in WaitThenSetUnused(s, sl.idx, LAMBDA v : v.ring[p].idx)}
                 ELSE {[st |-> SetUnused(s, sl.idx), hit |-> NoHit]}
  IN  UNION {IF x.st.hung THEN {[st |-> x.st, done |-> FALSE, page |-> NoPage]}
             ELSE ReadAttempt(x.st, b, r, x.hit) : x \in pre}

-----------------------------------------------------------------------------
(* The backend: initial state (neon_init) and its smgr calls.             *)

InitPState ==
  [ring |-> [p \in 0 .. InitSize - 1 |-> EmptySlot], hash |-> {},
   size |-> InitSize, unused |-> 0, flush |-> 0, receive |-> 0, last |-> 0,
   nbuf |-> 0, ninflight |-> 0, nunused |-> InitSize,
   plsn |-> 0, unsent |-> 0, hung |-> FALSE]

Init ==
  /\ pst = InitPState
  /\ reading = NoRead
  /\ resident = [b \in Blocks |-> FALSE]
  /\ bufPage = [b \in Blocks |-> NoPage]
  /\ lwlsn = [b \in Blocks |-> 1]
  /\ wal = [b \in Blocks |-> {}]
  /\ insertLsn = 1
  /\ checked = NoTag

Idle == reading = NoRead /\ ~pst.hung /\ checked = NoTag

(* PrefetchSharedBuffer finds b absent from shared buffers and releases   *)
(* the mapping lock; other backends may load, modify and evict b before   *)
(* it calls smgrprefetch.  Without RacyPrefetch the two are one step.     *)
PrefetchCheck(b) ==
  /\ RacyPrefetch
  /\ Idle
  /\ ~resident[b]
  /\ checked' = b
  /\ UNCHANGED <<pst, reading, resident, bufPage, lwlsn, wal, insertLsn>>

(* neon_prefetch(b) on a permanent relation, local file cache off.        *)
Prefetch(b) ==
  /\ reading = NoRead /\ ~pst.hung
  /\ IF RacyPrefetch THEN checked = b ELSE checked = NoTag /\ ~resident[b]
  /\ pst.unused < MaxRing
  /\ \E o \in Register(pst, b, NoForce) : pst' = o.st
  /\ checked' = NoTag
  /\ UNCHANGED <<reading, resident, bufPage, lwlsn, wal, insertLsn>>

(* The end of a read: the page goes into the shared buffer of b, or the   *)
(* read stays in its retry loop.                                          *)
EndRead(b, r, o) ==
  /\ pst' = o.st
  /\ IF o.done
     THEN /\ reading' = NoRead
          /\ resident' = [resident EXCEPT ![b] = TRUE]
          /\ bufPage' = [bufPage EXCEPT ![b] = o.page]
     ELSE /\ reading' = [blk |-> b, lsn |-> r]
          /\ UNCHANGED <<resident, bufPage>>
  /\ UNCHANGED <<lwlsn, wal, insertLsn, checked>>

(* neon_read(b): the buffer manager reads a block that is not in shared   *)
(* buffers, at the LSN neon_get_request_lsn returns outside recovery.     *)
Read(b) ==
  /\ Idle
  /\ ~resident[b]
  /\ pst.unused < MaxRing
  /\ \E o \in ReadStartOutcomes(pst, b, lwlsn[b]) : EndRead(b, lwlsn[b], o)

(* The next pass of neon_read_at_lsn's loop after a failed wait.          *)
ReadRetry ==
  /\ reading # NoRead
  /\ ~pst.hung
  /\ pst.unused < MaxRing
  /\ \E o \in ReadAttempt(pst, reading.blk, reading.lsn, NoHit) :
        EndRead(reading.blk, reading.lsn, o)

(* neon_exists / neon_nblocks / neon_dbsize: one page_server_request.     *)
SyncRequest ==
  /\ Idle
  /\ \E u \in SyncOutcomes(pst) : pst' = u
  /\ UNCHANGED <<reading, resident, bufPage, lwlsn, wal, insertLsn, checked>>

(* SET neon.readahead_buffer_size = n *)
Resize(n) ==
  /\ Idle
  /\ \E u \in ResizeOutcomes(pst, n) : pst' = u
  /\ UNCHANGED <<reading, resident, bufPage, lwlsn, wal, insertLsn, checked>>

-----------------------------------------------------------------------------
(* Other backends.  They read correct pages, WAL-log every change of a    *)
(* resident page and publish the page LSN when they evict it              *)
(* (neon_write -> neon_wallog_page -> SetLastWrittenLSNForBlock, which    *)
(* keeps the maximum).  A block our read is bringing in is pinned.        *)

Load(b) ==
  /\ ~resident[b] /\ b # reading.blk
  /\ resident' = [resident EXCEPT ![b] = TRUE]
  /\ bufPage' = [bufPage EXCEPT ![b] = LastVersion(b)]
  /\ UNCHANGED <<pst, reading, lwlsn, wal, insertLsn, checked>>

Modify(b) ==
  /\ resident[b]
  /\ insertLsn < MaxLsn
  /\ insertLsn' = insertLsn + 1
  /\ wal' = [wal EXCEPT ![b] = @ \cup {insertLsn + 1}]
  /\ bufPage' = [bufPage EXCEPT ![b].ver = insertLsn + 1]
  /\ UNCHANGED <<pst, reading, resident, lwlsn, checked>>

Evict(b) ==
  /\ resident[b]
  /\ resident' = [resident EXCEPT ![b] = FALSE]
  /\ lwlsn' = [lwlsn EXCEPT ![b] = IF bufPage[b].ver > @ THEN bufPage[b].ver ELSE @]
  /\ UNCHANGED <<pst, reading, bufPage, wal, insertLsn, checked>>

Next ==
  \/ \E b \in Blocks : PrefetchCheck(b) \/ Prefetch(b) \/ Read(b)
  \/ ReadRetry
  \/ SyncRequest
  \/ \E n \in Sizes : Resize(n)
  \/ \E b \in Blocks : Load(b) \/ Modify(b) \/ Evict(b)

Spec == Init /\ [][Next]_vars

-----------------------------------------------------------------------------
(* Properties *)

Window(s) == s.last .. s.unused - 1
Live(s) == {k \in Window(s) : Sl(s, k).status # "UNUSED"}

TypeOK ==
  /\ pst.size \in Nat \ {0, 1}
  /\ pst.ring \in [0 .. pst.size - 1 ->
                   [tag : Blocks \cup {NoTag}, status : Status, lsn : Lsn,
                    sent : Lsn, page : Page, idx : Nat]]
  /\ pst.hash \subseteq [slot : 0 .. pst.size - 1, key : Blocks \cup {NoTag}]
  /\ \A f \in {"unused", "flush", "receive", "last", "nbuf", "ninflight", "unsent"} :
        pst[f] \in Nat
  /\ pst.plsn \in Lsn
  /\ pst.hung \in BOOLEAN
  /\ reading \in {NoRead} \cup [blk : Blocks, lsn : Lsn]
  /\ resident \in [Blocks -> BOOLEAN]
  /\ bufPage \in [Blocks -> Page]
  /\ lwlsn \in [Blocks -> Lsn]
  /\ wal \in [Blocks -> SUBSET (1 .. MaxLsn)]
  /\ insertLsn \in 1 .. MaxLsn
  /\ checked \in Blocks \cup {NoTag}

(* R1/R2: the ring counters are ordered, the live window never reaches    *)
(* the ring size (prefetch_register_buffer allocates at ring_unused       *)
(* without checking), the slots in [ring_receive, ring_unused) are        *)
(* exactly the REQUESTED ones, and n_requests_inflight and                *)
(* n_responses_buffered count them.  Compaction, disconnect and resize    *)
(* all rewrite these counters.                                            *)
RingCoherent ==
  /\ pst.last <= pst.receive /\ pst.receive <= pst.flush /\ pst.flush <= pst.unused
  /\ pst.unused - pst.last <= pst.size - 1
  /\ \A k \in Window(pst) : (Sl(pst, k).status = "REQUESTED") <=> (k >= pst.receive)
  /\ pst.ninflight = pst.unused - pst.receive
  /\ pst.nbuf = Cardinality({k \in Window(pst) : Sl(pst, k).status = "RECEIVED"})

(* R3: prf_hash indexes exactly the live slots, each under its own tag,   *)
(* each live slot knows its ring index, no two live slots share a tag,    *)
(* and every slot outside the window is UNUSED, so a lookup in            *)
(* prefetch_register_buffer or neon_read_at_lsn finds the right slot.     *)
IndexCoherent ==
  /\ \A e \in pst.hash : \E k \in Live(pst) :
        Pos(pst, k) = e.slot /\ Sl(pst, k).tag = e.key
  /\ \A k \in Live(pst) :
        /\ Sl(pst, k).idx = k
        /\ Lookup(pst, Sl(pst, k).tag) = {[slot |-> Pos(pst, k), key |-> Sl(pst, k).tag]}
  /\ \A p \in 0 .. pst.size - 1 :
        (~\E k \in Window(pst) : Pos(pst, k) = p) => pst.ring[p] = EmptySlot

(* Read-your-writes: the shared buffer of every resident block holds that *)
(* block's newest version.  A read served from a prefetch slot must not   *)
(* return another block's page or a version older than a modification    *)
(* another backend made and evicted before the read.                      *)
BufferFresh == \A b \in Blocks : resident[b] => bufPage[b] = LastVersion(b)

(* The stamp is sound: for every live slot, no change to its block lies  *)
(* between the LSN its GetPage request was sent at and the LSN stamped as *)
(* its effective_request_lsn (prefetch_lsn).  The hit test of             *)
(* neon_read_at_lsn (line 1898) serves any slot whose stamp is >= the      *)
(* read's LSN, so an unsound stamp is a stale read; the comment of         *)
(* prefetch_do_request argues that prefetch_lsn can be used because the    *)
(* block was not modified in between.                                     *)
StampSound ==
  \A k \in Live(pst) :
    VersionAt(Sl(pst, k).tag, Sl(pst, k).sent) = VersionAt(Sl(pst, k).tag, Sl(pst, k).lsn)

(* A wait in the pipeline never blocks on a response to a request still   *)
(* sitting in the connection's output buffer.                             *)
NoHang == ~pst.hung

=============================================================================

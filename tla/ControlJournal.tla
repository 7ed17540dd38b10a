--------------------------- MODULE ControlJournal ---------------------------
(***************************************************************************)
(* The control journal of one pool member: the control region of           *)
(* fixed-size record slots (v3/journal.zig), the two copies A and B of the *)
(* member header that name the journal's checkpoint (v3/member.zig,        *)
(* v3/member_format.zig), and the process that has the member open.        *)
(*                                                                         *)
(* Slot 0 holds the birth record for ever.  The journal first grows        *)
(* linearly; once a snapshot record (the anchor) is named by BOTH header   *)
(* copies, the records before it may be zeroed and slots 1 .. N-1 are      *)
(* reused as a ring.  Every durable write (write + sync of one slot or one *)
(* header copy) is a step of its own, so that a crash or an I/O error can  *)
(* hit each of them and leave the old bytes, the new bytes or a torn mix.  *)
(*                                                                         *)
(* A member has one lineage of records, so a record is identified by its   *)
(* local sequence number: the digest chain of the code holds exactly when  *)
(* the sequence numbers are consecutive.                                   *)
(***************************************************************************)
EXTENDS Integers, FiniteSets

CONSTANTS
  N,          \* slot_count: record slots of the control region
  MaxSeq,     \* largest local_sequence (maxInt(u64) in the code)
  MaxHdrSeq   \* largest header_sequence (maxInt(u64) in the code)

ASSUME ConstantsAssumption ==
  /\ N \in Nat /\ N >= 3
  /\ MaxSeq \in Nat /\ MaxSeq >= 1
  /\ MaxHdrSeq \in Nat /\ MaxHdrSeq >= 1

Slots  == 0 .. N - 1
Ring   == 1 .. N - 1
Copies == {"a", "b"}

VARIABLES
  slot,          \* media: contents of the record slots
  hdr,           \* media: the two header copies
  status,        \* "down", "open" or "frozen" (a write or sync failed)
  pc,            \* the durable write in progress, "idle" if none
  head,          \* Member.selected_header
  src,           \* Member.selected_source
  degraded,      \* Member.degraded
  reclaimReady,  \* Member.checkpoint_reclaim_ready
  scan,          \* Journal.scan_state
  ringReady,     \* Journal.ring_write_ready
  cur, rec,      \* slot being written and its new contents
  tgt, newHead,  \* header copy being written and its new contents
  acked          \* history: highest sequence appended or recovered

media == <<slot, hdr>>
member == <<head, src, degraded, reclaimReady>>
writing == <<cur, rec, tgt, newHead>>
vars == <<slot, hdr, status, pc, head, src, degraded, reclaimReady, scan,
          ringReady, cur, rec, tgt, newHead, acked>>

-----------------------------------------------------------------------------
(* Contents of a slot: a record, zero bytes, or bytes that do not decode.  *)

Record(s, snap) == [seq |-> s, snap |-> snap]
Zero == Record(0, FALSE)
Bad  == Record(-1, FALSE)
Content == [seq : {-1} \cup 0 .. MaxSeq, snap : BOOLEAN]

(* A header checkpoint or an active anchor; slot 0 stands for none.        *)
Point == [seq : 0 .. MaxSeq, slot : Slots]
NoPoint == [seq |-> 0, slot |-> 0]

(* A header copy; header_sequence 0 stands for a copy that does not decode.*)
Header == [seq : 0 .. MaxHdrSeq, ckpt : Point, catalog : BOOLEAN]
NoHeader == [seq |-> 0, ckpt |-> NoPoint, catalog |-> FALSE]
FirstHeader == [seq |-> 1, ckpt |-> NoPoint, catalog |-> FALSE]

ScanState == [tail : Content, tailSlot : Slots, anchor : Point,
              next : 0 .. N, full : BOOLEAN, damage : BOOLEAN]
NoScan == [tail |-> Zero, tailSlot |-> 0, anchor |-> NoPoint,
           next |-> 0, full |-> FALSE, damage |-> FALSE]

Other(c) == IF c = "a" THEN "b" ELSE "a"

(* Defect: the ring wraps to slot 0.                                       *)
WrapToZero(s) == IF s + 1 = N THEN 0 ELSE s + 1

NextRingSlot(s) == IF s + 1 = N THEN 1 ELSE s + 1

(* Steps of the ring walk from anchor slot a to slot i.                    *)
Dist(a, i) == IF i >= a THEN i - a ELSE i - a + (N - 1)

-----------------------------------------------------------------------------
(* member_format.select: which header copy an open uses.                   *)

Valid(h) == h.seq > 0

Selection(h, c, d) == [ok |-> TRUE, header |-> h, source |-> c, degraded |-> d]
NoSelection == [ok |-> FALSE, header |-> NoHeader, source |-> "a",
                degraded |-> FALSE]

SelectValid(a, b) ==
  IF a.catalog # b.catalog
    THEN LET c   == IF a.catalog THEN "a" ELSE "b"
             on  == IF a.catalog THEN a ELSE b
             off == IF a.catalog THEN b ELSE a
         IN  IF on.seq = off.seq + 1 /\ on.ckpt = off.ckpt
               THEN Selection(on, c, TRUE)
               ELSE NoSelection               \* ConflictingMemberHeaders
    ELSE IF a.seq > b.seq THEN Selection(a, "a", FALSE)
         ELSE IF b.seq > a.seq THEN Selection(b, "b", FALSE)
         ELSE IF a.ckpt = b.ckpt THEN Selection(a, "a", FALSE)
         ELSE NoSelection                     \* AmbiguousMemberHeader

Select(h) ==
  IF Valid(h["a"])
    THEN IF Valid(h["b"]) THEN SelectValid(h["a"], h["b"])
                          ELSE Selection(h["a"], "a", TRUE)
    ELSE IF Valid(h["b"]) THEN Selection(h["b"], "b", TRUE)
                          ELSE NoSelection    \* NoValidMemberHeader

-----------------------------------------------------------------------------
(* journal.scanInto: the linear scan, and the ring scan when it fails.     *)
(* A scan walks the slots in order and accepts a record only if its        *)
(* sequence number is one more than that of the last accepted record; the  *)
(* walk is stated here as what it checks of the set of walked slots.       *)

Decodable(m) == {i \in Slots : m[i].seq > 0}

LinearOk(m) ==
  LET D == Decodable(m)
  IN  /\ \A i, j \in D : i < j => m[i].seq < m[j].seq
      /\ \A i \in D : m[i].seq = 1 \/ \E j \in D : m[j].seq = m[i].seq - 1

LinearTailSlot(m) ==
  CHOOSE i \in Decodable(m) : \A j \in Decodable(m) : j <= i

(* One past the last slot that is not zero.                                *)
Frontier(m) ==
  CHOOSE f \in 0 .. N : /\ \A i \in Slots : i >= f => m[i].seq = 0
                        /\ f > 0 => m[f - 1].seq # 0

(* The header's checkpoint names a snapshot record that is where it says.  *)
Anchors(m, p) == p.slot # 0 /\ m[p.slot].seq = p.seq /\ m[p.slot].snap

LinearState(m, h) ==
  LET t == LinearTailSlot(m)
      f == Frontier(m)
      a == IF Anchors(m, h.ckpt) THEN h.ckpt ELSE NoPoint
      n == IF a.slot # 0 /\ f = N THEN 1 ELSE f
  IN  [tail |-> m[t], tailSlot |-> t, anchor |-> a, next |-> n,
       full |-> IF a.slot # 0 THEN n = a.slot ELSE f = N,
       damage |-> \E i \in Slots : i > t /\ m[i].seq < 0]

(* The slots the ring walk accepts: the anchor and all later records.      *)
Walked(m, p) == {p.slot} \cup {i \in Ring : m[i].seq > p.seq}

AnchoredOk(m, h) ==
  LET p == h.ckpt
      W == Walked(m, p)
  IN  /\ Anchors(m, p) /\ m[0].seq = 1 /\ p.seq > 1
      /\ \A i, j \in W :
           Dist(p.slot, i) < Dist(p.slot, j) => m[i].seq < m[j].seq
      /\ \A i \in W \ {p.slot} : \E j \in W : m[j].seq = m[i].seq - 1

AnchoredTailSlot(m, p) ==
  CHOOSE i \in Walked(m, p) :
    \A j \in Walked(m, p) : Dist(p.slot, j) <= Dist(p.slot, i)

AnchoredState(m, h) ==
  LET t == AnchoredTailSlot(m, h.ckpt)
  IN  [tail |-> m[t], tailSlot |-> t, anchor |-> h.ckpt,
       next |-> NextRingSlot(t), full |-> NextRingSlot(t) = h.ckpt.slot,
       damage |-> \E i \in Ring : /\ Dist(h.ckpt.slot, i) > Dist(h.ckpt.slot, t)
                                  /\ m[i].seq < 0]

ScanOk(m, h) == Decodable(m) # {} /\ (LinearOk(m) \/ AnchoredOk(m, h))
Scan(m, h) == IF LinearOk(m) THEN LinearState(m, h) ELSE AnchoredState(m, h)

Anchored(s) == s.anchor.slot # 0

(* Defect: the wrapped part counts the anchor slot as free.                *)
CountsAnchor(s) ==
  IF ~Anchored(s) THEN N - s.next
  ELSE IF s.next <= s.anchor.slot THEN s.anchor.slot - s.next
  ELSE (N - s.next) + s.anchor.slot

(* availableSlotCount: how many records may still be appended.             *)
AvailableSlotCount(s) ==
  IF ~Anchored(s) THEN N - s.next
  ELSE IF s.next <= s.anchor.slot THEN s.anchor.slot - s.next
  ELSE (N - s.next) + (s.anchor.slot - 1)

(* No durable write is in progress any more.                               *)
Finish ==
  /\ pc' = "idle"
  /\ cur' = 0 /\ rec' = Zero /\ tgt' = "a" /\ newHead' = NoHeader

-----------------------------------------------------------------------------
(* Creation: birth record, header B, header A, each written and synced in  *)
(* this order (Member.createWithFirstRecord).  The created member is       *)
(* opened like any other.                                                  *)

Init ==
  /\ slot = [i \in Slots |-> Zero]
  /\ hdr = [c \in Copies |-> NoHeader]
  /\ status = "open" /\ pc = "createRecord"
  /\ cur = 0 /\ rec = Record(1, FALSE)
  /\ tgt = "b" /\ newHead = FirstHeader
  /\ head = NoHeader /\ src = "a" /\ degraded = FALSE /\ reclaimReady = FALSE
  /\ scan = NoScan /\ ringReady = FALSE
  /\ acked = 0

CreateRecordDone ==
  /\ pc = "createRecord"
  /\ slot' = [slot EXCEPT ![cur] = rec]
  /\ pc' = "createB"
  /\ UNCHANGED <<hdr, status, member, scan,
                 ringReady, writing, acked>>

CreateHeaderDone ==
  /\ pc \in {"createB", "createA"}
  /\ hdr' = [hdr EXCEPT ![tgt] = newHead]
  /\ IF pc = "createB"
       THEN /\ pc' = "createA" /\ tgt' = "a"
            /\ UNCHANGED <<status, acked, cur, rec, newHead>>
       ELSE /\ Finish /\ status' = "down" /\ acked' = 1
  /\ UNCHANGED <<slot, member, scan, ringReady>>

-----------------------------------------------------------------------------
(* Member.openStorage followed by Journal.open, both writable.             *)

Openable(m, h) ==
  /\ ScanOk(m, h)
  /\ Scan(m, h).damage => Anchored(Scan(m, h))   \* else JournalNeedsRecovery

OpenJournal(m, h) ==
  /\ Openable(m, h)
  /\ scan' = Scan(m, h)
  /\ ringReady' = ~Anchored(Scan(m, h))
  /\ acked' = Scan(m, h).tail.seq

Open ==
  /\ status = "down"
  /\ Select(hdr).ok
  /\ status' = "open"
  /\ head' = Select(hdr).header
  /\ src' = Select(hdr).source
  /\ degraded' = Select(hdr).degraded
  /\ reclaimReady' = FALSE
  /\ OpenJournal(slot, Select(hdr).header)
  /\ UNCHANGED <<media, pc, writing>>

Ready == status = "open" /\ pc = "idle"

(* Journal.close, then Journal.open on the member that stayed open.        *)
ReopenJournal ==
  /\ Ready
  /\ OpenJournal(slot, head)
  /\ UNCHANGED <<media, status, pc, member, writing>>

-----------------------------------------------------------------------------
(* Journal.append / appendPrepared / appendPreparedCheckpoint, and         *)
(* Journal.checkpoint, which publishes what it appended in one header copy.*)

(* Defect: the sequence number is not checked for overflow.                *)
PrepareUnbounded ==
  /\ Ready
  /\ Anchored(scan) => ringReady
  /\ ~scan.damage
  /\ ~scan.full

PrepareLocked ==
  /\ Ready
  /\ Anchored(scan) => ringReady              \* ReclaimBarrierRequired
  /\ ~scan.damage                             \* UnresolvedTailDamage
  /\ ~scan.full                               \* JournalFull
  /\ scan.tail.seq < MaxSeq                   \* RecordSequenceOverflow

StartWrite(kind, snap) ==
  /\ PrepareLocked
  /\ Anchored(scan) => slot[scan.next].seq = 0 \* SlotNotReclaimed
  /\ pc' = kind
  /\ cur' = scan.next
  /\ rec' = Record(scan.tail.seq + 1, snap)
  /\ UNCHANGED <<media, status, member, scan,
                 ringReady, tgt, newHead, acked>>

Append == \E snap \in BOOLEAN : StartWrite("append", snap)

Checkpoint ==
  /\ ~Anchored(scan)                          \* AnchoredCheckpointRequiresRollover
  /\ \E snap \in BOOLEAN : StartWrite("checkpoint", snap)

(* Defect: the cached tail slot is not advanced.                           *)
AppendedInPlace ==
  LET n == IF Anchored(scan) THEN NextRingSlot(cur) ELSE cur + 1
  IN  [scan EXCEPT !.tail = rec, !.next = n,
         !.full = IF Anchored(scan) THEN n = scan.anchor.slot ELSE n = N]

(* The scan state after rec became durable in slot cur.                    *)
Appended ==
  LET n == IF Anchored(scan) THEN NextRingSlot(cur) ELSE cur + 1
  IN  [scan EXCEPT !.tail = rec, !.tailSlot = cur, !.next = n,
         !.full = IF Anchored(scan) THEN n = scan.anchor.slot ELSE n = N]

NamedHeader(p) == [head EXCEPT !.seq = head.seq + 1, !.ckpt = p]

AppendDone ==
  /\ pc \in {"append", "checkpoint"}
  /\ slot' = [slot EXCEPT ![cur] = rec]
  /\ scan' = Appended
  /\ acked' = rec.seq
  /\ IF pc = "checkpoint" /\ head.seq < MaxHdrSeq
       THEN /\ pc' = "checkpointHeader"
            /\ tgt' = Other(src)
            /\ newHead' = NamedHeader([seq |-> rec.seq, slot |-> cur])
            /\ reclaimReady' = FALSE
            /\ UNCHANGED <<cur, rec>>
       ELSE Finish /\ UNCHANGED reclaimReady
  /\ UNCHANGED <<hdr, status, head, src, degraded, ringReady>>

CheckpointHeaderDone ==
  /\ pc = "checkpointHeader"
  /\ hdr' = [hdr EXCEPT ![tgt] = newHead]
  /\ head' = newHead /\ src' = tgt /\ degraded' = FALSE
  /\ Finish
  /\ UNCHANGED <<slot, status, reclaimReady, scan, ringReady, acked>>

-----------------------------------------------------------------------------
(* Member.publishCheckpointRedundant: the copy that is not selected first, *)
(* then the other one.  Its callers publish the tail, when it is a         *)
(* snapshot, or the journal's active anchor.                               *)

PublishPoint(p) ==
  \/ scan.tail.snap /\ p = [seq |-> scan.tail.seq, slot |-> scan.tailSlot]
  \/ Anchored(scan) /\ p = scan.anchor

PublishCheckpointRedundant ==
  /\ Ready
  /\ head.seq < MaxHdrSeq                     \* HeaderSequenceOverflow
  /\ \E p \in Point : PublishPoint(p) /\ newHead' = NamedHeader(p)
  /\ tgt' = Other(src)
  /\ reclaimReady' = FALSE
  /\ pc' = "publishFirst"
  /\ UNCHANGED <<media, status, head, src, degraded, scan, ringReady, cur,
                 rec, acked>>

(* Defect: the catalog flag is set under the old header sequence.          *)
ActivateSameSequence ==
  /\ Ready
  /\ IF head.catalog
       THEN /\ degraded
            /\ newHead' = head
            /\ pc' = "mirror"
       ELSE /\ head.seq < MaxHdrSeq
            /\ newHead' = [head EXCEPT !.catalog = TRUE]
            /\ pc' = "activateFirst"
  /\ tgt' = Other(src)
  /\ UNCHANGED <<media, status, member, scan,
                 ringReady, cur, rec, acked>>

(* Member.activateCatalogData: the same two writes with the catalog flag   *)
(* set, or the missing mirror of a header that already carries the flag.   *)
ActivateCatalogData ==
  /\ Ready
  /\ IF head.catalog
       THEN /\ degraded
            /\ newHead' = head
            /\ pc' = "mirror"
       ELSE /\ head.seq < MaxHdrSeq
            /\ newHead' = [head EXCEPT !.seq = head.seq + 1, !.catalog = TRUE]
            /\ pc' = "activateFirst"
  /\ tgt' = Other(src)
  /\ UNCHANGED <<media, status, member, scan,
                 ringReady, cur, rec, acked>>

FirstCopyDone ==
  /\ pc \in {"publishFirst", "activateFirst"}
  /\ hdr' = [hdr EXCEPT ![tgt] = newHead]
  /\ tgt' = Other(tgt)
  /\ pc' = IF pc = "publishFirst" THEN "publishSecond" ELSE "activateSecond"
  /\ UNCHANGED <<slot, status, member, scan,
                 ringReady, cur, rec, newHead, acked>>

SecondCopyDone ==
  /\ pc \in {"publishSecond", "activateSecond", "mirror"}
  /\ hdr' = [hdr EXCEPT ![tgt] = newHead]
  /\ head' = newHead
  /\ src' = IF pc = "mirror" THEN src ELSE "a"
  /\ degraded' = FALSE
  /\ reclaimReady' = (pc = "publishSecond" \/ reclaimReady)
  /\ Finish
  /\ UNCHANGED <<slot, status, scan, ringReady, acked>>

-----------------------------------------------------------------------------
(* Journal.reclaimPublishedAnchor: zero every slot from the one after the  *)
(* tail up to the anchor, one durable write each, then open the ring.      *)

TailPoint == [seq |-> scan.tail.seq, slot |-> scan.tailSlot]

(* Defect: reclaim without the barrier of the redundant publication.       *)
ReclaimWithoutBarrier ==
  /\ Ready
  /\ IF head.ckpt = TailPoint
       THEN scan.tail.snap
       ELSE Anchored(scan) /\ scan.anchor = head.ckpt
  /\ pc' = "reclaim"
  /\ cur' = NextRingSlot(scan.tailSlot)
  /\ rec' = Zero
  /\ UNCHANGED <<media, status, member, scan, ringReady, tgt, newHead, acked>>

ReclaimPublishedAnchor ==
  /\ Ready
  /\ reclaimReady                             \* ReclaimBarrierRequired
  /\ IF head.ckpt = TailPoint
       THEN scan.tail.snap
       ELSE Anchored(scan) /\ scan.anchor = head.ckpt
  /\ pc' = "reclaim"
  /\ cur' = NextRingSlot(scan.tailSlot)
  /\ rec' = Zero
  /\ UNCHANGED <<media, status, member, scan, ringReady, tgt, newHead, acked>>

ReclaimSlotDone ==
  /\ pc = "reclaim"
  /\ cur # head.ckpt.slot
  /\ slot' = [slot EXCEPT ![cur] = Zero]
  /\ cur' = NextRingSlot(cur)
  /\ UNCHANGED <<hdr, status, pc, member, scan, ringReady, rec, tgt, newHead,
                 acked>>

ReclaimDone ==
  /\ pc = "reclaim"
  /\ cur = head.ckpt.slot
  /\ scan' = [scan EXCEPT !.anchor = head.ckpt, !.damage = FALSE,
                          !.next = NextRingSlot(scan.tailSlot),
                          !.full = NextRingSlot(scan.tailSlot) = head.ckpt.slot]
  /\ ringReady' = TRUE
  /\ Finish
  /\ UNCHANGED <<media, status, member, acked>>

-----------------------------------------------------------------------------
(* A write or sync that does not complete leaves the old bytes, the new    *)
(* bytes, or bytes that do not decode.  A slot that is already zero is not *)
(* written by the reclaim.                                                 *)

SlotWrites == {"createRecord", "append", "checkpoint", "reclaim"}
HeaderWrites == {"createB", "createA", "checkpointHeader", "publishFirst",
                 "publishSecond", "activateFirst", "activateSecond", "mirror"}

InterruptedWrite ==
  \/ /\ pc \in SlotWrites
     /\ pc = "reclaim" => cur # head.ckpt.slot /\ slot[cur].seq # 0
     /\ \E c \in {Bad, rec} : slot' = [slot EXCEPT ![cur] = c]
     /\ UNCHANGED hdr
  \/ /\ pc \in HeaderWrites
     /\ \E h \in {NoHeader, newHead} : hdr' = [hdr EXCEPT ![tgt] = h]
     /\ UNCHANGED slot
  \/ UNCHANGED media

(* An I/O error freezes the member: nothing is written until it is closed. *)
WriteFails ==
  /\ status = "open" /\ pc # "idle"
  /\ InterruptedWrite
  /\ status' = "frozen"
  /\ Finish
  /\ UNCHANGED <<member, scan, ringReady, acked>>

(* The process closes the member, or dies at any point.                    *)
CloseOrCrash ==
  /\ status # "down"
  /\ InterruptedWrite
  /\ status' = "down"
  /\ head' = NoHeader /\ src' = "a" /\ degraded' = FALSE /\ reclaimReady' = FALSE
  /\ scan' = NoScan /\ ringReady' = FALSE
  /\ Finish
  /\ UNCHANGED acked

Next ==
  \/ CreateRecordDone \/ CreateHeaderDone
  \/ Open \/ ReopenJournal
  \/ Append \/ Checkpoint \/ AppendDone \/ CheckpointHeaderDone
  \/ PublishCheckpointRedundant \/ ActivateCatalogData
  \/ FirstCopyDone \/ SecondCopyDone
  \/ ReclaimPublishedAnchor \/ ReclaimSlotDone \/ ReclaimDone
  \/ WriteFails \/ CloseOrCrash

Spec == Init /\ [][Next]_vars

-----------------------------------------------------------------------------
(* Type invariant.                                                         *)
TypeOK ==
  /\ slot \in [Slots -> Content]
  /\ hdr \in [Copies -> Header]
  /\ status \in {"down", "open", "frozen"}
  /\ pc \in {"idle"} \cup SlotWrites \cup HeaderWrites
  /\ head \in Header /\ src \in Copies
  /\ degraded \in BOOLEAN /\ reclaimReady \in BOOLEAN
  /\ scan \in ScanState /\ ringReady \in BOOLEAN
  /\ cur \in Slots /\ rec \in Content /\ tgt \in Copies /\ newHead \in Header
  /\ acked \in 0 .. MaxSeq

(* Whatever the process was doing when it stopped, a created member can be *)
(* opened again: the two header copies never conflict, never tie with      *)
(* different contents and are never both unreadable (member_format.select).*)
HeadersSelectable == acked > 0 => Select(hdr).ok

(* Each readable header copy ALONE is enough to recover: the scan that     *)
(* starts from it succeeds and ends at the last acknowledged record, or at *)
(* the one record that was being appended when the process stopped.        *)
EveryHeaderCopyRecovers ==
  \A c \in Copies : Valid(hdr[c]) =>
    /\ ScanOk(slot, hdr[c])
    /\ Scan(slot, hdr[c]).tail.seq \in {acked, acked + 1}

(* The scan state the process caches is what a rescan of the media finds.  *)
CachedTailIsOnMedia ==
  status = "open" /\ pc \in {"idle"} \cup HeaderWrites /\ Valid(head) =>
    /\ ScanOk(slot, head)
    /\ Scan(slot, head).tail = scan.tail
    /\ Scan(slot, head).tailSlot = scan.tailSlot

(* Slots from the next one on, in journal order, up to the anchor or end.  *)
FreeRun(s) ==
  IF Anchored(s)
    THEN {i \in Ring : Dist(s.next, i) < Dist(s.next, s.anchor.slot)}
    ELSE {i \in Slots : i >= s.next}

(* hasAppendCapacity keeps its promise: a journal that accepts appends has *)
(* exactly availableSlotCount zero slots from its next slot on, so that    *)
(* many appends succeed and none of them fails with SlotNotReclaimed.      *)
CapacityIsExact ==
  Ready /\ (Anchored(scan) => ringReady) /\ ~scan.damage =>
    /\ \A i \in FreeRun(scan) : slot[i].seq = 0
    /\ Cardinality(FreeRun(scan)) = AvailableSlotCount(scan)
    /\ scan.full <=> FreeRun(scan) = {}

(* The records this step replaces: not the birth record, and older than    *)
(* the anchor of every readable header copy.                               *)
ErasesOnlyObsolete ==
  \A i \in Slots : slot[i].seq > 0 /\ slot'[i] # slot[i] =>
    /\ i # 0
    /\ \A c \in Copies : Valid(hdr[c]) => hdr[c].ckpt.seq > slot[i].seq

(* A record on the media is replaced only when it can no longer be needed: *)
(* it is not the birth record and every readable header copy names a later *)
(* anchor (reclaimPublishedAnchor after publishCheckpointRedundant).       *)
OnlyObsoleteRecordsErased == [][ErasesOnlyObsolete]_vars

=============================================================================

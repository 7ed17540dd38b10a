------------------------ MODULE ControlJournalProofs ------------------------
(***************************************************************************)
(* The reclaim, write errors and crashes preserve IInv too, and what       *)
(* follows from it: the theorems about ControlJournal.                     *)
(***************************************************************************)
EXTENDS ControlJournalSteps


(* The three steps of the reclaim.                                         *)
LEMMA TailDistance ==
  ASSUME NEW m \in [Slots -> Content], NEW p \in Point, NEW L \in Int,
         Layout(m, p, L), NEW t \in Slots, m[t].seq = L
  PROVE  /\ t \in Ring /\ Dist(p.slot, t) = L - p.seq
         /\ NextRingSlot(t) \in Ring /\ NextRingSlot(t) \in Slots
         /\ \/ NextRingSlot(t) = p.slot
            \/ Dist(p.slot, NextRingSlot(t)) > L - p.seq
<1>1. /\ p.slot \in Ring /\ p.seq \in Int /\ p.seq > 1 /\ p.seq <= L /\ m[0].seq = 1
      /\ N \in Int /\ N >= 3
  BY ConstantsAssumption DEF Layout, Point
<1>2. t \in Ring
  BY <1>1 DEF Ring, Slots
<1>3. Dist(p.slot, t) \in Int
  BY <1>1, <1>2, DistFacts
<1>4. Dist(p.slot, t) = L - p.seq
  BY <1>1, <1>2, <1>3 DEF Layout
<1>5. /\ NextRingSlot(t) \in Ring
      /\ IF NextRingSlot(t) = p.slot THEN Dist(p.slot, t) = N - 2
           ELSE Dist(p.slot, NextRingSlot(t)) = Dist(p.slot, t) + 1
  BY <1>1, <1>2, DistFacts
<1>6. NextRingSlot(t) \in Slots
  BY <1>1, <1>5 DEF Ring, Slots
<1>. QED BY <1>1, <1>2, <1>4, <1>5, <1>6

LEMMA ReclaimStep ==
  ASSUME IInv, ReclaimPublishedAnchor \/ ReclaimSlotDone \/ ReclaimDone
  PROVE  IInv'
<1>. DEFINE p == head.ckpt
<1>0. /\ Operating /\ Operating' /\ reclaimReady /\ pc \notin HeaderWrites
      /\ pc \notin {"append", "checkpoint"}
      /\ pc' \notin HeaderWrites /\ pc' \notin {"append", "checkpoint"}
      /\ UNCHANGED <<hdr, status, head, src, degraded, reclaimReady, acked>>
  <2>1. CASE ReclaimPublishedAnchor
    BY <2>1 DEF ReclaimPublishedAnchor, Ready, Operating, Creating, media, member,
                HeaderWrites
  <2>2. CASE ReclaimSlotDone \/ ReclaimDone
    <3>1. Operating /\ pc = "reclaim"
      BY <2>2 DEF ReclaimSlotDone, ReclaimDone, IInv, DownInv, Operating, Creating
    <3>2. reclaimReady
      BY <3>1 DEF IInv, ScanInv
    <3>. QED BY <2>2, <3>1, <3>2
           DEF ReclaimSlotDone, ReclaimDone, Operating, Creating, media, member,
               HeaderWrites, Finish
  <2>. QED BY <2>1, <2>2
<1>1. /\ slot \in [Slots -> Content] /\ hdr \in [Copies -> Header] /\ head \in Header
      /\ scan \in ScanState /\ acked \in 0 .. MaxSeq /\ src \in Copies
      /\ acked \in Int /\ scan.tailSlot \in Slots /\ cur \in Slots
      /\ p \in Point /\ p.slot \in Slots /\ p.seq \in Int
  BY DEF IInv, TypeOK, ScanState, Header, Point
<1>2. /\ Valid(head) /\ HdrFits(slot, head, acked) /\ Settled(acked)
      /\ \A c \in Copies : Valid(hdr[c]) /\ hdr[c].ckpt = p
      /\ hdr[src] = head /\ Newer(head, hdr[Other(src)])
      /\ \E c \in Copies : Valid(hdr[c]) /\ Newer(hdr[c], hdr[Other(c)])
      /\ acked >= 1
  BY <1>0 DEF IInv, MediaInv, Settled, HeaderWrites
<1>3. /\ slot[scan.tailSlot] = scan.tail /\ scan.tail.seq = acked
      /\ slot[scan.tailSlot].seq = acked
      /\ ~Anchored(scan) => scan.full = (scan.next = N)
      /\ Anchored(scan) /\ ringReady =>
         /\ scan.next = NextRingSlot(scan.tailSlot)
         /\ scan.full = (scan.next = scan.anchor.slot)
         /\ p.seq >= scan.anchor.seq
  BY <1>0 DEF IInv, ScanInv
<1>4. Layout(slot, p, acked)
  <2>1. CASE ReclaimPublishedAnchor
    <3>1. pc # "reclaim"
      BY <2>1 DEF ReclaimPublishedAnchor, Ready
    <3>2. CASE p = TailPoint
      <4>1. scan.tail.snap /\ p.slot = scan.tailSlot
        BY <2>1, <3>2 DEF ReclaimPublishedAnchor, TailPoint
      <4>2. slot[p.slot].snap
        BY <4>1, <1>3
      <4>. QED BY <4>2, <1>2 DEF HdrFits, Linear
    <3>3. CASE p # TailPoint
      BY <2>1, <3>1, <3>3, <1>0 DEF ReclaimPublishedAnchor, IInv, ScanInv
    <3>. QED BY <3>2, <3>3
  <2>2. CASE ReclaimSlotDone \/ ReclaimDone
    BY <2>2, <1>0 DEF ReclaimSlotDone, ReclaimDone, IInv, ScanInv
  <2>. QED BY <2>1, <2>2
<1>. HIDE DEF p
<1>5. /\ scan.tailSlot \in Ring /\ Dist(p.slot, scan.tailSlot) = acked - p.seq
      /\ NextRingSlot(scan.tailSlot) \in Ring /\ NextRingSlot(scan.tailSlot) \in Slots
      /\ \/ NextRingSlot(scan.tailSlot) = p.slot
         \/ Dist(p.slot, NextRingSlot(scan.tailSlot)) > acked - p.seq
  BY <1>1, <1>3, <1>4, TailDistance
<1>6. p.slot # 0
  BY <1>4 DEF Layout, Ring
<1>7. CASE ReclaimPublishedAnchor
  <2>0. /\ slot' = slot /\ scan' = scan /\ ringReady' = ringReady /\ tgt' = tgt
        /\ newHead' = newHead /\ pc' = "reclaim" /\ rec' = Zero
        /\ cur' = NextRingSlot(scan.tailSlot)
    BY <1>7 DEF ReclaimPublishedAnchor, media
  <2>1. TypeOK'
    BY <1>0, <2>0, <1>5, FixedTypes DEF IInv, TypeOK, SlotWrites
  <2>2. MediaInv'
    BY <1>0, <1>2, <2>0 DEF MediaInv, Settled, p
  <2>3. ScanInv'
    <3>1. Anchored(scan) /\ ringReady => Layout(slot, scan.anchor, acked)
            /\ \A c \in Copies : Valid(hdr[c]) =>
                 Layout(slot, hdr[c].ckpt, acked) /\ hdr[c].ckpt.seq >= scan.anchor.seq
      BY <1>0, <1>7 DEF IInv, ScanInv, ReclaimPublishedAnchor, Ready
    <3>. QED BY <1>0, <1>3, <1>4, <1>5, <2>0, <3>1 DEF ScanInv, Anchored, p
  <2>. QED BY <1>0, <2>0, <2>1, <2>2, <2>3
         DEF IInv, CreateInv, DownInv, Operating, Creating
<1>8. CASE ReclaimSlotDone
  <2>0. /\ slot' = [slot EXCEPT ![cur] = Zero] /\ pc = "reclaim" /\ pc' = "reclaim"
        /\ cur # p.slot /\ cur' = NextRingSlot(cur)
        /\ UNCHANGED <<scan, ringReady, rec, tgt, newHead>>
    BY <1>8 DEF ReclaimSlotDone, p
  <2>1. cur \in Ring /\ Dist(p.slot, cur) > acked - p.seq
    BY <1>0, <2>0 DEF IInv, ScanInv, p
  <2>2. Layout(slot', p, acked)
    <3>1. Zero \in Content /\ Zero.seq <= 0
      BY FixedTypes DEF Zero, Record
    <3>. QED BY <3>1, <2>0, <2>1, <1>1, <1>4, LayoutErase
  <2>3. slot'[scan.tailSlot] = slot[scan.tailSlot]
    <3>1. scan.tailSlot # cur
      BY <2>1, <1>5, <1>1
    <3>. QED BY <3>1, <2>0, <1>1
  <2>4. /\ cur' \in Ring /\ cur' \in Slots
        /\ cur' = p.slot \/ Dist(p.slot, cur') > acked - p.seq
    <3>1. /\ cur' \in Ring
          /\ IF cur' = p.slot THEN TRUE ELSE Dist(p.slot, cur') = Dist(p.slot, cur) + 1
          /\ Dist(p.slot, cur) \in Int
      BY <2>0, <2>1, <1>4, DistFacts DEF Layout
    <3>2. cur' \in Slots
      BY <3>1, ConstantsAssumption DEF Ring, Slots
    <3>. QED BY <3>1, <3>2, <2>1, <1>1
  <2>5. \A c \in Copies : HdrFits(slot', hdr[c], acked)
    BY <1>2, <2>2 DEF HdrFits
  <2>6. HdrFits(slot', head, acked)
    BY <2>2 DEF HdrFits, p
  <2>7. TypeOK'
    <3>1. slot' \in [Slots -> Content]
      BY <2>0, <1>1, FixedTypes
    <3>. QED BY <3>1, <1>0, <2>0, <2>4 DEF IInv, TypeOK
  <2>8. MediaInv'
    <3>1. Settled(acked)'
      BY <1>0, <1>2, <2>5 DEF Settled
    <3>. QED BY <1>0, <1>2, <2>0, <2>6, <3>1 DEF MediaInv, p
  <2>9. ScanInv'
    <3>1. rec = Zero
      BY <1>0, <2>0 DEF IInv, ScanInv
    <3>. QED BY <1>0, <1>2, <1>3, <2>0, <2>2, <2>3, <2>4, <3>1 DEF ScanInv, Anchored, p
  <2>. QED BY <1>0, <2>0, <2>7, <2>8, <2>9
         DEF IInv, CreateInv, DownInv, Operating, Creating
<1>9. CASE ReclaimDone
  <2>0. /\ slot' = slot /\ pc' = "idle" /\ ringReady' = TRUE
        /\ cur' = 0 /\ rec' = Zero /\ tgt' = "a" /\ newHead' = NoHeader
        /\ scan' = [scan EXCEPT !.anchor = p, !.damage = FALSE,
                          !.next = NextRingSlot(scan.tailSlot),
                          !.full = NextRingSlot(scan.tailSlot) = p.slot]
    BY <1>9 DEF ReclaimDone, Finish, media, p
  <2>1. /\ scan'.anchor = p /\ scan'.tail = scan.tail /\ scan'.tailSlot = scan.tailSlot
        /\ scan'.next = NextRingSlot(scan.tailSlot)
        /\ scan'.full = (NextRingSlot(scan.tailSlot) = p.slot)
    BY <1>1, <2>0 DEF ScanState
  <2>2. scan' \in ScanState
    <3>1. NextRingSlot(scan.tailSlot) \in 0 .. N
      BY <1>5, ConstantsAssumption DEF Ring
    <3>. QED BY <3>1, <1>1, <2>0 DEF ScanState
  <2>3. TypeOK'
    <3>1. rec' \in Content /\ tgt' \in Copies /\ newHead' \in Header /\ cur' \in Slots
      BY <2>0, FixedTypes, ConstantsAssumption DEF Copies, Slots
    <3>. QED BY <3>1, <1>0, <2>0, <2>2 DEF IInv, TypeOK
  <2>4. MediaInv'
    BY <1>0, <1>2, <2>0 DEF MediaInv, Settled, p
  <2>5. ScanInv'
    <3>1. Anchored(scan')
      BY <1>6, <2>1 DEF Anchored
    <3>2. \A c \in Copies : Valid(hdr[c]) =>
              Layout(slot, hdr[c].ckpt, acked) /\ hdr[c].ckpt.seq >= p.seq
      BY <1>1, <1>2, <1>4
    <3>. QED BY <1>0, <1>1, <1>3, <1>4, <2>0, <2>1, <3>1, <3>2 DEF ScanInv, p
  <2>. QED BY <1>0, <2>0, <2>3, <2>4, <2>5
         DEF IInv, CreateInv, DownInv, Operating, Creating
<1>. QED BY <1>7, <1>8, <1>9

(* Whatever part of a write reaches the media, what it leaves is settled.  *)
LEMMA InterruptedSettles ==
  ASSUME IInv, InterruptedWrite
  PROVE  /\ slot' \in [Slots -> Content] /\ hdr' \in [Copies -> Header]
         /\ \/ acked = 0 /\ \A c \in Copies : ~Valid(hdr'[c])
            \/ \E L \in {acked, acked + 1} :
                 /\ L >= 1
                 /\ \A c \in Copies : Valid(hdr'[c]) => HdrFits(slot', hdr'[c], L)
                 /\ \E c \in Copies : Valid(hdr'[c]) /\ Newer(hdr'[c], hdr'[Other(c)])
<1>. DEFINE Sound(L) ==
              /\ L >= 1
              /\ \A c \in Copies : Valid(hdr'[c]) => HdrFits(slot', hdr'[c], L)
              /\ \E c \in Copies : Valid(hdr'[c]) /\ Newer(hdr'[c], hdr'[Other(c)])
            Blank == acked = 0 /\ \A c \in Copies : ~Valid(hdr'[c])
<1>. SUFFICES /\ slot' \in [Slots -> Content] /\ hdr' \in [Copies -> Header]
              /\ Blank \/ Sound(acked) \/ Sound(acked + 1)
  OBVIOUS
<1>1. /\ slot \in [Slots -> Content] /\ hdr \in [Copies -> Header] /\ head \in Header
      /\ scan \in ScanState /\ acked \in 0 .. MaxSeq /\ src \in Copies
      /\ tgt \in Copies /\ newHead \in Header /\ cur \in Slots /\ rec \in Content
      /\ status \in {"down", "open", "frozen"}
      /\ acked \in Int
  BY DEF IInv, TypeOK
<1>2. /\ "a" \in Copies /\ "b" \in Copies /\ Other("a") = "b" /\ Other("b") = "a"
      /\ \A c \in Copies : c = "a" \/ c = "b"
      /\ Other(src) \in Copies /\ Other(src) # src /\ Other(Other(src)) = src
      /\ \A c \in Copies : c = src \/ c = Other(src)
  BY <1>1 DEF Copies, Other
<1>3. ASSUME NEW x, NEW y, ~Valid(y) PROVE Newer(x, y)
  BY <1>3 DEF Newer
<1>4. ~Valid(NoHeader) /\ NoHeader \in Header /\ Bad \in Content /\ Bad.seq <= 0
      /\ FirstHeader \in Header /\ Valid(FirstHeader) /\ FirstHeader.ckpt.slot = 0
  BY FixedTypes DEF NoHeader, Valid, Bad, Record, FirstHeader, NoPoint
<1>5. \/ UNCHANGED media
      \/ /\ pc \in SlotWrites /\ hdr' = hdr
         /\ pc = "reclaim" => cur # head.ckpt.slot
         /\ \E r \in {Bad, rec} : slot' = [slot EXCEPT ![cur] = r]
      \/ /\ pc \in HeaderWrites /\ slot' = slot
         /\ \E h \in {NoHeader, newHead} : hdr' = [hdr EXCEPT ![tgt] = h]
  BY DEF InterruptedWrite
<1>6. slot' \in [Slots -> Content] /\ hdr' \in [Copies -> Header]
  BY <1>1, <1>4, <1>5 DEF media
<1>7. CASE Creating
  <2>1. /\ acked = 0 /\ newHead = FirstHeader /\ ~Valid(hdr["a"])
        /\ pc # "createRecord" => Linear(slot, 1)
        /\ IF pc = "createA" THEN tgt = "a" /\ hdr["b"] = FirstHeader
                             ELSE tgt = "b" /\ ~Valid(hdr["b"])
    BY <1>7 DEF IInv, CreateInv
  <2>2. \A c \in Copies : hdr'[c] \in {hdr[c], NoHeader, FirstHeader}
    BY <1>1, <1>5, <2>1 DEF media
  <2>3. CASE \A c \in Copies : ~Valid(hdr'[c])
    BY <1>6, <2>1, <2>3
  <2>4. CASE \E c \in Copies : Valid(hdr'[c])
    <3>1. pc # "createRecord"
      BY <1>2, <1>5, <2>1, <2>4 DEF media, HeaderWrites
    <3>2. slot' = slot /\ Linear(slot, 1)
      BY <1>5, <1>7, <2>1, <3>1 DEF media, Creating, SlotWrites
    <3>3. \A c \in Copies : Valid(hdr'[c]) => hdr'[c] = FirstHeader
      BY <1>2, <1>4, <2>1, <2>2
    <3>4. \A c \in Copies : Valid(hdr'[c]) => HdrFits(slot', hdr'[c], acked + 1)
      BY <1>4, <2>1, <3>2, <3>3 DEF HdrFits
    <3>5. PICK c \in Copies : Valid(hdr'[c])
      BY <2>4
    <3>6. Newer(hdr'[c], hdr'[Other(c)])
      <4>1. Other(c) \in Copies
        BY <1>2
      <4>2. CASE ~Valid(hdr'[Other(c)])
        BY <4>2, <1>3
      <4>3. CASE Valid(hdr'[Other(c)])
        BY <4>1, <4>3, <3>3, <3>5 DEF Newer
      <4>. QED BY <4>2, <4>3
    <3>. QED BY <1>6, <2>1, <3>4, <3>5, <3>6
  <2>. QED BY <1>6, <2>3, <2>4
<1>8. CASE status # "open"
  <2>1. pc = "idle" /\ slot' = slot /\ hdr' = hdr
    BY <1>5, <1>8 DEF IInv, DownInv, SlotWrites, HeaderWrites, media
  <2>. QED BY <1>6, <1>8, <2>1 DEF IInv, DownInv, Settled
<1>9. CASE Operating
  <2>1. /\ Settled(acked) /\ Valid(head) /\ HdrFits(slot, head, acked)
        /\ IF pc \in {"publishSecond", "activateSecond"}
             THEN tgt = src /\ hdr[Other(src)] = newHead
             ELSE hdr[src] = head /\ Newer(head, hdr[Other(src)])
        /\ pc \in HeaderWrites =>
             /\ Valid(newHead) /\ HdrFits(slot, newHead, acked)
             /\ pc \notin {"publishSecond", "activateSecond"} => tgt = Other(src)
             /\ pc # "mirror" => newHead.seq = head.seq + 1
             /\ pc = "mirror" => newHead = head
             /\ pc \in {"checkpointHeader", "publishFirst", "publishSecond"} =>
                  newHead.catalog = head.catalog
             /\ pc \in {"activateFirst", "activateSecond"} =>
                  ~head.catalog /\ newHead.catalog /\ newHead.ckpt = head.ckpt
    BY <1>9 DEF IInv, MediaInv
  <2>2. CASE UNCHANGED media
    BY <2>1, <2>2, <1>6 DEF Settled, media
  <2>3. CASE /\ pc \in HeaderWrites /\ slot' = slot
             /\ \E h \in {NoHeader, newHead} : hdr' = [hdr EXCEPT ![tgt] = h]
    <3>1. PICK h \in {NoHeader, newHead} : hdr' = [hdr EXCEPT ![tgt] = h]
      BY <2>3
    <3>2. \A c \in Copies : hdr'[c] = IF c = tgt THEN h ELSE hdr[c]
      BY <1>1, <3>1
    <3>3. \A c \in Copies : Valid(hdr'[c]) => HdrFits(slot', hdr'[c], acked)
      BY <1>4, <2>1, <2>3, <3>2 DEF Settled
    <3>4. Newer(newHead, head) /\ Newer(newHead, newHead)
      BY <1>1, <1>9, <2>1, <2>3 DEF Newer, Header, HeaderWrites, Operating, Creating
    <3>5. \E c \in Copies : Valid(hdr'[c]) /\ Newer(hdr'[c], hdr'[Other(c)])
      <4>1. CASE pc \in {"publishSecond", "activateSecond"}
        <5>1. /\ hdr'[Other(src)] = newHead /\ hdr'[src] = h
          BY <1>1, <1>2, <2>1, <3>2, <4>1
        <5>2. Newer(newHead, h)
          BY <1>3, <1>4, <3>4
        <5>. QED BY <1>2, <2>1, <2>3, <5>1, <5>2
      <4>2. CASE pc \notin {"publishSecond", "activateSecond"}
        <5>1. hdr'[Other(src)] = h /\ hdr'[src] = head
          BY <1>1, <1>2, <2>1, <2>3, <3>2, <4>2
        <5>2. CASE h = NoHeader
          BY <1>1, <1>3, <1>4, <2>1, <5>1, <5>2
        <5>3. CASE h = newHead
          BY <1>2, <2>1, <2>3, <3>4, <5>1, <5>3
        <5>. QED BY <5>2, <5>3
      <4>. QED BY <4>1, <4>2
    <3>. QED BY <1>6, <2>1, <3>3, <3>5 DEF Settled
  <2>4. CASE /\ pc \in SlotWrites /\ hdr' = hdr
             /\ pc = "reclaim" => cur # head.ckpt.slot
             /\ \E r \in {Bad, rec} : slot' = [slot EXCEPT ![cur] = r]
    <3>1. PICK r \in {Bad, rec} : slot' = [slot EXCEPT ![cur] = r]
      BY <2>4
    <3>2. CASE pc = "reclaim"
      <4>. DEFINE p == head.ckpt
      <4>1. /\ Layout(slot, p, acked) /\ cur \in Ring /\ rec = Zero
            /\ Dist(p.slot, cur) > acked - p.seq /\ reclaimReady
        BY <1>9, <2>4, <3>2 DEF IInv, ScanInv
      <4>2. r \in Content /\ r.seq <= 0 /\ p \in Point
        <5>1. Zero \in Content /\ Zero.seq <= 0
          BY FixedTypes DEF Zero, Record
        <5>2. p \in Point
          BY <1>1 DEF Header
        <5>. QED BY <1>4, <4>1, <5>1, <5>2
      <4>3. Layout(slot', p, acked)
        <5>. HIDE DEF p
        <5>. QED BY <1>1, <3>1, <4>1, <4>2, LayoutErase
      <4>4. \A c \in Copies : hdr[c].ckpt = p
        BY <1>9, <4>1 DEF IInv, MediaInv
      <4>. QED BY <1>6, <2>1, <2>4, <4>3, <4>4 DEF Settled, HdrFits
    <3>3. CASE pc \in {"append", "checkpoint"}
      <4>1. /\ rec.seq = acked + 1 /\ r \in Content
            /\ Anchored(scan) => \A c \in Copies : Valid(hdr[c]) =>
                 Layout(slot, hdr[c].ckpt, acked) /\ hdr[c].ckpt.seq >= scan.anchor.seq
        BY <1>1, <1>4, <1>9, <3>3 DEF IInv, ScanInv
      <4>2. \A c \in Copies : Valid(hdr[c]) => HdrFits(slot, hdr[c], acked)
        BY <2>1 DEF Settled
      <4>3. CASE r = Bad
        <5>1. \A c \in Copies : Valid(hdr[c]) => HdrFits(slot', hdr[c], acked)
          BY <1>1, <1>4, <1>9, <3>1, <3>3, <4>1, <4>2, <4>3, AppendSlot
        <5>. QED BY <1>6, <2>1, <2>4, <5>1 DEF Settled
      <4>4. CASE r = rec
        <5>1. \A c \in Copies : Valid(hdr[c]) => HdrFits(slot', hdr[c], acked + 1)
          BY <1>1, <1>9, <3>1, <3>3, <4>1, <4>2, <4>4, AppendSlot
        <5>2. /\ acked + 1 >= 1
              /\ \E c \in Copies : Valid(hdr'[c]) /\ Newer(hdr'[c], hdr'[Other(c)])
          BY <1>1, <2>1, <2>4 DEF Settled
        <5>3. Sound(acked + 1)
          BY <2>4, <5>1, <5>2
        <5>. QED BY <1>6, <5>3
      <4>. QED BY <4>3, <4>4
    <3>. QED BY <1>9, <2>4, <3>2, <3>3 DEF SlotWrites, Operating, Creating
  <2>. QED BY <1>5, <2>2, <2>3, <2>4
<1>. QED BY <1>1, <1>7, <1>8, <1>9 DEF Operating

(* A write error or the end of the process.                                *)
LEMMA FaultStep ==
  ASSUME IInv, WriteFails \/ CloseOrCrash
  PROVE  IInv'
<1>1. /\ InterruptedWrite /\ status' \in {"frozen", "down"} /\ pc' = "idle"
      /\ cur' = 0 /\ rec' = Zero /\ tgt' = "a" /\ newHead' = NoHeader
      /\ acked' = acked
      /\ \/ UNCHANGED <<head, src, degraded, reclaimReady, scan, ringReady>>
         \/ /\ head' = NoHeader /\ src' = "a" /\ degraded' = FALSE
            /\ reclaimReady' = FALSE /\ scan' = NoScan /\ ringReady' = FALSE
  BY DEF WriteFails, CloseOrCrash, Finish, member
<1>2. TypeOK'
  <2>1. slot' \in [Slots -> Content] /\ hdr' \in [Copies -> Header]
    BY <1>1, InterruptedSettles
  <2>2. rec' \in Content /\ tgt' \in Copies /\ newHead' \in Header /\ cur' \in Slots
    BY <1>1, FixedTypes, ConstantsAssumption DEF Copies, Slots
  <2>3. head' \in Header /\ src' \in Copies /\ scan' \in ScanState
        /\ degraded' \in BOOLEAN /\ reclaimReady' \in BOOLEAN /\ ringReady' \in BOOLEAN
    BY <1>1, FixedTypes DEF IInv, TypeOK, Copies
  <2>. QED BY <1>1, <2>1, <2>2, <2>3 DEF IInv, TypeOK
<1>3. DownInv'
  BY <1>1, InterruptedSettles DEF DownInv, Settled
<1>. QED BY <1>1, <1>2, <1>3
       DEF IInv, CreateInv, MediaInv, ScanInv, Operating, Creating

-----------------------------------------------------------------------------
(* What holds in every reachable state.                                    *)

(* The inductive invariant: where every record and header of the member    *)
(* lies, through every operation, write error and crash.                   *)
THEOREM Invariance == Spec => []IInv
<1>1. IInv /\ [Next]_vars => IInv'
  <2>. SUFFICES ASSUME IInv, [Next]_vars PROVE IInv'
    OBVIOUS
  <2>1. CASE UNCHANGED vars
    <3>1. TypeOK'
      BY <2>1 DEF vars, IInv, TypeOK
    <3>2. CreateInv' /\ DownInv'
      BY <2>1 DEF vars, IInv, CreateInv, DownInv, Creating, Settled
    <3>3. MediaInv'
      BY <2>1 DEF vars, IInv, MediaInv, Operating, Creating, Settled
    <3>4. ScanInv'
      BY <2>1 DEF vars, IInv, ScanInv, Operating, Creating
    <3>. QED BY <3>1, <3>2, <3>3, <3>4 DEF IInv
  <2>. QED BY <2>1, CreateStep, OpenStep, StartWriteStep, AppendDoneStep,
              StartHeaderStep, HeaderDoneStep, ReclaimStep, FaultStep DEF Next
<1>. QED BY <1>1, InitIInv, PTL DEF Spec

(* Every variable keeps its type: slots, header copies, the scan state of  *)
(* Journal and the write in progress (journal.zig, member.zig).            *)
THEOREM TypeCorrect == Spec => []TypeOK
<1>1. IInv => TypeOK
  BY DEF IInv
<1>. QED BY <1>1, Invariance, PTL

(* A created member can always be opened: select finds a header whatever   *)
(* write of publishCheckpoint, publishCheckpointRedundant or               *)
(* activateCatalogData was interrupted.                                    *)
THEOREM CreatedMemberOpens == Spec => []HeadersSelectable
<1>1. IInv => HeadersSelectable
  <2>. SUFFICES ASSUME IInv, acked > 0 PROVE Select(hdr).ok
    BY DEF HeadersSelectable
  <2>1. \E L \in {acked, acked + 1} : Settled(L)
    <3>1. acked # 0 /\ ~Creating
      <4>1. acked # 0
        BY DEF IInv, TypeOK
      <4>. QED BY <4>1 DEF IInv, CreateInv
    <3>2. CASE status = "open"
      BY <3>1, <3>2 DEF IInv, MediaInv, Operating
    <3>3. CASE status # "open"
      BY <3>1, <3>3 DEF IInv, DownInv
    <3>. QED BY <3>2, <3>3
  <2>2. PICK c \in Copies : Valid(hdr[c]) /\ Newer(hdr[c], hdr[Other(c)])
    BY <2>1 DEF Settled
  <2>3. hdr \in [Copies -> Header]
    BY DEF IInv, TypeOK
  <2>. QED BY <2>2, <2>3, SelectNewer
<1>. QED BY <1>1, Invariance, PTL

(* Recovery from either header copy alone loses no acknowledged record:    *)
(* the scan of scanInto succeeds and ends at the last acknowledged record  *)
(* or at the one that was being appended.                                  *)
THEOREM NothingAcknowledgedIsLost == Spec => []EveryHeaderCopyRecovers
<1>1. IInv => EveryHeaderCopyRecovers
  <2>. SUFFICES ASSUME IInv, NEW c \in Copies, Valid(hdr[c])
                PROVE  /\ ScanOk(slot, hdr[c])
                       /\ Scan(slot, hdr[c]).tail.seq \in {acked, acked + 1}
    BY DEF EveryHeaderCopyRecovers
  <2>1. /\ slot \in [Slots -> Content] /\ hdr[c] \in Header /\ acked \in Int
    BY DEF IInv, TypeOK
  <2>2. \E L \in {acked, acked + 1} : HdrFits(slot, hdr[c], L)
    <3>1. CASE Creating
      <4>1. /\ acked = 0 /\ hdr[c] = FirstHeader /\ Linear(slot, 1)
        BY <3>1 DEF IInv, CreateInv, Copies
      <4>. QED BY <4>1 DEF HdrFits, FirstHeader, NoPoint
    <3>2. CASE Operating
      BY <3>2 DEF IInv, MediaInv, Settled
    <3>3. CASE status # "open"
      BY <3>3 DEF IInv, DownInv, Settled
    <3>. QED BY <3>1, <3>2, <3>3 DEF Operating
  <2>3. PICK L \in {acked, acked + 1} : HdrFits(slot, hdr[c], L)
    BY <2>2
  <2>4. L \in Int
    BY <2>1
  <2>5. ScanOk(slot, hdr[c]) /\ Scan(slot, hdr[c]).tail.seq = L
    BY <2>1, <2>3, <2>4, ScanFits
  <2>. QED BY <2>5
<1>. QED BY <1>1, Invariance, PTL

(* Only one slot holds the last record.                                    *)
LEMMA LastSlotUnique ==
  ASSUME NEW m \in [Slots -> Content], NEW h \in Header, NEW L \in Int,
         HdrFits(m, h, L), NEW i \in Slots, NEW j \in Slots,
         m[i].seq = L, m[j].seq = L
  PROVE  i = j
<1>1. CASE Layout(m, h.ckpt, L)
  <2>1. h.ckpt \in Point
    BY DEF Header
  <2>2. /\ i \in Ring /\ j \in Ring /\ h.ckpt.slot \in Ring
        /\ Dist(h.ckpt.slot, i) = Dist(h.ckpt.slot, j)
        /\ Dist(h.ckpt.slot, i) \in 0 .. N - 2
    <3>1. i \in Ring /\ Dist(h.ckpt.slot, i) = L - h.ckpt.seq
      BY <1>1, <2>1, TailDistance
    <3>2. j \in Ring /\ Dist(h.ckpt.slot, j) = L - h.ckpt.seq
      BY <1>1, <2>1, TailDistance
    <3>3. h.ckpt.slot \in Ring
      BY <1>1 DEF Layout
    <3>. QED BY <3>1, <3>2, <3>3, DistFacts
  <2>. QED BY <2>2, DistInverse
<1>2. CASE Linear(m, L)
  BY <1>2, ConstantsAssumption DEF Linear, Slots
<1>. QED BY <1>1, <1>2 DEF HdrFits

(* What the journal caches of its tail is what a rescan finds, so that the *)
(* next append continues the chain that is on the media.                   *)
THEOREM CacheAgreesWithMedia == Spec => []CachedTailIsOnMedia
<1>1. IInv => CachedTailIsOnMedia
  <2>. SUFFICES ASSUME IInv, status = "open", Valid(head)
                PROVE  /\ ScanOk(slot, head)
                       /\ Scan(slot, head).tail = scan.tail
                       /\ Scan(slot, head).tailSlot = scan.tailSlot
    BY DEF CachedTailIsOnMedia
  <2>1. Operating
    BY DEF IInv, CreateInv, Operating
  <2>2. /\ slot \in [Slots -> Content] /\ head \in Header /\ acked \in Int
        /\ scan.tailSlot \in Slots
    BY DEF IInv, TypeOK, ScanState
  <2>3. /\ HdrFits(slot, head, acked) /\ slot[scan.tailSlot] = scan.tail
        /\ scan.tail.seq = acked
    BY <2>1 DEF IInv, MediaInv, ScanInv
  <2>4. /\ ScanOk(slot, head) /\ Scan(slot, head) \in ScanState
        /\ Scan(slot, head).tail.seq = acked
        /\ slot[Scan(slot, head).tailSlot] = Scan(slot, head).tail
    BY <2>2, <2>3, ScanFits
  <2>5. Scan(slot, head).tailSlot \in Slots
    BY <2>4 DEF ScanState
  <2>6. Scan(slot, head).tailSlot = scan.tailSlot
    BY <2>2, <2>3, <2>4, <2>5, LastSlotUnique
  <2>. QED BY <2>3, <2>4, <2>6
<1>. QED BY <1>1, Invariance, PTL

(* The writes of append, checkpoint and reclaim hit free or obsolete slots.*)
LEMMA SlotWriteObsolete ==
  ASSUME IInv, pc \in SlotWrites, pc = "reclaim" => cur # head.ckpt.slot,
         NEW r, slot' = [slot EXCEPT ![cur] = r],
         NEW i \in Slots, slot[i].seq > 0, slot'[i] # slot[i]
  PROVE  i # 0 /\ \A c \in Copies : Valid(hdr[c]) => hdr[c].ckpt.seq > slot[i].seq
<1>1. i = cur /\ slot \in [Slots -> Content] /\ slot[i].seq \in Int
  BY DEF IInv, TypeOK, Content
<1>2. status = "open"
  BY DEF IInv, DownInv, SlotWrites
<1>3. ASSUME pc = "createRecord" PROVE FALSE
  <2>1. slot[i].seq = 0
    BY <1>3 DEF IInv, CreateInv, Creating
  <2>. QED BY <2>1
<1>4. Operating
  BY <1>2, <1>3 DEF Operating, Creating, SlotWrites
<1>5. pc = "reclaim"
  BY <1>1, <1>3, <1>4 DEF IInv, ScanInv, SlotWrites
<1>6. /\ Layout(slot, head.ckpt, acked) /\ cur \in Ring /\ reclaimReady
      /\ Dist(head.ckpt.slot, cur) > acked - head.ckpt.seq
  BY <1>4, <1>5 DEF IInv, ScanInv
<1>7. head.ckpt.seq \in Int /\ acked \in Int /\ head.ckpt.slot \in Ring
  BY <1>6 DEF IInv, TypeOK, Header, Point, Layout
<1>8. Dist(head.ckpt.slot, cur) \in Int
  BY <1>6, <1>7, DistFacts
<1>9. slot[i].seq < head.ckpt.seq
  BY <1>1, <1>6, <1>7, <1>8 DEF Layout
<1>10. \A c \in Copies : hdr[c].ckpt = head.ckpt
  BY <1>4, <1>6 DEF IInv, MediaInv
<1>. QED BY <1>1, <1>6, <1>7, <1>9, <1>10 DEF Ring

(* No step, interrupted or not, replaces a record that recovery from some  *)
(* readable header copy could still need (reclaimPublishedAnchor runs only *)
(* behind the barrier of publishCheckpointRedundant).                      *)
THEOREM NeededRecordsSurvive == Spec => OnlyObsoleteRecordsErased
<1>1. IInv /\ [Next]_vars => [ErasesOnlyObsolete]_vars
  <2>. SUFFICES ASSUME IInv, Next PROVE ErasesOnlyObsolete
    OBVIOUS
  <2>1. \/ slot' = slot
        \/ /\ pc \in SlotWrites /\ (pc = "reclaim" => cur # head.ckpt.slot)
           /\ \E r : slot' = [slot EXCEPT ![cur] = r]
    <3>1. CASE CreateRecordDone \/ CreateHeaderDone
      BY <3>1 DEF CreateRecordDone, CreateHeaderDone, SlotWrites
    <3>2. CASE AppendDone \/ CheckpointHeaderDone
      BY <3>2 DEF AppendDone, CheckpointHeaderDone, SlotWrites
    <3>3. CASE ReclaimPublishedAnchor \/ ReclaimSlotDone \/ ReclaimDone
      BY <3>3 DEF ReclaimPublishedAnchor, ReclaimSlotDone, ReclaimDone, SlotWrites,
                  media
    <3>4. CASE WriteFails \/ CloseOrCrash
      BY <3>4 DEF WriteFails, CloseOrCrash, InterruptedWrite, media
    <3>5. CASE \/ Open \/ ReopenJournal \/ PublishCheckpointRedundant
               \/ ActivateCatalogData \/ FirstCopyDone \/ SecondCopyDone
      BY <3>5 DEF Open, ReopenJournal, PublishCheckpointRedundant,
                  ActivateCatalogData, FirstCopyDone, SecondCopyDone, media
    <3>6. CASE Append \/ Checkpoint
      BY <3>6 DEF Append, Checkpoint, StartWrite, media
    <3>. QED BY <3>1, <3>2, <3>3, <3>4, <3>5, <3>6 DEF Next
  <2>2. CASE slot' = slot
    BY <2>2 DEF ErasesOnlyObsolete
  <2>3. CASE /\ pc \in SlotWrites /\ (pc = "reclaim" => cur # head.ckpt.slot)
             /\ \E r : slot' = [slot EXCEPT ![cur] = r]
    BY <2>3, SlotWriteObsolete DEF ErasesOnlyObsolete
  <2>. QED BY <2>1, <2>2, <2>3
<1>. QED BY <1>1, Invariance, PTL DEF Spec, OnlyObsoleteRecordsErased

=============================================================================

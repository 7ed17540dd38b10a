------------------------ MODULE ControlJournalSteps -------------------------
(***************************************************************************)
(* The initial states of ControlJournal satisfy IInv, and creation, open,  *)
(* append and the header writes preserve it.                               *)
(***************************************************************************)
EXTENDS ControlJournalLayout

-----------------------------------------------------------------------------
(* The initial state, and one lemma per group of actions.                  *)

LEMMA InitIInv == Init => IInv
<1>. SUFFICES ASSUME Init PROVE IInv
  OBVIOUS
<1>1. TypeOK
  <2>1. slot \in [Slots -> Content] /\ hdr \in [Copies -> Header]
    BY FixedTypes DEF Init
  <2>2. /\ status \in {"down", "open", "frozen"}
        /\ pc \in {"idle"} \cup SlotWrites \cup HeaderWrites
        /\ cur \in Slots /\ tgt \in Copies /\ src \in Copies
        /\ acked \in 0 .. MaxSeq
    BY ConstantsAssumption DEF Init, Copies, Slots, SlotWrites
  <2>3. /\ head \in Header /\ newHead \in Header /\ rec \in Content
        /\ scan \in ScanState
        /\ degraded \in BOOLEAN /\ reclaimReady \in BOOLEAN /\ ringReady \in BOOLEAN
    BY FixedTypes DEF Init
  <2>. QED BY <2>1, <2>2, <2>3 DEF TypeOK
<1>2. CreateInv
  BY DEF Init, CreateInv, NoHeader, Zero, Record, Valid, Copies
<1>3. DownInv /\ MediaInv /\ ScanInv
  BY DEF Init, DownInv, MediaInv, ScanInv, Operating, Creating
<1>. QED BY <1>1, <1>2, <1>3 DEF IInv

LEMMA CreateStep ==
  ASSUME IInv, CreateRecordDone \/ CreateHeaderDone
  PROVE  IInv'
<1>1. CASE CreateRecordDone
  <2>1. Linear(slot', 1)
    BY <1>1, ConstantsAssumption
       DEF CreateRecordDone, IInv, TypeOK, CreateInv, Creating, Linear, Slots, Record
  <2>. QED BY <1>1, <2>1, ConstantsAssumption
     DEF CreateRecordDone, IInv, TypeOK, CreateInv, DownInv, MediaInv, ScanInv,
         Operating, Creating, writing, member, SlotWrites, HeaderWrites, Record,
         Slots, Content
<1>2. CASE CreateHeaderDone /\ pc = "createB"
  BY <1>2, ConstantsAssumption
     DEF CreateHeaderDone, IInv, TypeOK, CreateInv, DownInv, MediaInv, ScanInv,
         Operating, Creating, writing, member, SlotWrites, HeaderWrites, Copies
<1>3. CASE CreateHeaderDone /\ pc = "createA"
  <2>1. TypeOK'
    BY <1>3, FixedTypes, ConstantsAssumption
       DEF CreateHeaderDone, IInv, TypeOK, Finish, member, Slots, Copies
  <2>2. /\ hdr' = [c \in Copies |-> FirstHeader] /\ slot' = slot /\ acked' = 1
        /\ status' = "down" /\ pc' = "idle" /\ Linear(slot, 1)
    BY <1>3 DEF CreateHeaderDone, Finish, IInv, TypeOK, CreateInv, Creating, Copies
  <2>3. Settled(1)'
    BY <2>2 DEF Settled, HdrFits, FirstHeader, NoPoint, Newer, Valid, Copies, Other
  <2>. QED BY <2>1, <2>2, <2>3
     DEF IInv, CreateInv, DownInv, MediaInv, ScanInv, Operating, Creating
<1>. QED BY <1>1, <1>2, <1>3 DEF CreateHeaderDone

(* Nothing that IInv speaks of changes but what an action names, so each   *)
(* of the remaining lemmas proves the conjuncts its actions disturb.       *)

LEMMA OpenStep ==
  ASSUME IInv, Open \/ ReopenJournal
  PROVE  IInv'
<1>1. CASE Open
  <2>. DEFINE s == Select(hdr)
              h == s.header
  <2>0. /\ status = "down" /\ pc = "idle" /\ s.ok /\ slot' = slot /\ hdr' = hdr
        /\ status' = "open" /\ pc' = "idle" /\ head' = h /\ src' = s.source
        /\ degraded' = s.degraded /\ reclaimReady' = FALSE
        /\ Openable(slot, h) /\ scan' = Scan(slot, h)
        /\ ringReady' = ~Anchored(Scan(slot, h)) /\ acked' = Scan(slot, h).tail.seq
        /\ UNCHANGED <<cur, rec, tgt, newHead>>
    BY <1>1 DEF Open, OpenJournal, media, writing, IInv, DownInv
  <2>1. slot \in [Slots -> Content] /\ hdr \in [Copies -> Header] /\ acked \in Int
    BY ConstantsAssumption DEF IInv, TypeOK
  <2>2. \E c \in Copies : Valid(hdr[c])
    <3>1. CASE \A c \in Copies : ~Valid(hdr[c])
      BY <3>1, <2>0 DEF Select, NoSelection, Copies
    <3>. QED BY <3>1
  <2>3. PICK L \in {acked, acked + 1} : Settled(L)
    BY <2>0, <2>2 DEF IInv, DownInv
  <2>4. /\ s.source \in Copies /\ s.degraded \in BOOLEAN /\ h = hdr[s.source]
        /\ Valid(h) /\ Newer(h, hdr[Other(s.source)])
    BY <2>1, <2>3, SelectNewer DEF Settled
  <2>5. h \in Header /\ HdrFits(slot, h, L) /\ L \in Int
    BY <2>1, <2>3, <2>4 DEF Settled
  <2>6. /\ Scan(slot, h) \in ScanState
        /\ Scan(slot, h).tail.seq = L
        /\ slot[Scan(slot, h).tailSlot] = Scan(slot, h).tail
        /\ L >= 1
        /\ IF Anchored(Scan(slot, h))
             THEN Scan(slot, h).anchor = h.ckpt /\ Layout(slot, h.ckpt, L)
             ELSE /\ Linear(slot, L)
                  /\ Scan(slot, h).full = (Scan(slot, h).next = N)
                  /\ ~Scan(slot, h).damage => Scan(slot, h).next = L
    <3>. HIDE DEF h
    <3>. QED BY <2>1, <2>5, ScanFits
  <2>. HIDE DEF s, h
  <2>7. acked' = L /\ L \in 0 .. MaxSeq
    <3>1. Scan(slot, h).tail \in Content BY <2>6 DEF ScanState
    <3>2. L \in {-1} \cup 0 .. MaxSeq BY <2>6, <3>1 DEF Content
    <3>. QED BY <2>0, <2>6, <3>2, ConstantsAssumption
  <2>8. TypeOK'
    BY <2>0, <2>4, <2>5, <2>6, <2>7 DEF IInv, TypeOK
  <2>9. Settled(L)'
    BY <2>0, <2>3 DEF Settled
  <2>10. MediaInv'
    BY <2>0, <2>4, <2>5, <2>7, <2>9
       DEF MediaInv, Operating, Creating, HeaderWrites
  <2>11. ScanInv'
    <3>1. Anchored(scan)' = Anchored(Scan(slot, h))
      BY <2>0 DEF Anchored
    <3>. QED BY <2>0, <2>6, <2>7, <3>1
           DEF ScanInv, Operating, Creating, HeaderWrites, Openable
  <2>. QED BY <2>0, <2>8, <2>10, <2>11 DEF IInv, CreateInv, DownInv, Creating
<1>2. CASE ReopenJournal
  <2>0. /\ Operating /\ pc = "idle" /\ status = "open" /\ slot' = slot /\ hdr' = hdr
        /\ UNCHANGED <<status, pc, head, src, degraded, reclaimReady>>
        /\ Openable(slot, head) /\ scan' = Scan(slot, head)
        /\ ringReady' = ~Anchored(Scan(slot, head))
        /\ acked' = Scan(slot, head).tail.seq
        /\ UNCHANGED <<cur, rec, tgt, newHead>>
    BY <1>2 DEF ReopenJournal, Ready, OpenJournal, media, writing, member,
                Operating, Creating
  <2>1. /\ slot \in [Slots -> Content] /\ acked \in Int /\ head \in Header
        /\ HdrFits(slot, head, acked)
    BY <2>0, ConstantsAssumption DEF IInv, TypeOK, MediaInv
  <2>2. /\ Scan(slot, head) \in ScanState
        /\ Scan(slot, head).tail.seq = acked
        /\ slot[Scan(slot, head).tailSlot] = Scan(slot, head).tail
        /\ acked >= 1
        /\ IF Anchored(Scan(slot, head))
             THEN Scan(slot, head).anchor = head.ckpt /\ Layout(slot, head.ckpt, acked)
             ELSE /\ Linear(slot, acked)
                  /\ Scan(slot, head).full = (Scan(slot, head).next = N)
                  /\ ~Scan(slot, head).damage => Scan(slot, head).next = acked
    BY <2>1, ScanFits
  <2>3. acked' = acked
    BY <2>0, <2>2
  <2>4. TypeOK'
    BY <2>0, <2>2, <2>3 DEF IInv, TypeOK
  <2>5. MediaInv'
    BY <2>0, <2>3
       DEF IInv, MediaInv, Operating, Creating, HeaderWrites, Settled
  <2>6. ScanInv'
    <3>1. Anchored(scan)' = Anchored(Scan(slot, head))
      BY <2>0 DEF Anchored
    <3>. QED BY <2>0, <2>2, <2>3, <3>1
           DEF ScanInv, Operating, Creating, HeaderWrites, Openable
  <2>. QED BY <2>0, <2>4, <2>5, <2>6 DEF IInv, CreateInv, DownInv, Creating
<1>. QED BY <1>1, <1>2

LEMMA StartWriteStep ==
  ASSUME IInv, Append \/ Checkpoint
  PROVE  IInv'
<1>1. PICK kind \in {"append", "checkpoint"}, snap \in BOOLEAN :
        /\ StartWrite(kind, snap)
        /\ kind = "checkpoint" => ~Anchored(scan)
  BY DEF Append, Checkpoint
<1>2. /\ Operating /\ pc = "idle"
      /\ Anchored(scan) => ringReady
      /\ ~scan.damage /\ ~scan.full /\ scan.tail.seq < MaxSeq
      /\ Anchored(scan) => slot[scan.next].seq = 0
      /\ pc' = kind /\ cur' = scan.next /\ rec' = Record(scan.tail.seq + 1, snap)
      /\ UNCHANGED <<slot, hdr, status, head, src, degraded, reclaimReady, scan,
                     ringReady, tgt, newHead, acked>>
  BY <1>1 DEF StartWrite, PrepareLocked, Ready, media, member, Operating, Creating
<1>3. scan.tail.seq = acked /\ acked \in 0 .. MaxSeq /\ scan \in ScanState
  BY <1>2 DEF IInv, TypeOK, ScanInv
<1>4. scan.next \in Slots /\ slot[scan.next].seq <= 0
  <2>1. CASE Anchored(scan)
    <3>1. scan.next = NextRingSlot(scan.tailSlot) /\ scan.tailSlot \in Slots
      BY <1>2, <1>3, <2>1 DEF IInv, ScanInv, ScanState
    <3>2. scan.next \in Slots
      BY <3>1, ConstantsAssumption DEF NextRingSlot, Slots
    <3>. QED BY <3>2, <2>1, <1>2
  <2>2. CASE ~Anchored(scan)
    <3>1. Linear(slot, acked) /\ scan.next = acked /\ scan.next # N
      BY <1>2, <2>2 DEF IInv, ScanInv
    <3>. QED BY <3>1, <1>3, ConstantsAssumption DEF Linear, Slots
  <2>. QED BY <2>1, <2>2
<1>5. rec' \in Content /\ rec'.seq = acked + 1
  BY <1>2, <1>3, ConstantsAssumption DEF Record, Content
<1>6. TypeOK'
  BY <1>1, <1>2, <1>4, <1>5 DEF IInv, TypeOK, SlotWrites
<1>7. Operating' /\ ~Creating' /\ kind \notin HeaderWrites /\ kind # "reclaim"
  BY <1>1, <1>2 DEF Operating, Creating, HeaderWrites
<1>8. MediaInv'
  BY <1>1, <1>2, <1>7 DEF IInv, MediaInv, Settled
<1>9. ScanInv'
  BY <1>1, <1>2, <1>4, <1>5, <1>7 DEF IInv, ScanInv, Anchored
<1>. QED BY <1>2, <1>6, <1>7, <1>8, <1>9 DEF IInv, CreateInv, DownInv, Operating

LEMMA AppendDoneStep ==
  ASSUME IInv, AppendDone
  PROVE  IInv'
<1>0. /\ Operating /\ pc \in {"append", "checkpoint"} /\ pc \notin HeaderWrites
      /\ pc # "reclaim"
  BY DEF AppendDone, IInv, DownInv, TypeOK, Operating, Creating, HeaderWrites
<1>1. /\ slot' = [slot EXCEPT ![cur] = rec] /\ scan' = Appended /\ acked' = rec.seq
      /\ UNCHANGED <<hdr, status, head, src, degraded, ringReady>>
  BY DEF AppendDone
<1>2. /\ rec \in Content /\ rec.seq = acked + 1 /\ acked \in 0 .. MaxSeq
      /\ scan \in ScanState /\ slot \in [Slots -> Content] /\ head \in Header
      /\ hdr \in [Copies -> Header] /\ cur = scan.next
      /\ Anchored(scan) => ringReady
      /\ pc = "checkpoint" => ~Anchored(scan)
  BY <1>0 DEF IInv, TypeOK, ScanInv
<1>3. /\ cur \in Ring /\ cur \in Slots
      /\ IF Anchored(scan) THEN Layout(slot', scan.anchor, acked + 1)
                           ELSE Linear(slot', acked + 1)
      /\ \A h \in Header :
           /\ HdrFits(slot, h, acked)
           /\ Anchored(scan) => /\ Layout(slot, h.ckpt, acked)
                                /\ h.ckpt.seq >= scan.anchor.seq
           => /\ HdrFits(slot', h, acked + 1)
              /\ Anchored(scan) => Layout(slot', h.ckpt, acked + 1)
  BY <1>0, <1>1, <1>2, AppendSlot
<1>4. acked' = acked + 1 /\ acked' \in 0 .. MaxSeq /\ rec.seq > 0
  BY <1>1, <1>2, ConstantsAssumption DEF Content
<1>5. \A c \in Copies : Valid(hdr[c]) =>
        /\ HdrFits(slot', hdr[c], acked + 1)
        /\ Anchored(scan) => /\ Layout(slot', hdr[c].ckpt, acked + 1)
                             /\ hdr[c].ckpt.seq >= scan.anchor.seq
  BY <1>0, <1>2, <1>3 DEF IInv, MediaInv, ScanInv, Settled
<1>6. /\ HdrFits(slot', head, acked + 1)
      /\ Anchored(scan) => Layout(slot', head.ckpt, acked + 1)
  BY <1>0, <1>2, <1>3 DEF IInv, MediaInv, ScanInv
<1>7. /\ scan'.tail = rec /\ scan'.tailSlot = cur /\ scan'.anchor = scan.anchor
      /\ scan'.damage = scan.damage /\ Anchored(scan)' = Anchored(scan)
      /\ IF Anchored(scan)
           THEN /\ scan'.next = NextRingSlot(cur)
                /\ scan'.full = (scan'.next = scan.anchor.slot)
           ELSE scan'.next = cur + 1 /\ scan'.full = (scan'.next = N)
      /\ scan' \in ScanState
  <2>1. NextRingSlot(cur) \in 0 .. N /\ cur + 1 \in 0 .. N
    BY <1>3, ConstantsAssumption DEF NextRingSlot, Ring
  <2>. QED BY <1>1, <1>2, <1>3, <2>1 DEF Appended, ScanState, Anchored
<1>8. Settled(acked)'
  <2>1. \E c \in Copies : Valid(hdr[c]) /\ Newer(hdr[c], hdr[Other(c)])
    BY <1>0 DEF IInv, MediaInv, Settled
  <2>2. hdr' = hdr /\ acked' >= 1
    BY <1>1, <1>2, <1>4, ConstantsAssumption
  <2>3. \A c \in Copies : Valid(hdr'[c]) => HdrFits(slot', hdr'[c], acked')
    BY <1>4, <1>5, <2>2
  <2>. QED BY <2>1, <2>2, <2>3 DEF Settled
<1>9. slot' \in [Slots -> Content] /\ slot'[cur] = rec
  BY <1>1, <1>2, <1>3
<1>10. ~Anchored(scan) => cur = acked /\ ~scan.damage
  BY <1>0, <1>2 DEF IInv, ScanInv
<1>11. CASE pc = "checkpoint" /\ head.seq < MaxHdrSeq
  <2>1. /\ pc' = "checkpointHeader" /\ tgt' = Other(src) /\ reclaimReady' = FALSE
        /\ newHead' = NamedHeader([seq |-> rec.seq, slot |-> cur])
        /\ UNCHANGED <<cur, rec>>
    BY <1>11 DEF AppendDone
  <2>2. /\ newHead' \in Header /\ Valid(newHead)' /\ newHead'.seq = head.seq + 1
        /\ newHead'.catalog = head.catalog
        /\ newHead'.ckpt = [seq |-> rec.seq, slot |-> cur]
        /\ newHead'.ckpt \in Point
    <3>1. [seq |-> rec.seq, slot |-> cur] \in Point
      BY <1>3, <1>4, <1>1 DEF Point
    <3>2. head.seq + 1 \in 0 .. MaxHdrSeq /\ head.seq + 1 > 0
      BY <1>2, <1>11, ConstantsAssumption DEF Header
    <3>. QED BY <2>1, <3>1, <3>2, <1>2 DEF NamedHeader, Header, Valid
  <2>3. HdrFits(slot', newHead', acked + 1)
    <3>1. Linear(slot', acked + 1) /\ cur # 0 /\ cur = acked
      BY <1>2, <1>3, <1>10, <1>11, ConstantsAssumption DEF Ring
    <3>2. slot'[newHead'.ckpt.slot].seq = newHead'.ckpt.seq /\ newHead'.ckpt.seq > 0
          /\ newHead'.ckpt.slot # 0
      BY <1>4, <1>9, <2>2, <3>1
    <3>3. CASE rec.snap
      <4>1. slot'[newHead'.ckpt.slot].snap
        BY <1>9, <2>2, <3>3
      <4>2. Layout(slot', newHead'.ckpt, acked + 1)
        BY <1>2, <1>9, <2>2, <3>1, <3>2, <4>1, LinearAnchor
      <4>. QED BY <4>2 DEF HdrFits
    <3>4. CASE ~rec.snap
      BY <1>9, <2>2, <3>1, <3>2, <3>4 DEF HdrFits
    <3>. QED BY <3>3, <3>4
  <2>4. TypeOK'
    BY <1>1, <1>4, <1>7, <1>9, <2>1, <2>2
       DEF IInv, TypeOK, HeaderWrites, Copies, Other
  <2>5. Operating' /\ ~Creating' /\ ~Anchored(scan)
    BY <1>0, <1>1, <1>2, <1>11, <2>1 DEF Operating, Creating
  <2>6. MediaInv'
    <3>1. hdr[src] = head /\ Newer(head, hdr[Other(src)]) /\ Valid(head)
      BY <1>0 DEF IInv, MediaInv, HeaderWrites
    <3>. QED BY <1>1, <1>4, <1>6, <1>8, <2>1, <2>2, <2>3, <2>5, <3>1 DEF MediaInv
  <2>7. ScanInv'
    BY <1>1, <1>3, <1>4, <1>7, <1>9, <1>10, <2>1, <2>5 DEF ScanInv
  <2>. QED BY <2>4, <2>5, <2>6, <2>7 DEF IInv, CreateInv, DownInv, Operating
<1>12. CASE ~(pc = "checkpoint" /\ head.seq < MaxHdrSeq)
  <2>1. Finish /\ UNCHANGED reclaimReady
    BY <1>12 DEF AppendDone
  <2>2. TypeOK'
    BY <1>1, <1>4, <1>7, <1>9, <2>1, FixedTypes, ConstantsAssumption
       DEF IInv, TypeOK, Finish, Copies, Slots
  <2>3. Operating' /\ ~Creating' /\ pc' = "idle"
    BY <1>0, <1>1, <2>1 DEF Operating, Creating, Finish
  <2>4. MediaInv'
    <3>1. /\ hdr[src] = head /\ Newer(head, hdr[Other(src)]) /\ Valid(head)
          /\ reclaimReady => \A c \in Copies : Valid(hdr[c]) /\ hdr[c].ckpt = head.ckpt
      BY <1>0 DEF IInv, MediaInv, HeaderWrites
    <3>. QED BY <1>1, <1>4, <1>6, <1>8, <2>1, <2>3, <3>1 DEF MediaInv, HeaderWrites
  <2>5. ScanInv'
    <3>1. Anchored(scan) => head.ckpt.seq >= scan.anchor.seq
      BY <1>0, <1>2 DEF IInv, ScanInv
    <3>. QED BY <1>1, <1>2, <1>3, <1>4, <1>5, <1>6, <1>7, <1>9, <1>10, <2>3, <3>1
           DEF ScanInv, HeaderWrites
  <2>. QED BY <2>2, <2>3, <2>4, <2>5 DEF IInv, CreateInv, DownInv, Operating
<1>. QED BY <1>11, <1>12

(* A header write starts: publishCheckpointRedundant, activateCatalogData. *)
LEMMA StartHeaderStep ==
  ASSUME IInv, PublishCheckpointRedundant \/ ActivateCatalogData
  PROVE  IInv'
<1>0. /\ Operating /\ pc = "idle" /\ tgt' = Other(src) /\ Operating'
      /\ UNCHANGED <<slot, hdr, status, head, src, degraded, scan, ringReady,
                     cur, rec, acked>>
      /\ reclaimReady' \in {reclaimReady, FALSE}
  BY DEF PublishCheckpointRedundant, ActivateCatalogData, Ready, Operating,
         Creating, media, member
<1>1. /\ slot \in [Slots -> Content] /\ hdr \in [Copies -> Header] /\ head \in Header
      /\ scan \in ScanState /\ acked \in 0 .. MaxSeq /\ src \in Copies
      /\ reclaimReady \in BOOLEAN
      /\ Valid(head) /\ HdrFits(slot, head, acked) /\ Settled(acked)
      /\ hdr[src] = head /\ Newer(head, hdr[Other(src)])
  BY <1>0 DEF IInv, TypeOK, MediaInv, HeaderWrites
<1>2. CASE PublishCheckpointRedundant
  <2>1. PICK p \in Point : PublishPoint(p) /\ newHead' = NamedHeader(p)
    BY <1>2 DEF PublishCheckpointRedundant
  <2>2. head.seq < MaxHdrSeq /\ reclaimReady' = FALSE /\ pc' = "publishFirst"
    BY <1>2 DEF PublishCheckpointRedundant
  <2>3. /\ newHead' \in Header /\ Valid(newHead)' /\ newHead'.seq = head.seq + 1
        /\ newHead'.catalog = head.catalog /\ newHead'.ckpt = p
    <3>1. head.seq + 1 \in 0 .. MaxHdrSeq /\ head.seq + 1 > 0
      BY <1>1, <2>2, ConstantsAssumption DEF Header
    <3>. QED BY <2>1, <3>1, <1>1 DEF NamedHeader, Header, Valid
  <2>4. /\ scan.tail.seq = acked /\ slot[scan.tailSlot] = scan.tail
        /\ IF Anchored(scan) THEN Layout(slot, scan.anchor, acked)
                             ELSE Linear(slot, acked)
    BY <1>0 DEF IInv, ScanInv
  <2>5. /\ Layout(slot, p, acked) \/ (scan.tail.snap /\ p.seq = acked /\ p.slot = 0)
        /\ Anchored(scan) => Layout(slot, p, acked) /\ p.seq >= scan.anchor.seq
    <3>1. CASE Anchored(scan) /\ p = scan.anchor
      BY <2>4, <3>1, <1>1 DEF ScanState, Point
    <3>2. CASE scan.tail.snap /\ p = [seq |-> scan.tail.seq, slot |-> scan.tailSlot]
      <4>1. p.seq = acked /\ slot[p.slot].seq = p.seq /\ slot[p.slot].snap
            /\ p.slot \in Slots
        BY <2>4, <3>2, <1>1 DEF ScanState
      <4>2. CASE ~Anchored(scan) /\ p.slot # 0
        <5>1. acked > 0 /\ acked \in Int BY <1>1, <2>4, <4>2 DEF Linear
        <5>. QED BY <1>1, <2>4, <4>1, <4>2, <5>1, LinearAnchor
      <4>3. CASE Anchored(scan)
        <5>1. scan.anchor \in Point /\ Layout(slot, scan.anchor, acked) /\ acked \in Int
          BY <1>1, <2>4, <4>3 DEF ScanState
        <5>2. Layout(slot, p, acked)
          BY <1>1, <4>1, <5>1, TailAnchor
        <5>. QED BY <4>1, <5>1, <5>2 DEF Layout
      <4>4. CASE ~Anchored(scan) /\ p.slot = 0
        BY <4>1, <4>4, <3>2
      <4>. QED BY <4>2, <4>3, <4>4
    <3>. QED BY <2>1, <3>1, <3>2 DEF PublishPoint
  <2>6. HdrFits(slot, newHead', acked)
    BY <2>3, <2>4, <2>5 DEF HdrFits
  <2>7. TypeOK'
    BY <1>0, <1>1, <2>2, <2>3 DEF IInv, TypeOK, HeaderWrites, Copies, Other
  <2>8. MediaInv'
    BY <1>0, <1>1, <2>2, <2>3, <2>6 DEF MediaInv, Settled, HeaderWrites
  <2>9. ScanInv'
    BY <1>0, <2>2, <2>3, <2>5 DEF IInv, ScanInv, Anchored
  <2>. QED BY <1>0, <2>2, <2>7, <2>8, <2>9
         DEF IInv, CreateInv, DownInv, Operating, Creating
<1>3. CASE ActivateCatalogData
  <2>1. /\ pc' \in {"mirror", "activateFirst"} /\ reclaimReady' = reclaimReady
        /\ pc' = "mirror" => newHead' = head
        /\ pc' = "activateFirst" =>
             /\ ~head.catalog /\ head.seq < MaxHdrSeq
             /\ newHead' = [head EXCEPT !.seq = head.seq + 1, !.catalog = TRUE]
    BY <1>3 DEF ActivateCatalogData, member
  <2>2. /\ newHead' \in Header /\ Valid(newHead)' /\ newHead'.ckpt = head.ckpt
        /\ pc' = "activateFirst" => newHead'.seq = head.seq + 1 /\ newHead'.catalog
    <3>1. CASE pc' = "mirror"
      BY <2>1, <3>1, <1>1 DEF Valid
    <3>2. CASE pc' = "activateFirst"
      <4>1. head.seq + 1 \in 0 .. MaxHdrSeq /\ head.seq + 1 > 0
        BY <1>1, <2>1, <3>2, ConstantsAssumption DEF Header
      <4>. QED BY <2>1, <3>2, <4>1, <1>1 DEF Header, Valid
    <3>. QED BY <2>1, <3>1, <3>2
  <2>3. HdrFits(slot, newHead', acked)
    BY <1>1, <2>2 DEF HdrFits
  <2>4. TypeOK'
    BY <1>0, <1>1, <2>1, <2>2 DEF IInv, TypeOK, HeaderWrites, Copies, Other
  <2>5. MediaInv'
    <3>1. reclaimReady => \A c \in Copies : Valid(hdr[c]) /\ hdr[c].ckpt = head.ckpt
      BY <1>0 DEF IInv, MediaInv
    <3>. QED BY <1>0, <1>1, <2>1, <2>2, <2>3, <3>1 DEF MediaInv, Settled, HeaderWrites
  <2>6. ScanInv'
    BY <1>0, <2>1, <2>2 DEF IInv, ScanInv, Anchored
  <2>. QED BY <1>0, <2>1, <2>4, <2>5, <2>6
         DEF IInv, CreateInv, DownInv, Operating, Creating
<1>. QED BY <1>2, <1>3

(* A header copy became durable.                                           *)
LEMMA HeaderDoneStep ==
  ASSUME IInv, FirstCopyDone \/ SecondCopyDone \/ CheckpointHeaderDone
  PROVE  IInv'
<1>0. /\ Operating /\ pc \in HeaderWrites /\ ~Creating
      /\ hdr' = [hdr EXCEPT ![tgt] = newHead]
      /\ UNCHANGED <<slot, status, scan, ringReady, acked>>
      /\ pc' \in {"idle", "publishSecond", "activateSecond"}
      /\ Operating'
  BY DEF FirstCopyDone, SecondCopyDone, CheckpointHeaderDone, IInv, DownInv,
         Operating, Creating, HeaderWrites, Finish, member
<1>1. /\ slot \in [Slots -> Content] /\ hdr \in [Copies -> Header] /\ head \in Header
      /\ scan \in ScanState /\ acked \in 0 .. MaxSeq /\ src \in Copies
      /\ tgt \in Copies /\ newHead \in Header /\ reclaimReady \in BOOLEAN
      /\ cur \in Slots /\ rec \in Content /\ degraded \in BOOLEAN
  BY DEF IInv, TypeOK
<1>2. /\ Other(src) \in Copies /\ Other(src) # src /\ Other(Other(src)) = src
      /\ \A c \in Copies : c = src \/ c = Other(src)
      /\ Other("a") = "b" /\ "a" \in Copies /\ "b" \in Copies
      /\ \A c \in Copies : c = "a" \/ c = "b"
  BY <1>1 DEF Copies, Other
<1>3. /\ Valid(head) /\ HdrFits(slot, head, acked)
      /\ Valid(newHead) /\ HdrFits(slot, newHead, acked) /\ acked >= 1
      /\ pc # "mirror" => newHead.seq = head.seq + 1
      /\ pc = "mirror" => newHead = head
      /\ pc \in {"checkpointHeader", "publishFirst", "publishSecond"} =>
              newHead.catalog = head.catalog
      /\ pc \in {"activateFirst", "activateSecond"} =>
              ~head.catalog /\ newHead.catalog /\ newHead.ckpt = head.ckpt
      /\ reclaimReady =>
           /\ \A c \in Copies : Valid(hdr[c]) /\ hdr[c].ckpt = head.ckpt
           /\ pc \notin {"checkpointHeader", "publishFirst", "publishSecond"}
  BY <1>0 DEF IInv, MediaInv, Settled
<1>4. \A c \in Copies : hdr'[c] = IF c = tgt THEN newHead ELSE hdr[c]
  BY <1>0, <1>1
<1>5. \A c \in Copies : Valid(hdr'[c]) => HdrFits(slot, hdr'[c], acked)
  BY <1>0, <1>3, <1>4 DEF IInv, MediaInv, Settled
<1>6. Newer(newHead, newHead) /\ Newer(newHead, head)
  BY <1>0, <1>1, <1>3 DEF Newer, Header, HeaderWrites, Operating, Creating
<1>7. /\ newHead.ckpt.seq \in Int /\ head.ckpt.seq \in Int
  BY <1>1 DEF Header, Point
<1>8. CASE FirstCopyDone
  <2>0. /\ pc \in {"publishFirst", "activateFirst"} /\ tgt' = Other(tgt)
        /\ pc' = IF pc = "publishFirst" THEN "publishSecond" ELSE "activateSecond"
        /\ UNCHANGED <<head, src, degraded, reclaimReady, cur, rec, newHead>>
    BY <1>8 DEF FirstCopyDone, member
  <2>1. tgt = Other(src) /\ hdr[src] = head
    BY <1>0, <2>0 DEF IInv, MediaInv
  <2>2. /\ hdr'[Other(src)] = newHead /\ hdr'[src] = head /\ tgt' = src
        /\ hdr' \in [Copies -> Header]
    BY <1>0, <1>1, <1>2, <1>4, <2>0, <2>1
  <2>3. TypeOK'
    BY <1>0, <1>1, <2>0, <2>2 DEF IInv, TypeOK, HeaderWrites
  <2>4. Settled(acked)'
    BY <1>0, <1>2, <1>3, <1>5, <1>6, <2>2 DEF Settled
  <2>5. MediaInv'
    BY <1>0, <1>2, <1>3, <2>0, <2>2, <2>4 DEF MediaInv, HeaderWrites
  <2>6. ScanInv'
    <3>1. Anchored(scan) /\ ringReady =>
            /\ Layout(slot, newHead.ckpt, acked) /\ newHead.ckpt.seq >= scan.anchor.seq
            /\ Layout(slot, head.ckpt, acked) /\ head.ckpt.seq >= scan.anchor.seq
      BY <1>0 DEF IInv, ScanInv
    <3>2. Anchored(scan) /\ ringReady => \A c \in Copies :
            Layout(slot, hdr'[c].ckpt, acked) /\ hdr'[c].ckpt.seq >= scan.anchor.seq
      BY <1>2, <2>2, <3>1
    <3>. QED BY <1>0, <2>0, <3>1, <3>2 DEF IInv, ScanInv, Anchored, HeaderWrites
  <2>. QED BY <1>0, <2>0, <2>3, <2>5, <2>6
         DEF IInv, CreateInv, DownInv, Operating, Creating
<1>9. CASE SecondCopyDone \/ CheckpointHeaderDone
  <2>0. /\ pc' = "idle" /\ head' = newHead /\ degraded' = FALSE
        /\ cur' = 0 /\ rec' = Zero /\ tgt' = "a" /\ newHead' = NoHeader
        /\ pc \in {"publishSecond", "activateSecond", "mirror", "checkpointHeader"}
        /\ src' = IF pc \in {"publishSecond", "activateSecond"} THEN "a"
                  ELSE IF pc = "mirror" THEN src ELSE tgt
        /\ reclaimReady' \in BOOLEAN
        /\ reclaimReady' => pc = "publishSecond" \/ reclaimReady
    <3>1. CASE SecondCopyDone
      BY <3>1 DEF SecondCopyDone, Finish
    <3>2. CASE CheckpointHeaderDone
      BY <3>2, <1>1 DEF CheckpointHeaderDone, Finish
    <3>. QED BY <1>9, <3>1, <3>2
  <2>1. /\ pc \in {"publishSecond", "activateSecond"} =>
             tgt = src /\ hdr[Other(src)] = newHead
        /\ pc \in {"mirror", "checkpointHeader"} => tgt = Other(src) /\ hdr[src] = head
    BY <1>0, <2>0 DEF IInv, MediaInv
  <2>2. /\ src' \in Copies /\ hdr'[src'] = newHead
        /\ Newer(newHead, hdr'[Other(src')])
        /\ \A c \in Copies : hdr'[c] \in {newHead, head}
        /\ pc # "checkpointHeader" => \A c \in Copies : hdr'[c] = newHead
    BY <1>1, <1>2, <1>3, <1>4, <1>6, <2>0, <2>1
  <2>3. TypeOK'
    <3>1. hdr' \in [Copies -> Header]
      BY <1>0, <1>1
    <3>2. /\ head' \in Header /\ rec' \in Content /\ newHead' \in Header
          /\ tgt' \in Copies /\ cur' \in Slots
      BY <1>1, <1>2, <2>0, FixedTypes, ConstantsAssumption DEF Slots
    <3>. QED BY <1>0, <2>0, <2>2, <3>1, <3>2 DEF IInv, TypeOK
  <2>4. Settled(acked)'
    BY <1>0, <1>3, <1>5, <2>0, <2>2 DEF Settled
  <2>5. MediaInv'
    BY <1>0, <1>3, <2>0, <2>2, <2>4 DEF MediaInv, HeaderWrites
  <2>6. ScanInv'
    <3>1. Anchored(scan) /\ ringReady =>
            /\ Layout(slot, newHead.ckpt, acked) /\ newHead.ckpt.seq >= scan.anchor.seq
            /\ Layout(slot, head.ckpt, acked) /\ head.ckpt.seq >= scan.anchor.seq
      BY <1>0 DEF IInv, ScanInv
    <3>2. Anchored(scan) /\ ringReady => \A c \in Copies :
            Layout(slot, hdr'[c].ckpt, acked) /\ hdr'[c].ckpt.seq >= scan.anchor.seq
      BY <2>2, <3>1
    <3>. QED BY <1>0, <2>0, <3>1, <3>2 DEF IInv, ScanInv, Anchored, HeaderWrites
  <2>. QED BY <1>0, <2>0, <2>3, <2>5, <2>6
         DEF IInv, CreateInv, DownInv, Operating, Creating
<1>. QED BY <1>8, <1>9

=============================================================================

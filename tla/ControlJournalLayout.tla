------------------------ MODULE ControlJournalLayout ------------------------
(***************************************************************************)
(* The inductive invariant of ControlJournal, and the lemmas about ring    *)
(* distances, scans and layouts that its proof rests on, for every number  *)
(* of slots and every bound on the sequence numbers.                       *)
(*                                                                         *)
(* The inductive invariant IInv says where every record of the journal     *)
(* lies.  L is the last sequence number on the media: the last             *)
(* acknowledged one or, after an interrupted append, the one after it.     *)
(* Seen from an anchor p the ring holds p.seq .. L at consecutive          *)
(* distances from p, and only older records or no record at all beyond     *)
(* (Layout); before the first reclaim slot i holds record i + 1 (Linear).  *)
(* Each readable header copy and the header being written fit the media    *)
(* (HdrFits), and the two copies differ only as far as one interrupted     *)
(* publication explains (Newer).                                           *)
(***************************************************************************)
EXTENDS ControlJournal, WellFoundedInduction, TLAPS

Layout(m, p, L) ==
  /\ p.slot \in Ring /\ p.seq > 1 /\ p.seq <= L /\ L - p.seq <= N - 2
  /\ m[0].seq = 1 /\ m[p.slot].snap
  /\ \A i \in Ring : IF Dist(p.slot, i) <= L - p.seq
                       THEN m[i].seq = p.seq + Dist(p.slot, i)
                       ELSE m[i].seq < p.seq

Linear(m, L) ==
  /\ 1 <= L /\ L <= N /\ ~m[0].snap
  /\ \A i \in Slots : IF i < L THEN m[i].seq = i + 1 ELSE m[i].seq <= 0

HdrFits(m, h, L) ==
  \/ Layout(m, h.ckpt, L)
  \/ /\ Linear(m, L)
     /\ \/ h.ckpt.slot = 0
        \/ /\ m[h.ckpt.slot].seq = h.ckpt.seq /\ h.ckpt.seq > 0
           /\ ~m[h.ckpt.slot].snap

(* x is the copy select prefers, y the other one.                          *)
Newer(x, y) ==
  \/ ~Valid(y)
  \/ y.catalog = x.catalog /\ (y.seq < x.seq \/ y = x)
  \/ x.catalog /\ ~y.catalog /\ x.seq = y.seq + 1 /\ x.ckpt = y.ckpt

-----------------------------------------------------------------------------

Creating == pc \in {"createRecord", "createB", "createA"}

CreateInv ==
  Creating =>
    /\ status = "open" /\ acked = 0 /\ ~Valid(head)
    /\ cur = 0 /\ rec = Record(1, FALSE) /\ newHead = FirstHeader
    /\ ~Valid(hdr["a"])
    /\ IF pc = "createRecord" THEN \A i \in Slots : slot[i].seq = 0
                              ELSE Linear(slot, 1)
    /\ IF pc = "createA" THEN tgt = "a" /\ hdr["b"] = FirstHeader
                         ELSE tgt = "b" /\ ~Valid(hdr["b"])

(* What the media holds when the process is not writing to it.             *)
Settled(L) ==
  /\ L >= 1
  /\ \A c \in Copies : Valid(hdr[c]) => HdrFits(slot, hdr[c], L)
  /\ \E c \in Copies : Valid(hdr[c]) /\ Newer(hdr[c], hdr[Other(c)])

DownInv ==
  /\ status # "open" => pc = "idle"
  /\ status # "open" =>
      \/ acked = 0 /\ \A c \in Copies : ~Valid(hdr[c])
      \/ \E L \in {acked, acked + 1} : Settled(L)

Operating == status = "open" /\ ~Creating

(* The media and the header copies while a process has the member open.    *)
MediaInv ==
  Operating =>
    /\ Settled(acked)
    /\ Valid(head) /\ HdrFits(slot, head, acked)
    /\ IF pc \in {"publishSecond", "activateSecond"}
         THEN tgt = src /\ hdr[Other(src)] = newHead
         ELSE hdr[src] = head /\ Newer(head, hdr[Other(src)])
    /\ pc \in HeaderWrites =>
         /\ Valid(newHead) /\ HdrFits(slot, newHead, acked)
         /\ pc \notin {"publishSecond", "activateSecond"} => tgt = Other(src)
         /\ pc # "mirror" => newHead.seq = head.seq + 1
         /\ pc = "mirror" => newHead = head
         /\ pc \in {"checkpointHeader", "publishFirst", "publishSecond"} =>
              newHead.catalog = head.catalog
         /\ pc \in {"activateFirst", "activateSecond"} =>
              ~head.catalog /\ newHead.catalog /\ newHead.ckpt = head.ckpt
    /\ reclaimReady =>
         /\ \A c \in Copies : Valid(hdr[c]) /\ hdr[c].ckpt = head.ckpt
         /\ pc \notin {"checkpointHeader", "publishFirst", "publishSecond"}

(* The scan state of the open journal.                                     *)
ScanInv ==
  Operating =>
    /\ scan.tail.seq = acked
    /\ slot[scan.tailSlot] = scan.tail
    /\ pc # "reclaim" =>
         IF Anchored(scan)
           THEN Layout(slot, scan.anchor, acked)
           ELSE Linear(slot, acked) /\ scan.next = acked /\ ~scan.damage
    /\ ~Anchored(scan) => scan.full = (scan.next = N)
    /\ Anchored(scan) /\ ringReady =>
         /\ scan.next = NextRingSlot(scan.tailSlot)
         /\ scan.full = (scan.next = scan.anchor.slot)
         /\ \A c \in Copies : Valid(hdr[c]) =>
              Layout(slot, hdr[c].ckpt, acked) /\ hdr[c].ckpt.seq >= scan.anchor.seq
         /\ head.ckpt.seq >= scan.anchor.seq
         /\ Layout(slot, head.ckpt, acked)
    /\ pc \in {"append", "checkpoint"} =>
         /\ cur = scan.next /\ rec.seq = acked + 1 /\ ~scan.full
         /\ slot[cur].seq <= 0
         /\ Anchored(scan) => ringReady
    /\ pc = "checkpoint" => ~Anchored(scan)
    /\ pc = "reclaim" =>
         /\ reclaimReady /\ rec = Zero
         /\ Layout(slot, head.ckpt, acked)
         /\ \/ cur = head.ckpt.slot
            \/ cur \in Ring /\ Dist(head.ckpt.slot, cur) > acked - head.ckpt.seq
    /\ Anchored(scan) /\ ringReady /\ pc \in HeaderWrites =>
         Layout(slot, newHead.ckpt, acked) /\ newHead.ckpt.seq >= scan.anchor.seq

IInv == TypeOK /\ CreateInv /\ DownInv /\ MediaInv /\ ScanInv

-----------------------------------------------------------------------------
(* Ring arithmetic.                                                        *)

(* The walk from a meets each ring slot once, at a distance of at most N-2.*)
LEMMA DistFacts ==
  ASSUME NEW a \in Ring, NEW i \in Ring
  PROVE  /\ Dist(a, i) \in 0 .. N - 2
         /\ Dist(a, i) = 0 <=> i = a
         /\ NextRingSlot(i) \in Ring
         /\ IF NextRingSlot(i) = a THEN Dist(a, i) = N - 2
              ELSE Dist(a, NextRingSlot(i)) = Dist(a, i) + 1
  BY ConstantsAssumption DEF Dist, Ring, NextRingSlot

(* Every distance is reached, by one slot only.                            *)
LEMMA DistInverse ==
  ASSUME NEW a \in Ring, NEW d \in 0 .. N - 2
  PROVE  /\ \E i \in Ring : Dist(a, i) = d
         /\ \A i, j \in Ring : Dist(a, i) = Dist(a, j) => i = j
<1>1. \E i \in Ring : Dist(a, i) = d
  <2>1. CASE a + d < N
    <3>1. a + d \in Ring /\ Dist(a, a + d) = d
      BY <2>1, ConstantsAssumption DEF Dist, Ring
    <3>. QED BY <3>1
  <2>2. CASE a + d >= N
    <3>1. a + d - (N - 1) \in Ring /\ Dist(a, a + d - (N - 1)) = d
      BY <2>2, ConstantsAssumption DEF Dist, Ring
    <3>. QED BY <3>1
  <2>. QED BY <2>1, <2>2, ConstantsAssumption DEF Ring
<1>2. \A i, j \in Ring : Dist(a, i) = Dist(a, j) => i = j
  BY ConstantsAssumption DEF Dist, Ring
<1>. QED BY <1>1, <1>2

(* Distances from a later anchor b are those from a less the gap.          *)
LEMMA DistShift ==
  ASSUME NEW a \in Ring, NEW b \in Ring, NEW i \in Ring,
         Dist(a, i) >= Dist(a, b)
  PROVE  Dist(b, i) = Dist(a, i) - Dist(a, b)
  BY ConstantsAssumption DEF Dist, Ring

-----------------------------------------------------------------------------
(* What the scans find on media of the two shapes.                         *)

LEMMA LinearScan ==
  ASSUME NEW m \in [Slots -> Content], NEW L \in Int, Linear(m, L)
  PROVE  /\ Decodable(m) = 0 .. L - 1
         /\ LinearOk(m)
         /\ LinearTailSlot(m) = L - 1
         /\ m[L - 1].seq = L
<1>1. Decodable(m) = 0 .. L - 1
  BY ConstantsAssumption DEF Decodable, Linear, Slots, Content
<1>2. LinearOk(m)
  <2>1. \A i \in 0 .. L - 1 : m[i].seq = i + 1
    BY ConstantsAssumption DEF Linear, Slots
  <2>2. \A i, j \in 0 .. L - 1 : i < j => m[i].seq < m[j].seq
    BY <2>1
  <2>3. ASSUME NEW i \in 0 .. L - 1, m[i].seq # 1
        PROVE  \E j \in 0 .. L - 1 : m[j].seq = m[i].seq - 1
    <3>1. i - 1 \in 0 .. L - 1 /\ m[i - 1].seq = m[i].seq - 1
      BY <2>1, <2>3
    <3>. QED BY <3>1
  <2>. QED BY <1>1, <2>2, <2>3 DEF LinearOk
<1>3. LinearTailSlot(m) = L - 1
  <2>1. L - 1 \in Decodable(m) /\ \A j \in Decodable(m) : j <= L - 1
    BY <1>1 DEF Linear
  <2>2. ASSUME NEW t \in Decodable(m), \A j \in Decodable(m) : j <= t
        PROVE  t = L - 1
    <3>1. L - 1 <= t /\ t <= L - 1
      BY <2>1, <2>2
    <3>. QED BY <3>1, <1>1
  <2>. QED BY <2>1, <2>2 DEF LinearTailSlot
<1>4. m[L - 1].seq = L
  BY ConstantsAssumption DEF Linear, Slots
<1>. QED BY <1>1, <1>2, <1>3, <1>4

(* From an anchor the ring walk meets exactly the records up to L.         *)
LEMMA LayoutBounds ==
  ASSUME NEW m \in [Slots -> Content], NEW p \in Point, NEW L \in Int,
         Layout(m, p, L)
  PROVE  /\ m[p.slot].seq = p.seq
         /\ \A i \in Slots : m[i].seq <= L
         /\ \E i \in Ring : /\ Dist(p.slot, i) = L - p.seq
                            /\ m[i].seq = L
<1>1. m[p.slot].seq = p.seq
  BY DistFacts, ConstantsAssumption DEF Layout, Point
<1>2. ASSUME NEW i \in Slots PROVE m[i].seq <= L
  <2>1. CASE i = 0
    BY <2>1 DEF Layout, Point
  <2>2. CASE i # 0
    <3>1. i \in Ring BY <2>2 DEF Ring, Slots
    <3>. QED BY <3>1, DistFacts DEF Layout, Point, Content
  <2>. QED BY <2>1, <2>2
<1>3. PICK i \in Ring : Dist(p.slot, i) = L - p.seq
  <2>1. L - p.seq \in 0 .. N - 2 /\ p.slot \in Ring
    BY ConstantsAssumption DEF Layout, Point
  <2>. QED BY <2>1, DistInverse
<1>4. m[i].seq = L
  BY <1>3 DEF Layout, Point
<1>. QED BY <1>1, <1>2, <1>3, <1>4

LEMMA AnchoredScan ==
  ASSUME NEW m \in [Slots -> Content], NEW h \in Header, NEW L \in Int,
         Layout(m, h.ckpt, L)
  PROVE  /\ Anchors(m, h.ckpt)
         /\ AnchoredOk(m, h)
         /\ AnchoredTailSlot(m, h.ckpt) \in Ring
         /\ Dist(h.ckpt.slot, AnchoredTailSlot(m, h.ckpt)) = L - h.ckpt.seq
         /\ m[AnchoredTailSlot(m, h.ckpt)].seq = L
<1>. DEFINE p == h.ckpt
            W == Walked(m, p)
<1>1. p \in Point /\ p.slot \in Ring /\ Layout(m, p, L)
  BY DEF Header, Layout
<1>2. Anchors(m, p)
  BY <1>1, LayoutBounds DEF Anchors, Layout, Ring
<1>3. W = {i \in Ring : Dist(p.slot, i) <= L - p.seq}
  <2>1. \A i \in Ring : m[i].seq > p.seq =>
           Dist(p.slot, i) <= L - p.seq
    BY <1>1 DEF Layout, Point, Content, Ring, Slots
  <2>2. \A i \in Ring : Dist(p.slot, i) <= L - p.seq =>
           i = p.slot \/ m[i].seq > p.seq
    BY <1>1, DistFacts DEF Layout, Point
  <2>3. Dist(p.slot, p.slot) <= L - p.seq
    BY <1>1, DistFacts DEF Layout, Point
  <2>. QED BY <1>1, <2>1, <2>2, <2>3 DEF Walked
<1>4. \A i \in W : i \in Ring /\ m[i].seq = p.seq + Dist(p.slot, i)
  BY <1>1, <1>3 DEF Layout
<1>5. AnchoredOk(m, h)
  <2>1. ASSUME NEW i \in W, NEW j \in W, Dist(p.slot, i) < Dist(p.slot, j)
        PROVE  m[i].seq < m[j].seq
    BY <2>1, <1>1, <1>4, DistFacts DEF Point
  <2>2. ASSUME NEW i \in W \ {p.slot}
        PROVE  \E j \in W : m[j].seq = m[i].seq - 1
    <3>1. Dist(p.slot, i) - 1 \in 0 .. N - 2
      BY <1>1, <1>4, DistFacts, ConstantsAssumption
    <3>2. PICK j \in Ring : Dist(p.slot, j) = Dist(p.slot, i) - 1
      BY <3>1, <1>1, DistInverse
    <3>3. /\ i \in Ring /\ Dist(p.slot, i) <= L - p.seq /\ p.seq \in Int
          /\ Dist(p.slot, i) \in Int
      BY <1>3, <1>1, DistFacts DEF Point
    <3>4. Dist(p.slot, j) <= L - p.seq
      BY <3>2, <3>3
    <3>5. j \in W
      BY <3>4, <1>3
    <3>6. m[j].seq = p.seq + Dist(p.slot, j) /\ m[i].seq = p.seq + Dist(p.slot, i)
      BY <3>5, <1>4
    <3>7. m[j].seq = m[i].seq - 1
      BY <3>2, <3>3, <3>6
    <3>. QED BY <3>5, <3>7
  <2>. QED BY <1>1, <1>2, <2>1, <2>2 DEF AnchoredOk, Layout
<1>6. PICK z \in Ring : Dist(p.slot, z) = L - p.seq /\ m[z].seq = L
  BY <1>1, LayoutBounds
<1>7. z \in W /\ \A j \in W : Dist(p.slot, j) <= Dist(p.slot, z)
  BY <1>3, <1>6, <1>1 DEF Point
<1>8. \A t \in W : (\A j \in W : Dist(p.slot, j) <= Dist(p.slot, t)) => t = z
  <2>1. ASSUME NEW t \in W, \A j \in W : Dist(p.slot, j) <= Dist(p.slot, t)
        PROVE  t = z
    <3>1. Dist(p.slot, t) = Dist(p.slot, z) /\ t \in Ring
      BY <2>1, <1>7, <1>4, <1>1, DistFacts
    <3>. QED BY <3>1, <1>1, DistInverse, DistFacts
  <2>. QED BY <2>1
<1>9. AnchoredTailSlot(m, p) = z
  BY <1>7, <1>8 DEF AnchoredTailSlot
<1>. QED BY <1>2, <1>5, <1>6, <1>9

(* A linear scan that succeeds on a ring ends at the ring's last record.   *)
LEMMA LinearScanOfRing ==
  ASSUME NEW m \in [Slots -> Content], NEW p \in Point, NEW L \in Int,
         Layout(m, p, L), LinearOk(m)
  PROVE  /\ LinearTailSlot(m) \in Decodable(m)
         /\ m[LinearTailSlot(m)].seq = L
<1>1. PICK z \in Ring : Dist(p.slot, z) = L - p.seq /\ m[z].seq = L
  BY LayoutBounds
<1>2. z \in Decodable(m) /\ L > 1
  BY <1>1, ConstantsAssumption DEF Decodable, Layout, Point, Ring, Slots
<1>3. \A j \in Decodable(m) : j <= z
  <2>1. ASSUME NEW j \in Decodable(m), j > z PROVE FALSE
    <3>1. m[z].seq < m[j].seq
      BY <1>2, <2>1 DEF LinearOk
    <3>2. m[j].seq <= L
      BY LayoutBounds DEF Decodable
    <3>. QED BY <1>1, <3>1, <3>2 DEF Decodable, Content
  <2>. QED BY <2>1, <1>2 DEF Decodable, Slots
<1>4. /\ LinearTailSlot(m) \in Decodable(m)
      /\ \A j \in Decodable(m) : j <= LinearTailSlot(m)
  BY <1>2, <1>3 DEF LinearTailSlot
<1>5. LinearTailSlot(m) = z
  BY <1>2, <1>3, <1>4 DEF Decodable, Slots
<1>. QED BY <1>1, <1>4, <1>5

(* A non-empty set of naturals has a least element.                        *)
LEMMA NatMin ==
  ASSUME NEW T \in SUBSET Nat, T # {}
  PROVE  \E x \in T : \A y \in T : x <= y
<1>1. PICK x \in T : \A y \in T : ~ (<<y, x>> \in OpToRel(<, Nat))
  BY WFMin, NatLessThanWellFounded
<1>2. \A y \in T : ~(y < x)
  BY <1>1 DEF OpToRel
<1>. QED BY <1>2

LEMMA FrontierFacts ==
  ASSUME NEW m \in [Slots -> Content]
  PROVE  /\ Frontier(m) \in 0 .. N
         /\ \A i \in Slots : i >= Frontier(m) => m[i].seq = 0
         /\ Frontier(m) > 0 => m[Frontier(m) - 1].seq # 0
<1>. DEFINE P(f) == /\ \A i \in Slots : i >= f => m[i].seq = 0
                    /\ f > 0 => m[f - 1].seq # 0
            T == {f \in 0 .. N : \A i \in Slots : i >= f => m[i].seq = 0}
<1>1. N \in T /\ T \in SUBSET Nat
  BY ConstantsAssumption DEF Slots
<1>2. PICK f \in T : \A g \in T : f <= g
  BY <1>1, NatMin
<1>3. ASSUME f > 0, m[f - 1].seq = 0 PROVE FALSE
  <2>1. \A i \in Slots : i >= f - 1 => m[i].seq = 0
    BY <1>3, ConstantsAssumption DEF Slots
  <2>2. f - 1 \in T
    BY <2>1, <1>3, ConstantsAssumption
  <2>. QED BY <1>2, <2>2, <1>1
<1>4. f \in 0 .. N /\ P(f)
  BY <1>3
<1>. QED BY <1>4 DEF Frontier

(* The linear frontier of an undamaged linear journal is L.                *)
LEMMA LinearFrontier ==
  ASSUME NEW m \in [Slots -> Content], NEW L \in Int, Linear(m, L),
         \A i \in Slots : i >= L => m[i].seq = 0
  PROVE  Frontier(m) = L
<1>1. Frontier(m) \in 0 .. N /\ L \in 1 .. N
  BY FrontierFacts, ConstantsAssumption DEF Linear
<1>2. ~(Frontier(m) > L)
  BY <1>1, FrontierFacts, ConstantsAssumption DEF Slots
<1>3. ~(Frontier(m) < L)
  BY <1>1, FrontierFacts, ConstantsAssumption DEF Slots, Linear
<1>. QED BY <1>1, <1>2, <1>3

(* A snapshot of a linear journal is an anchor of it.                      *)
LEMMA LinearAnchor ==
  ASSUME NEW m \in [Slots -> Content], NEW p \in Point, NEW L \in Int,
         Linear(m, L), p.slot # 0, m[p.slot].seq = p.seq, p.seq > 0,
         m[p.slot].snap
  PROVE  Layout(m, p, L)
<1>1. p.slot \in Ring /\ p.slot < L /\ p.seq = p.slot + 1 /\ L <= N
  BY ConstantsAssumption DEF Linear, Point, Slots, Ring
<1>2. ASSUME NEW i \in Ring
      PROVE  IF Dist(p.slot, i) <= L - p.seq
               THEN m[i].seq = p.seq + Dist(p.slot, i)
               ELSE m[i].seq < p.seq
  <2>1. /\ i \in Int /\ p.slot \in Int /\ 1 <= i /\ 1 <= p.slot /\ i <= N - 1
        /\ IF i < L THEN m[i].seq = i + 1 ELSE m[i].seq <= 0
        /\ m[i].seq \in Int
    BY <1>1, ConstantsAssumption DEF Linear, Ring, Slots, Content
  <2>2. Dist(p.slot, i) = IF i >= p.slot THEN i - p.slot ELSE i - p.slot + (N - 1)
    BY DEF Dist
  <2>. QED BY <1>1, <2>1, <2>2, ConstantsAssumption
<1>3. m[0].seq = 1
  BY ConstantsAssumption DEF Linear, Slots
<1>4. p.seq > 1 /\ p.seq <= L /\ L - p.seq <= N - 2
  BY <1>1, ConstantsAssumption DEF Ring
<1>. QED BY <1>1, <1>2, <1>3, <1>4 DEF Layout

(* What an open finds from a header that fits the media.                   *)
LEMMA ScanFits ==
  ASSUME NEW m \in [Slots -> Content], NEW h \in Header, NEW L \in Int,
         HdrFits(m, h, L)
  PROVE  /\ ScanOk(m, h)
         /\ Scan(m, h) \in ScanState
         /\ Scan(m, h).tail.seq = L
         /\ m[Scan(m, h).tailSlot] = Scan(m, h).tail
         /\ L >= 1
         /\ IF Anchored(Scan(m, h))
              THEN Scan(m, h).anchor = h.ckpt /\ Layout(m, h.ckpt, L)
              ELSE /\ Linear(m, L)
                   /\ Scan(m, h).full = (Scan(m, h).next = N)
                   /\ ~Scan(m, h).damage => Scan(m, h).next = L
<1>0. h.ckpt \in Point
  BY DEF Header
<1>1. CASE LinearOk(m) /\ Layout(m, h.ckpt, L)
  <2>1. /\ LinearTailSlot(m) \in Decodable(m)
        /\ m[LinearTailSlot(m)].seq = L
    BY <1>0, <1>1, LinearScanOfRing
  <2>2. Anchors(m, h.ckpt)
    BY <1>1, AnchoredScan
  <2>3. Frontier(m) \in 0 .. N
    BY FrontierFacts
  <2>4. Scan(m, h) = LinearState(m, h)
    BY <1>1 DEF Scan
  <2>5. h.ckpt.slot # 0 /\ L >= 1
    BY <1>0, <1>1 DEF Layout, Ring, Point
  <2>6. LinearTailSlot(m) \in Slots
    BY <2>1 DEF Decodable
  <2>7. Scan(m, h) \in ScanState
    <3>. DEFINE n == IF h.ckpt.slot # 0 /\ Frontier(m) = N THEN 1 ELSE Frontier(m)
                d == \E i \in Slots : i > LinearTailSlot(m) /\ m[i].seq < 0
    <3>1. n \in 0 .. N /\ d \in BOOLEAN /\ m[LinearTailSlot(m)] \in Content
      BY <2>3, <2>6, ConstantsAssumption
    <3>2. LinearState(m, h) =
            [tail |-> m[LinearTailSlot(m)], tailSlot |-> LinearTailSlot(m),
             anchor |-> h.ckpt, next |-> n, full |-> n = h.ckpt.slot, damage |-> d]
      BY <2>2, <2>5 DEF LinearState
    <3>. HIDE DEF n, d
    <3>. QED BY <2>4, <2>6, <1>0, <3>1, <3>2 DEF ScanState
  <2>. QED BY <1>1, <2>1, <2>2, <2>4, <2>5, <2>7
         DEF LinearState, ScanOk, Anchored, Decodable
<1>2. CASE ~LinearOk(m) /\ Layout(m, h.ckpt, L)
  <2>1. /\ AnchoredOk(m, h)
        /\ AnchoredTailSlot(m, h.ckpt) \in Ring
        /\ m[AnchoredTailSlot(m, h.ckpt)].seq = L
    BY <1>2, AnchoredScan
  <2>2. Scan(m, h) = AnchoredState(m, h)
    BY <1>2 DEF Scan
  <2>3. h.ckpt.slot # 0 /\ L >= 1
    BY <1>0, <1>2 DEF Layout, Ring, Point
  <2>4. NextRingSlot(AnchoredTailSlot(m, h.ckpt)) \in 0 .. N
    BY <2>1, DistFacts, ConstantsAssumption DEF Ring
  <2>5. Scan(m, h) \in ScanState
    BY <2>1, <2>2, <2>4, <1>0, ConstantsAssumption
       DEF AnchoredState, ScanState, Ring, Slots
  <2>6. AnchoredTailSlot(m, h.ckpt) \in Decodable(m)
    BY <2>1, <2>3 DEF Decodable, Ring, Slots
  <2>. QED BY <1>2, <2>1, <2>2, <2>3, <2>5, <2>6
         DEF AnchoredState, ScanOk, Anchored
<1>3. CASE ~Layout(m, h.ckpt, L)
  <2>1. /\ Linear(m, L)
        /\ h.ckpt.slot = 0 \/ ~m[h.ckpt.slot].snap
    BY <1>3 DEF HdrFits
  <2>2. /\ LinearOk(m) /\ Decodable(m) = 0 .. L - 1
        /\ LinearTailSlot(m) = L - 1 /\ m[L - 1].seq = L
    BY <2>1, LinearScan
  <2>3. ~Anchors(m, h.ckpt)
    BY <2>1 DEF Anchors
  <2>4. Scan(m, h) = LinearState(m, h)
    BY <2>2 DEF Scan
  <2>5. Frontier(m) \in 0 .. N /\ L \in 1 .. N /\ NoPoint \in Point
    BY <2>1, FrontierFacts, ConstantsAssumption
       DEF Linear, NoPoint, Point, Slots
  <2>6. Scan(m, h) \in ScanState
    BY <2>2, <2>3, <2>4, <2>5, ConstantsAssumption
       DEF LinearState, ScanState, NoPoint, Slots
  <2>7. ASSUME ~Scan(m, h).damage PROVE Scan(m, h).next = L
    <3>1. \A i \in Slots : i >= L => m[i].seq = 0
      BY <2>7, <2>1, <2>2, <2>4, <2>5 DEF LinearState, Linear, Slots, Content
    <3>. QED BY <3>1, <2>1, <2>3, <2>4, LinearFrontier DEF LinearState, NoPoint
  <2>8. /\ ~Anchored(Scan(m, h)) /\ Scan(m, h).full = (Scan(m, h).next = N)
        /\ Scan(m, h).tailSlot = L - 1 /\ Scan(m, h).tail = m[L - 1]
    BY <2>2, <2>3, <2>4 DEF LinearState, Anchored, NoPoint
  <2>9. 0 \in Decodable(m) /\ L >= 1
    BY <2>2, <2>5
  <2>10. ScanOk(m, h)
    BY <2>2, <2>9 DEF ScanOk
  <2>. QED BY <2>1, <2>2, <2>6, <2>7, <2>8, <2>9, <2>10
<1>. QED BY <1>1, <1>2, <1>3

-----------------------------------------------------------------------------
(* What a write to one slot does to the layout.                            *)

LEMMA LayoutAppend ==
  ASSUME NEW m \in [Slots -> Content], NEW p \in Point, NEW L \in Int,
         Layout(m, p, L), NEW i \in Ring, NEW r \in Content,
         Dist(p.slot, i) = L + 1 - p.seq, r.seq = L + 1
  PROVE  Layout([m EXCEPT ![i] = r], p, L + 1)
<1>. DEFINE m2 == [m EXCEPT ![i] = r]
<1>1. p.slot \in Ring /\ p.seq \in Int /\ L + 1 - p.seq > 0
  BY DEF Layout, Point
<1>2. i # p.slot /\ i # 0 /\ i \in Slots /\ L + 1 - p.seq <= N - 2
  <2>1. Dist(p.slot, i) \in 0 .. N - 2 /\ Dist(p.slot, p.slot) = 0
    BY <1>1, DistFacts
  <2>2. i # 0 /\ i \in Slots
    BY ConstantsAssumption DEF Ring, Slots
  <2>. QED BY <1>1, <2>1, <2>2, ConstantsAssumption
<1>3. ASSUME NEW j \in Ring
      PROVE  IF Dist(p.slot, j) <= L + 1 - p.seq
               THEN m2[j].seq = p.seq + Dist(p.slot, j)
               ELSE m2[j].seq < p.seq
  <2>1. CASE j = i
    BY <2>1, <1>1, <1>2
  <2>2. CASE j # i
    <3>1. m2[j] = m[j] /\ Dist(p.slot, j) \in 0 .. N - 2
      BY <2>2, <1>1, DistFacts
    <3>0. Dist(p.slot, j) # Dist(p.slot, i)
      BY <2>2, <1>1, <3>1, DistInverse
    <3>2. IF Dist(p.slot, j) <= L - p.seq THEN m[j].seq = p.seq + Dist(p.slot, j)
                                          ELSE m[j].seq < p.seq
      BY DEF Layout
    <3>. QED BY <3>0, <3>1, <3>2, <1>1, ConstantsAssumption
  <2>. QED BY <2>1, <2>2
<1>4. /\ m2[0] = m[0] /\ m2[p.slot] = m[p.slot]
  BY <1>2 DEF Slots
<1>. QED BY <1>1, <1>2, <1>3, <1>4 DEF Layout

LEMMA LayoutErase ==
  ASSUME NEW m \in [Slots -> Content], NEW p \in Point, NEW L \in Int,
         Layout(m, p, L), NEW i \in Ring, NEW r \in Content,
         Dist(p.slot, i) > L - p.seq, r.seq <= 0
  PROVE  Layout([m EXCEPT ![i] = r], p, L)
<1>. DEFINE m2 == [m EXCEPT ![i] = r]
<1>1. p.slot \in Ring /\ p.seq \in Int /\ L - p.seq >= 0 /\ p.seq > 1
  BY DEF Layout, Point
<1>2. i # p.slot /\ i # 0 /\ i \in Slots
  <2>1. Dist(p.slot, p.slot) = 0
    BY <1>1, DistFacts
  <2>2. i # 0 /\ i \in Slots
    BY ConstantsAssumption DEF Ring, Slots
  <2>. QED BY <1>1, <2>1, <2>2
<1>3. ASSUME NEW j \in Ring
      PROVE  IF Dist(p.slot, j) <= L - p.seq
               THEN m2[j].seq = p.seq + Dist(p.slot, j)
               ELSE m2[j].seq < p.seq
  <2>1. CASE j = i
    BY <2>1, <1>1, <1>2, DistFacts DEF Content
  <2>2. CASE j # i
    <3>1. m2[j] = m[j] BY <2>2
    <3>. QED BY <3>1 DEF Layout
  <2>. QED BY <2>1, <2>2
<1>4. /\ m2[0] = m[0] /\ m2[p.slot] = m[p.slot]
  BY <1>2 DEF Slots
<1>. QED BY <1>1, <1>3, <1>4 DEF Layout

(* Seen from the anchor of a later header, an append goes to the place     *)
(* that the journal's own anchor gives it.                                 *)
LEMMA LaterAnchor ==
  ASSUME NEW m \in [Slots -> Content], NEW p \in Point, NEW q \in Point,
         NEW L \in Int, Layout(m, p, L), Layout(m, q, L), q.seq >= p.seq,
         NEW i \in Ring, Dist(p.slot, i) = L + 1 - p.seq
  PROVE  Dist(q.slot, i) = L + 1 - q.seq
<1>1. /\ p.slot \in Ring /\ q.slot \in Ring /\ p.seq \in Int /\ q.seq \in Int
      /\ q.seq <= L
  BY DEF Layout, Point
<1>2. Dist(p.slot, q.slot) = q.seq - p.seq
  <2>1. m[q.slot].seq = q.seq
    BY LayoutBounds
  <2>2. Dist(p.slot, q.slot) \in Int
    BY <1>1, DistFacts
  <2>. QED BY <1>1, <2>1, <2>2 DEF Layout
<1>. QED BY <1>1, <1>2, DistShift

(* The last record of a ring, when it is a snapshot, is an anchor too.     *)
LEMMA TailAnchor ==
  ASSUME NEW m \in [Slots -> Content], NEW q \in Point, NEW p \in Point,
         NEW L \in Int, Layout(m, q, L),
         p.seq = L, m[p.slot].seq = p.seq, m[p.slot].snap
  PROVE  Layout(m, p, L)
<1>1. /\ q.slot \in Ring /\ q.seq \in Int /\ p.seq \in Int /\ q.seq > 1 /\ q.seq <= L
      /\ p.slot \in Slots /\ m[0].seq = 1 /\ N \in Int /\ N >= 3
  BY ConstantsAssumption DEF Layout, Point
<1>2. p.slot \in Ring
  BY <1>1 DEF Ring, Slots
<1>3. Dist(q.slot, p.slot) = L - q.seq
  <2>1. Dist(q.slot, p.slot) \in Int
    BY <1>1, <1>2, DistFacts
  <2>. QED BY <1>1, <1>2, <2>1 DEF Layout
<1>4. ASSUME NEW i \in Ring
      PROVE  IF Dist(p.slot, i) <= L - p.seq
               THEN m[i].seq = p.seq + Dist(p.slot, i)
               ELSE m[i].seq < p.seq
  <2>1. CASE i = p.slot
    BY <2>1, <1>1, <1>2, DistFacts
  <2>2. CASE i # p.slot
    <3>1. Dist(p.slot, i) # 0 /\ Dist(p.slot, i) \in 0 .. N - 2
      BY <2>2, <1>2, DistFacts
    <3>2. Dist(q.slot, i) \in 0 .. N - 2
      BY <1>1, DistFacts
    <3>3. Dist(q.slot, i) # Dist(q.slot, p.slot)
      BY <3>2, <2>2, <1>1, <1>2, DistInverse
    <3>4. IF Dist(q.slot, i) <= L - q.seq
            THEN m[i].seq = q.seq + Dist(q.slot, i)
            ELSE m[i].seq < q.seq
      BY DEF Layout
    <3>5. m[i].seq \in Int
      BY DEF Ring, Slots, Content
    <3>. QED BY <3>1, <3>2, <3>3, <3>4, <3>5, <1>1, <1>3
  <2>. QED BY <2>1, <2>2
<1>. QED BY <1>1, <1>2, <1>4 DEF Layout

LEMMA LinearAppend ==
  ASSUME NEW m \in [Slots -> Content], NEW L \in Int, Linear(m, L), L < N,
         NEW r \in Content
  PROVE  /\ L \in Ring /\ L \in Slots
         /\ r.seq = L + 1 => Linear([m EXCEPT ![L] = r], L + 1)
         /\ r.seq <= 0 => Linear([m EXCEPT ![L] = r], L)
<1>1. L \in Ring /\ L \in Slots
  BY ConstantsAssumption DEF Linear, Ring, Slots
<1>2. \A i \in Slots : [m EXCEPT ![L] = r][i] = IF i = L THEN r ELSE m[i]
  BY <1>1
<1>3. ASSUME r.seq = L + 1 PROVE Linear([m EXCEPT ![L] = r], L + 1)
  BY <1>1, <1>2, <1>3, ConstantsAssumption DEF Linear, Slots
<1>4. ASSUME r.seq <= 0 PROVE Linear([m EXCEPT ![L] = r], L)
  BY <1>1, <1>2, <1>4, ConstantsAssumption DEF Linear, Slots
<1>. QED BY <1>1, <1>3, <1>4

(* A header that fits a linear journal fits it after the write of slot L.  *)
LEMMA LinearHdrFits ==
  ASSUME NEW m \in [Slots -> Content], NEW L \in Int, Linear(m, L), L < N,
         NEW r \in Content, NEW h \in Header, HdrFits(m, h, L)
  PROVE  /\ r.seq = L + 1 => HdrFits([m EXCEPT ![L] = r], h, L + 1)
         /\ r.seq <= 0 => HdrFits([m EXCEPT ![L] = r], h, L)
<1>. DEFINE p == h.ckpt
            m2 == [m EXCEPT ![L] = r]
<1>1. /\ p \in Point /\ p.slot \in Slots /\ p.seq \in Int
      /\ m2 \in [Slots -> Content]
      /\ \A i \in Slots : i # L => m2[i] = m[i]
      /\ m[L].seq <= 0 /\ m[L].seq \in Int
  <2>1. L \in Slots BY LinearAppend
  <2>2. m[L].seq <= 0 /\ m[L].seq \in Int BY <2>1 DEF Linear, Content
  <2>3. p \in Point BY DEF Header
  <2>4. p.slot \in Slots /\ p.seq \in Int BY <2>3 DEF Point
  <2>. QED BY <2>1, <2>2, <2>3, <2>4
<1>2. \A K \in Int : Linear(m2, K) /\ K >= L => HdrFits(m2, h, K)
  <2>1. SUFFICES ASSUME NEW K \in Int, Linear(m2, K), K >= L
                 PROVE  HdrFits(m2, h, K)
    OBVIOUS
  <2>2. CASE p.slot = 0
    BY <2>1, <2>2 DEF HdrFits
  <2>3. CASE p.slot # 0 /\ Layout(m, p, L)
    <3>1. m[p.slot].seq = p.seq /\ m[p.slot].snap /\ p.seq > 1
      BY <2>3, <1>1, LayoutBounds DEF Layout
    <3>2. m2[p.slot] = m[p.slot]
      BY <3>1, <1>1
    <3>4. m2[p.slot].seq = p.seq /\ m2[p.slot].snap /\ p.seq > 0 /\ p.slot # 0
      BY <3>1, <3>2, <1>1, <2>3
    <3>3. Layout(m2, p, K)
      <4>. HIDE DEF m2, p
      <4>. QED BY <3>4, <1>1, <2>1, LinearAnchor
    <3>. QED BY <3>3 DEF HdrFits
  <2>4. CASE p.slot # 0 /\ m[p.slot].seq = p.seq /\ p.seq > 0 /\ ~m[p.slot].snap
    <3>1. m2[p.slot] = m[p.slot]
      BY <2>4, <1>1
    <3>. QED BY <2>1, <2>4, <3>1 DEF HdrFits
  <2>. QED BY <2>2, <2>3, <2>4 DEF HdrFits
<1>3. ASSUME r.seq = L + 1 PROVE HdrFits(m2, h, L + 1)
  <2>1. Linear(m2, L + 1) BY <1>3, LinearAppend
  <2>. HIDE DEF m2
  <2>. QED BY <1>2, <2>1
<1>4. ASSUME r.seq <= 0 PROVE HdrFits(m2, h, L)
  <2>1. Linear(m2, L) BY <1>4, LinearAppend
  <2>. HIDE DEF m2
  <2>. QED BY <1>2, <2>1
<1>. QED BY <1>3, <1>4

-----------------------------------------------------------------------------
(* select prefers the newer copy, and never fails on copies that only an   *)
(* interrupted publication set apart.                                      *)
LEMMA SelectNewer ==
  ASSUME NEW h \in [Copies -> Header], NEW c \in Copies,
         Valid(h[c]), Newer(h[c], h[Other(c)])
  PROVE  LET s == Select(h)
         IN  /\ s.ok /\ s.source \in Copies /\ s.degraded \in BOOLEAN
             /\ s.header = h[s.source] /\ Valid(s.header)
             /\ Newer(s.header, h[Other(s.source)])
<1>1. /\ h["a"] \in Header /\ h["b"] \in Header /\ Other("a") = "b"
      /\ Other("b") = "a" /\ c \in {"a", "b"}
  BY DEF Copies, Other
<1>2. CASE c = "a"
  BY <1>1, <1>2 DEF Select, SelectValid, Selection, NoSelection, Newer, Valid,
                    Header, Copies
<1>3. CASE c = "b"
  BY <1>1, <1>3 DEF Select, SelectValid, Selection, NoSelection, Newer, Valid,
                    Header, Copies
<1>. QED BY <1>1, <1>2, <1>3

(* The fixed values have their types.                                      *)
LEMMA FixedTypes ==
  /\ Zero \in Content /\ Bad \in Content /\ Record(1, FALSE) \in Content
  /\ NoPoint \in Point /\ NoHeader \in Header /\ FirstHeader \in Header
  /\ NoScan \in ScanState
<1>1. Zero \in Content /\ Bad \in Content /\ Record(1, FALSE) \in Content
  BY ConstantsAssumption DEF Zero, Bad, Record, Content
<1>2. NoPoint \in Point
  BY ConstantsAssumption DEF NoPoint, Point, Slots
<1>3. NoHeader \in Header /\ FirstHeader \in Header
  BY <1>2, ConstantsAssumption DEF NoHeader, FirstHeader, Header
<1>4. NoScan \in ScanState
  BY <1>1, <1>2, ConstantsAssumption DEF NoScan, ScanState, Slots
<1>. QED BY <1>1, <1>2, <1>3, <1>4

-----------------------------------------------------------------------------
(* The slot an append writes: it is free, and seen from every header that  *)
(* can be read it is the place of the next record.                         *)
LEMMA AppendSlot ==
  ASSUME IInv, Operating, pc \in {"append", "checkpoint"}, NEW r \in Content
  PROVE  LET m2 == [slot EXCEPT ![cur] = r]
         IN  /\ cur \in Ring /\ cur \in Slots /\ acked \in Int
             /\ r.seq = acked + 1 =>
                  IF Anchored(scan) THEN Layout(m2, scan.anchor, acked + 1)
                                    ELSE Linear(m2, acked + 1)
             /\ \A h \in Header :
                  /\ HdrFits(slot, h, acked)
                  /\ Anchored(scan) => /\ Layout(slot, h.ckpt, acked)
                                       /\ h.ckpt.seq >= scan.anchor.seq
                  => /\ r.seq = acked + 1 =>
                          /\ HdrFits(m2, h, acked + 1)
                          /\ Anchored(scan) => Layout(m2, h.ckpt, acked + 1)
                     /\ r.seq <= 0 => HdrFits(m2, h, acked)
<1>. DEFINE m2 == [slot EXCEPT ![cur] = r]
<1>1. /\ slot \in [Slots -> Content] /\ acked \in Int /\ cur = scan.next
      /\ ~scan.full /\ scan \in ScanState /\ pc # "reclaim"
  <2>1. slot \in [Slots -> Content] /\ acked \in Int /\ scan \in ScanState
    BY ConstantsAssumption DEF IInv, TypeOK
  <2>2. cur = scan.next /\ ~scan.full
    BY DEF IInv, ScanInv
  <2>. QED BY <2>1, <2>2
<1>2. CASE ~Anchored(scan)
  <2>1. Linear(slot, acked) /\ cur = acked /\ acked # N
    BY <1>1, <1>2 DEF IInv, ScanInv
  <2>2. acked < N
    BY <1>1, <2>1, ConstantsAssumption DEF Linear
  <2>. QED BY <1>1, <1>2, <2>1, <2>2, LinearAppend, LinearHdrFits
<1>3. CASE Anchored(scan)
  <2>. DEFINE p == scan.anchor
  <2>1. /\ Layout(slot, p, acked) /\ cur = NextRingSlot(scan.tailSlot)
        /\ cur # p.slot /\ slot[scan.tailSlot].seq = acked
    BY <1>1, <1>3 DEF IInv, ScanInv
  <2>2. p \in Point /\ p.slot \in Ring /\ p.seq \in Int /\ p.seq > 1 /\ p.seq <= acked
    <3>1. p \in Point BY <1>1 DEF ScanState
    <3>. QED BY <2>1, <3>1 DEF Layout, Point
  <2>3. scan.tailSlot \in Ring
    <3>1. scan.tailSlot \in Slots BY <1>1 DEF ScanState
    <3>2. scan.tailSlot # 0 BY <1>1, <2>1, <2>2 DEF Layout
    <3>. QED BY <3>1, <3>2, ConstantsAssumption DEF Slots, Ring
  <2>4. Dist(p.slot, scan.tailSlot) = acked - p.seq
    <3>1. Dist(p.slot, scan.tailSlot) \in Int
      BY <2>2, <2>3, DistFacts
    <3>. QED BY <1>1, <2>1, <2>2, <2>3, <3>1 DEF Layout
  <2>5. cur \in Ring /\ Dist(p.slot, cur) = acked + 1 - p.seq
    BY <1>1, <2>1, <2>2, <2>3, <2>4, DistFacts
  <2>6. cur \in Slots
    BY <2>5, ConstantsAssumption DEF Ring, Slots
  <2>7. r.seq = acked + 1 => Layout(m2, p, acked + 1)
    <3>. HIDE DEF p
    <3>. QED BY <1>1, <2>1, <2>2, <2>5, LayoutAppend
  <2>8. ASSUME NEW h \in Header, Layout(slot, h.ckpt, acked), h.ckpt.seq >= p.seq
        PROVE  /\ r.seq = acked + 1 => Layout(m2, h.ckpt, acked + 1)
               /\ r.seq <= 0 => Layout(m2, h.ckpt, acked)
    <3>. DEFINE q == h.ckpt
    <3>1. q \in Point BY DEF Header
    <3>2. q.seq \in Int BY <3>1 DEF Point
    <3>. HIDE DEF p, q
    <3>3. Dist(q.slot, cur) = acked + 1 - q.seq
      BY <1>1, <2>1, <2>2, <2>5, <2>8, <3>1, LaterAnchor DEF q
    <3>4. Dist(q.slot, cur) > acked - q.seq
      BY <3>2, <3>3, <1>1
    <3>5. r.seq = acked + 1 => Layout(m2, q, acked + 1)
      BY <1>1, <2>5, <2>8, <3>1, <3>3, LayoutAppend DEF q
    <3>6. r.seq <= 0 => Layout(m2, q, acked)
      BY <1>1, <2>5, <2>8, <3>1, <3>4, LayoutErase DEF q
    <3>. QED BY <3>5, <3>6 DEF q
  <2>. QED BY <1>1, <1>3, <2>5, <2>6, <2>7, <2>8 DEF HdrFits
<1>. QED BY <1>2, <1>3

=============================================================================

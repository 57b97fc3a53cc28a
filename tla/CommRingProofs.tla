--------------------------- MODULE CommRingProofs ---------------------------
(***************************************************************************)
(* Proofs about CommRing, for every ring length, header length, set of     *)
(* payload sizes and set of payloads: if no sequence of frames exactly     *)
(* fills the ring, and no packet that wraps meets a buffer that is too     *)
(* small for it, then no packet is ever overwritten or misread.            *)
(*                                                                         *)
(* The condition is stated with a set Q of byte counts that contains every *)
(* amount of unread data the ring can hold.                                *)
(***************************************************************************)
EXTENDS CommRing, Induction, SequenceTheorems, TLAPS

\* Q is closed under adding a frame, and the length of the ring is not in it.
NeverFills(Q) ==
    /\ Q \subseteq Nat
    /\ 0 \in Q
    /\ \A x \in Q, n \in Sizes : x + FrameSize(n) \in Q
    /\ DataLength \notin Q

Size(k) == FrameSize(unread[k].size)

Off(k) == Dist(ring_begin, unread[k].at)

Used == Dist(ring_begin, ring_end)

\* The unread packets lie between the cursors, one after the other.
Layout ==
    /\ \A k \in 1..Len(unread) : Off(k) + Size(k) <= Used
    /\ \A k, m \in 1..Len(unread) : k < m => Off(k) + Size(k) <= Off(m)
    /\ \A k \in 1..Len(unread) :
          k + 1 <= Len(unread) => unread[k + 1].at = Adv(unread[k].at, Size(k))
    /\ \A k \in 1..Len(unread) :
          k = Len(unread) => ring_end = Adv(unread[k].at, Size(k))

\* The inductive invariant.
RingInv(Q) ==
    /\ TypeOK
    /\ packet_count = Len(unread)
    /\ BeginAtOldest
    /\ Layout
    /\ UnreadIntact
    /\ \A k \in 1..Len(unread) : Dist(unread[k].at, ring_end) \in Q

----------------------------------------------------------------------------
(* Arithmetic on the ring. *)

\* Cursors stay in the ring.
LEMMA AdvInRing ==
    ASSUME NEW p \in Index, NEW n \in 0..DataLength
    PROVE  Adv(p, n) \in Index
  BY CommRingAssumption DEF Adv, Index

\* The bytes in use are fewer than the ring has.
LEMMA DistInRing ==
    ASSUME NEW p \in Index, NEW q \in Index
    PROVE  Dist(p, q) \in Index
  BY CommRingAssumption DEF Dist, Index

\* Advancing twice is advancing by the sum.
LEMMA AdvAdv ==
    ASSUME NEW p \in Index, NEW i \in Nat, NEW j \in Nat, i + j <= DataLength
    PROVE  Adv(Adv(p, i), j) = Adv(p, i + j)
  BY CommRingAssumption DEF Adv, Index

\* Moving forward inside the ring moves away from a fixed position.
LEMMA DistAdv ==
    ASSUME NEW b \in Index, NEW p \in Index, NEW i \in Nat,
           Dist(b, p) + i < DataLength
    PROVE  Dist(b, Adv(p, i)) = Dist(b, p) + i
  BY CommRingAssumption DEF Adv, Dist, Index

\* Equal cursors have no bytes between them.
LEMMA DistSelf ==
    ASSUME NEW p \in Index
    PROVE  Dist(p, p) = 0
  BY CommRingAssumption DEF Dist, Index

\* Only equal cursors have no bytes between them.
LEMMA DistZero ==
    ASSUME NEW p \in Index, NEW q \in Index, Dist(p, q) = 0
    PROVE  p = q
  BY CommRingAssumption DEF Dist, Index

\* Seen from the end of the data, what lies before the end is a lap ahead.
LEMMA DistBehind ==
    ASSUME NEW b \in Index, NEW e \in Index, NEW q \in Index,
           Dist(b, q) < Dist(b, e)
    PROVE  Dist(e, q) = Dist(b, q) + DataLength - Dist(b, e)
  BY CommRingAssumption DEF Dist, Index

\* Moving the origin forward.
LEMMA DistShift ==
    ASSUME NEW b \in Index, NEW c \in Index, NEW q \in Index,
           Dist(b, c) <= Dist(b, q)
    PROVE  Dist(c, q) = Dist(b, q) - Dist(b, c)
  BY CommRingAssumption DEF Dist, Index

\* comm_remaining is the space outside the cursors.
LEMMA RemainingIsFree ==
    ASSUME ring_begin \in Index, ring_end \in Index
    PROVE  comm_remaining = DataLength - Used
  BY CommRingAssumption DEF comm_remaining, Used, Dist, Index

\* A frame is its header and its payload.
LEMMA FrameSizePositive ==
    ASSUME NEW n \in Sizes
    PROVE  /\ n \in Nat
           /\ FrameSize(n) \in Nat
           /\ FrameSize(n) > 0
           /\ FrameSize(n) = HeaderLength + n
  BY CommRingAssumption DEF FrameSize

\* What a frame writes into a byte of the ring is a cell.
LEMMA FrameCellType ==
    ASSUME NEW t \in Tags, NEW n \in Sizes, NEW i \in Nat
    PROVE  FrameCell(t, n, i) \in Cell
  <1>1. CASE i < HeaderLength
    <2>1. i \in 0..HeaderLength - 1
      BY <1>1, CommRingAssumption
    <2> QED
      BY <1>1, <2>1 DEF FrameCell, Cell
  <1>2. CASE ~(i < HeaderLength)
    <2>1. i - HeaderLength \in Nat
      BY <1>2, CommRingAssumption
    <2> QED
      BY <1>2, <2>1 DEF FrameCell, Cell
  <1> QED
    BY <1>1, <1>2

----------------------------------------------------------------------------
(* The steps. *)

\* The state a step starts from, in the form its proof uses.
LEMMA PacketFacts ==
    ASSUME NEW Q, RingInv(Q), NEW k \in 1..Len(unread)
    PROVE  /\ unread[k] \in Packet
           /\ unread[k].at \in Index
           /\ unread[k].size \in Sizes
           /\ unread[k].tag \in Tags
           /\ Size(k) \in Nat /\ Size(k) > 0
           /\ Off(k) \in Index
           /\ Used \in Index
           /\ Off(k) + Size(k) <= Used
  <1>1. unread[k] \in Packet
    BY DEF RingInv, TypeOK
  <1>2. unread[k].at \in Index /\ unread[k].size \in Sizes /\ unread[k].tag \in Tags
    BY <1>1 DEF Packet
  <1>3. Size(k) \in Nat /\ Size(k) > 0
    BY <1>2, FrameSizePositive DEF Size
  <1>4. Off(k) \in Index
    BY <1>2, DistInRing DEF Off, RingInv, TypeOK
  <1>5. Used \in Index
    BY DistInRing DEF Used, RingInv, TypeOK
  <1> QED
    BY <1>1, <1>2, <1>3, <1>4, <1>5 DEF RingInv, Layout

\* An empty ring satisfies the invariant.
LEMMA RingInvInit ==
    ASSUME NEW Q, Init
    PROVE  RingInv(Q)
  <1>1. 0 \in Index /\ unread = <<>> /\ Len(unread) = 0
    BY CommRingAssumption DEF Init, Index
  <1>2. TypeOK
    BY <1>1 DEF Init, TypeOK, Cell
  <1> QED
    BY <1>1, <1>2 DEF Init, RingInv, BeginAtOldest, Layout, UnreadIntact

\* An accepted packet leaves at least one byte of the ring free.
LEMMA PutFits ==
    ASSUME NEW Q, NeverFills(Q), RingInv(Q), NEW t \in Tags, NEW n \in Sizes,
           comm_remaining >= FrameSize(n)
    PROVE  Used \in Index /\ Used + FrameSize(n) < DataLength
  <1>1. Used \in Index /\ ring_begin \in Index /\ ring_end \in Index
    BY DistInRing DEF RingInv, TypeOK, Used
  <1>2. FrameSize(n) \in Nat /\ FrameSize(n) > 0
    BY FrameSizePositive
  <1>3. Used + FrameSize(n) <= DataLength
    BY <1>1, <1>2, RemainingIsFree, CommRingAssumption DEF Index
  <1>4. Used + FrameSize(n) # DataLength
    <2>1. Used \in Q
      <3>1. CASE unread = <<>>
        <4>1. Used = 0
          BY <1>1, <3>1, DistSelf DEF RingInv, BeginAtOldest, Used
        <4> QED
          BY <4>1 DEF NeverFills
      <3>2. CASE unread # <<>>
        <4>1. 1 \in 1..Len(unread)
          BY <3>2 DEF RingInv, TypeOK
        <4>2. ring_begin = unread[1].at
          BY <3>2 DEF RingInv, BeginAtOldest, TypeOK
        <4> QED
          BY <4>1, <4>2 DEF RingInv, Used
      <3> QED
        BY <3>1, <3>2
    <2> QED
      BY <2>1 DEF NeverFills
  <1> QED
    BY <1>1, <1>2, <1>3, <1>4, CommRingAssumption DEF Index

\* comm_put keeps the invariant: it writes beyond what is unread.
LEMMA PutStep ==
    ASSUME NEW Q, NeverFills(Q), RingInv(Q), NEW t \in Tags, NEW n \in Sizes,
           Put(t, n)
    PROVE  RingInv(Q)'
  <1> DEFINE f == FrameSize(n)
             u == Len(unread)
             new == [tag |-> t, size |-> n, at |-> ring_end]
  <1>1. /\ ring_begin \in Index /\ ring_end \in Index /\ Used \in Index
        /\ f \in Nat /\ f > 0 /\ n \in Nat /\ f = HeaderLength + n
        /\ Used + f < DataLength
        /\ u \in Nat
    BY PutFits, FrameSizePositive DEF Put, RingInv, TypeOK
  <1>2. ring_begin' = ring_begin /\ ring_end' = Adv(ring_end, f)
    <2>1. Adv(Adv(ring_end, HeaderLength), n) = Adv(ring_end, HeaderLength + n)
      BY <1>1, AdvAdv, CommRingAssumption DEF Index
    <2> QED
      BY <1>1, <2>1 DEF Put
  <1>3. ring_end' \in Index
    BY <1>1, <1>2, AdvInRing, CommRingAssumption DEF Index
  <1>4. Used' = Used + f
    BY <1>1, <1>2, DistAdv DEF Used
  <1>5. /\ unread \in Seq(Packet) /\ new \in Packet
        /\ unread' = Append(unread, new)
        /\ Len(unread') = u + 1
        /\ unread'[u + 1] = new
        /\ \A k \in 1..u : unread'[k] = unread[k]
    BY <1>1 DEF Put, RingInv, TypeOK, Packet
  <1>6. /\ \A k \in 1..u : Off(k)' = Off(k) /\ Size(k)' = Size(k)
        /\ \A k \in 1..u + 1 : k = u + 1 => Off(k)' = Used /\ Size(k)' = f
    BY <1>1, <1>2, <1>5 DEF Off, Size, Used
  <1>7. TypeOK'
    <2>1. cells' \in [Index -> Cell]
      <3> SUFFICES ASSUME NEW q \in Index
                   PROVE  (IF Dist(ring_end, q) < FrameSize(n)
                           THEN FrameCell(t, n, Dist(ring_end, q))
                           ELSE cells[q]) \in Cell
        BY DEF Put, comm_put_data
      <3>1. Dist(ring_end, q) \in Nat
        BY <1>1, DistInRing DEF Index
      <3>2. FrameCell(t, n, Dist(ring_end, q)) \in Cell
        BY <3>1, FrameCellType
      <3> QED
        BY <3>2 DEF RingInv, TypeOK
    <2>2. unread' \in Seq(Packet)
      BY <1>5
    <2> QED
      BY <1>1, <1>2, <1>3, <2>1, <2>2 DEF Put, RingInv, TypeOK
  <1>8. (packet_count = Len(unread))'
    BY <1>5 DEF Put, RingInv
  <1>9. BeginAtOldest'
    <2>1. unread' # <<>> /\ Head(unread') = unread'[1]
      BY <1>1, <1>5
    <2>2. CASE unread = <<>>
      <3>1. u = 0 /\ ring_begin = ring_end
        BY <2>2 DEF RingInv, BeginAtOldest
      <3> QED
        BY <1>2, <1>5, <2>1, <3>1 DEF BeginAtOldest
    <2>3. CASE unread # <<>>
      <3>1. 1 \in 1..u /\ ring_begin = unread[1].at
        BY <1>5, <2>3 DEF RingInv, BeginAtOldest
      <3> QED
        BY <1>2, <1>5, <2>1, <3>1 DEF BeginAtOldest
    <2> QED
      BY <2>2, <2>3
  <1>10. Layout'
    <2>1. \A k \in 1..u : /\ Off(k) \in Nat /\ Size(k) \in Nat
                          /\ Off(k) + Size(k) <= Used
      BY PacketFacts DEF Index
    <2>2. \A k \in 1..Len(unread') : Off(k)' + Size(k)' <= Used'
      <3> SUFFICES ASSUME NEW k \in 1..u + 1
                   PROVE  Off(k)' + Size(k)' <= Used + f
        BY <1>4, <1>5
      <3>1. CASE k = u + 1
        BY <1>1, <1>6, <3>1, CommRingAssumption DEF Index
      <3>2. CASE k \in 1..u
        <4>1. Off(k)' = Off(k) /\ Size(k)' = Size(k)
          BY <1>6, <3>2
        <4> QED
          BY <1>1, <2>1, <3>2, <4>1, CommRingAssumption DEF Index
      <3> QED
        BY <1>1, <3>1, <3>2
    <2>3. \A k, m \in 1..Len(unread') : k < m => Off(k)' + Size(k)' <= Off(m)'
      <3> SUFFICES ASSUME NEW k \in 1..u + 1, NEW m \in 1..u + 1, k < m
                   PROVE  Off(k)' + Size(k)' <= Off(m)'
        BY <1>5
      <3>1. k \in 1..u
        BY <1>1
      <3>2. CASE m = u + 1
        BY <1>6, <2>1, <3>1, <3>2
      <3>3. CASE m \in 1..u
        BY <1>6, <3>1, <3>3 DEF RingInv, Layout
      <3> QED
        BY <1>1, <3>2, <3>3
    <2>4. \A k \in 1..Len(unread') :
             k + 1 <= Len(unread') => unread'[k + 1].at = Adv(unread'[k].at, Size(k)')
      <3> SUFFICES ASSUME NEW k \in 1..u
                   PROVE  unread'[k + 1].at = Adv(unread[k].at, Size(k))
        BY <1>1, <1>5, <1>6
      <3>1. CASE k = u
        BY <1>5, <3>1 DEF RingInv, Layout
      <3>2. CASE k + 1 \in 1..u
        BY <1>5, <3>2 DEF RingInv, Layout
      <3> QED
        BY <1>1, <3>1, <3>2
    <2>5. \A k \in 1..Len(unread') :
             k = Len(unread') => ring_end' = Adv(unread'[k].at, Size(k)')
      BY <1>2, <1>5, <1>6
    <2> QED
      BY <2>2, <2>3, <2>4, <2>5 DEF Layout
  <1>11. UnreadIntact'
    <2> SUFFICES ASSUME NEW k \in 1..u + 1,
                        NEW i \in 0..FrameSize(unread'[k].size) - 1
                 PROVE  cells'[Adv(unread'[k].at, i)]
                          = FrameCell(unread'[k].tag, unread'[k].size, i)
      BY <1>5 DEF UnreadIntact
    <2>1. CASE k = u + 1
      <3>1. i \in Nat /\ i < f
        BY <1>1, <1>5, <2>1
      <3>2. Adv(ring_end, i) \in Index
        <4>1. i \in 0..DataLength
          BY <1>1, <3>1, CommRingAssumption DEF Index
        <4> QED
          BY <1>1, <4>1, AdvInRing
      <3>3. Dist(ring_end, Adv(ring_end, i)) = i
        BY <1>1, <3>1, DistSelf, DistAdv, CommRingAssumption DEF Index
      <3>4. cells'[Adv(ring_end, i)] = FrameCell(t, n, i)
        BY <3>1, <3>2, <3>3 DEF Put, comm_put_data
      <3> QED
        BY <1>5, <2>1, <3>4
    <2>2. CASE k \in 1..u
      <3> DEFINE q == Adv(unread[k].at, i)
      <3>1. /\ unread[k].at \in Index /\ Size(k) \in Nat
            /\ Off(k) \in Index /\ Off(k) + Size(k) <= Used
        BY <2>2, PacketFacts
      <3>2. i \in Nat /\ i < Size(k)
        BY <1>5, <2>2, <3>1 DEF Size
      <3>3. q \in Index
        <4>1. i \in 0..DataLength
          BY <1>1, <3>1, <3>2, CommRingAssumption DEF Index
        <4> QED
          BY <3>1, <4>1, AdvInRing
      <3>4. Dist(ring_begin, q) = Off(k) + i
        BY <1>1, <3>1, <3>2, DistAdv, CommRingAssumption DEF Off, Index
      <3>5. Dist(ring_begin, q) < Dist(ring_begin, ring_end)
        BY <1>1, <3>1, <3>2, <3>4 DEF Used, Index
      <3>6. Dist(ring_end, q) = Dist(ring_begin, q) + DataLength - Used
        BY <1>1, <3>3, <3>5, DistBehind DEF Used
      <3>7. ~(Dist(ring_end, q) < f)
        BY <1>1, <3>1, <3>2, <3>4, <3>6, CommRingAssumption DEF Index
      <3>8. cells'[q] = cells[q]
        BY <3>3, <3>7 DEF Put, comm_put_data
      <3>9. cells[q] = FrameCell(unread[k].tag, unread[k].size, i)
        BY <2>2, <3>1, <3>2 DEF RingInv, UnreadIntact, Size
      <3> QED
        BY <1>5, <2>2, <3>8, <3>9
    <2> QED
      BY <1>1, <2>1, <2>2
  <1>12. \A k \in 1..Len(unread') : Dist(unread'[k].at, ring_end') \in Q
    <2> SUFFICES ASSUME NEW k \in 1..u + 1
                 PROVE  Dist(unread'[k].at, Adv(ring_end, f)) \in Q
      BY <1>2, <1>5
    <2>1. CASE k = u + 1
      <3>1. Dist(ring_end, Adv(ring_end, f)) = 0 + f
        BY <1>1, DistSelf, DistAdv, CommRingAssumption DEF Index
      <3> QED
        BY <1>5, <2>1, <3>1 DEF NeverFills
    <2>2. CASE k \in 1..u
      <3>1. /\ unread[k].at \in Index /\ Off(k) \in Index /\ Size(k) \in Nat
            /\ Off(k) + Size(k) <= Used
        BY <2>2, PacketFacts
      <3>2. Dist(unread[k].at, ring_end) = Used - Off(k)
        BY <1>1, <3>1, DistShift DEF Used, Off, Index
      <3>3. Dist(unread[k].at, Adv(ring_end, f)) = Dist(unread[k].at, ring_end) + f
        BY <1>1, <3>1, <3>2, DistAdv, CommRingAssumption DEF Index
      <3>4. Dist(unread[k].at, ring_end) \in Q
        BY <2>2 DEF RingInv
      <3> QED
        BY <1>5, <2>2, <3>3, <3>4 DEF NeverFills
    <2> QED
      BY <1>1, <2>1, <2>2
  <1> QED
    BY <1>7, <1>8, <1>9, <1>10, <1>11, <1>12 DEF RingInv

\* comm_peek reads the length that was written for the oldest packet.
LEMMA HeaderIsWritten ==
    ASSUME NEW Q, RingInv(Q), packet_count > 0, NEW n \in HeaderAt(ring_begin)
    PROVE  /\ unread # <<>> /\ 1 \in 1..Len(unread)
           /\ ring_begin = unread[1].at
           /\ n = unread[1].size
  <1>1. unread # <<>> /\ 1 \in 1..Len(unread) /\ ring_begin = unread[1].at
    BY DEF RingInv, TypeOK, BeginAtOldest
  <1>2. unread[1].size \in Sizes
    BY <1>1, PacketFacts
  <1>3. \A i \in 0..HeaderLength - 1 :
           cells[Adv(ring_begin, i)] = <<"len", unread[1].size, i>>
    <2> SUFFICES ASSUME NEW i \in 0..HeaderLength - 1
                 PROVE  cells[Adv(ring_begin, i)] = <<"len", unread[1].size, i>>
      OBVIOUS
    <2>1. i \in 0..FrameSize(unread[1].size) - 1 /\ i < HeaderLength
      BY <1>2, CommRingAssumption, FrameSizePositive
    <2>2. cells[Adv(ring_begin, i)] = FrameCell(unread[1].tag, unread[1].size, i)
      BY <1>1, <2>1 DEF RingInv, UnreadIntact
    <2> QED
      BY <2>1, <2>2 DEF FrameCell
  <1>4. \A i \in 0..HeaderLength - 1 : cells[Adv(ring_begin, i)] = <<"len", n, i>>
    BY <1>2, <1>3 DEF HeaderAt
  <1>5. 0 \in 0..HeaderLength - 1
    BY CommRingAssumption
  <1>6. <<"len", n, 0>> = <<"len", unread[1].size, 0>>
    BY <1>3, <1>4, <1>5
  <1> QED
    BY <1>1, <1>6

\* Both forms of comm_peek take the oldest packet, header and payload.
LEMMA PeekMoves ==
    ASSUME NEW Q, RingInv(Q), ~ShortReadsMayWrap, NEW buf \in BufSizes,
           Peek(buf) \/ PeekShort(buf)
    PROVE  /\ packet_count > 0 /\ packet_count' = packet_count - 1
           /\ unread # <<>> /\ unread' = Tail(unread)
           /\ ring_begin' = Adv(ring_begin, Size(1))
           /\ ring_end' = ring_end /\ cells' = cells
  <1> DEFINE body == Adv(ring_begin, HeaderLength)
  <1>1. packet_count > 0 /\ packet_count' = packet_count - 1
        /\ unread' = Tail(unread) /\ ring_end' = ring_end /\ cells' = cells
    BY DEF Peek, PeekShort
  <1>2. PICK n \in HeaderAt(ring_begin) :
            \/ ring_begin' = Adv(body, n)
            \/ /\ body + n < DataLength
               /\ ring_begin' = comm_skip_data(body, n)
    <2>1. CASE Peek(buf)
      BY <2>1 DEF Peek
    <2>2. CASE PeekShort(buf)
      <3>1. PICK n \in HeaderAt(ring_begin) :
              /\ body + n >= DataLength => ShortReadsMayWrap
              /\ ring_begin' = comm_skip_data(body, n)
        BY <2>2 DEF PeekShort
      <3>2. n \in Nat
        BY <1>1, <3>1, HeaderIsWritten, PacketFacts, FrameSizePositive
      <3>3. body \in Int
        BY CommRingAssumption DEF RingInv, TypeOK, Index, Adv
      <3>4. body + n < DataLength
        BY <3>1, <3>2, <3>3, CommRingAssumption
      <3> QED
        BY <3>1, <3>4
    <2> QED
      BY <2>1, <2>2
  <1>3. /\ unread # <<>> /\ 1 \in 1..Len(unread) /\ n = unread[1].size
    BY <1>1, <1>2, HeaderIsWritten
  <1>4. /\ n \in Nat /\ Size(1) = HeaderLength + n
        /\ Off(1) \in Nat /\ Size(1) <= DataLength
        /\ ring_begin \in Index
    <2>1. /\ n \in Sizes /\ Size(1) \in Nat /\ Off(1) \in Index /\ Used \in Index
          /\ Off(1) + Size(1) <= Used
      BY <1>3, PacketFacts
    <2>2. n \in Nat /\ Size(1) = HeaderLength + n
      BY <1>3, <2>1, FrameSizePositive DEF Size
    <2>3. ring_begin \in Index
      BY DEF RingInv, TypeOK
    <2>4. Off(1) \in Nat /\ Size(1) <= DataLength
      BY <2>1, CommRingAssumption DEF Index
    <2> QED
      BY <2>2, <2>3, <2>4
  <1>5. Adv(body, n) = Adv(ring_begin, Size(1))
    BY <1>4, AdvAdv, CommRingAssumption
  <1>6. body + n < DataLength => comm_skip_data(body, n) = Adv(body, n)
    BY <1>4, CommRingAssumption DEF comm_skip_data, Adv, Index
  <1> QED
    BY <1>1, <1>2, <1>3, <1>5, <1>6

\* comm_peek keeps the invariant, if no short read passes the end of the ring.
LEMMA PeekStep ==
    ASSUME NEW Q, RingInv(Q), ~ShortReadsMayWrap, NEW buf \in BufSizes,
           Peek(buf) \/ PeekShort(buf)
    PROVE  RingInv(Q)'
  <1> DEFINE u == Len(unread)
             s == Size(1)
  <1>1. /\ packet_count > 0 /\ packet_count' = packet_count - 1
        /\ unread # <<>> /\ unread' = Tail(unread)
        /\ ring_begin' = Adv(ring_begin, s)
        /\ ring_end' = ring_end /\ cells' = cells
    BY PeekMoves
  <1>2. /\ unread \in Seq(Packet) /\ u \in Nat /\ 1 \in 1..u
        /\ unread' \in Seq(Packet) /\ Len(unread') = u - 1
        /\ \A k \in 1..u - 1 : unread'[k] = unread[k + 1]
        /\ unread' # <<>> => Head(unread') = unread'[1]
    BY <1>1 DEF RingInv, TypeOK
  <1>3. /\ ring_begin \in Index /\ ring_end \in Index
        /\ ring_begin = unread[1].at
        /\ s \in Nat /\ s > 0 /\ Off(1) = 0 /\ s <= Used /\ Used \in Index
    <2>1. ring_begin \in Index /\ ring_end \in Index /\ ring_begin = unread[1].at
      BY <1>1, <1>2 DEF RingInv, TypeOK, BeginAtOldest
    <2>2. Off(1) = 0
      BY <2>1, DistSelf DEF Off
    <2>3. s \in Nat /\ s > 0 /\ Off(1) + s <= Used /\ Used \in Index
      BY <1>2, PacketFacts
    <2> QED
      BY <2>1, <2>2, <2>3
  <1>4. ring_begin' \in Index /\ Dist(ring_begin, ring_begin') = s
    <2>1. s \in 0..DataLength /\ 0 + s < DataLength
      BY <1>3, CommRingAssumption DEF Index
    <2>2. ring_begin' \in Index
      BY <1>1, <1>3, <2>1, AdvInRing
    <2>3. Dist(ring_begin, Adv(ring_begin, s)) = 0 + s
      BY <1>3, <2>1, DistAdv, DistSelf
    <2> QED
      BY <1>1, <1>3, <2>2, <2>3
  <1>5. Used' = Used - s
    BY <1>1, <1>3, <1>4, DistShift DEF Used
  <1>6. \A k \in 1..u - 1 :
            /\ k + 1 \in 1..u
            /\ Size(k)' = Size(k + 1)
            /\ Off(k)' = Off(k + 1) - s
    <2> SUFFICES ASSUME NEW k \in 1..u - 1
                 PROVE  /\ k + 1 \in 1..u
                        /\ Size(k)' = Size(k + 1)
                        /\ Off(k)' = Off(k + 1) - s
      OBVIOUS
    <2>1. k + 1 \in 1..u /\ 1 < k + 1
      BY <1>2
    <2>2. Size(k)' = Size(k + 1)
      BY <1>2 DEF Size
    <2>3. unread[k + 1].at \in Index
      BY <2>1, PacketFacts
    <2>4. s <= Dist(ring_begin, unread[k + 1].at)
      <3>1. Off(1) + s <= Off(k + 1)
        BY <1>2, <2>1 DEF RingInv, Layout
      <3> QED
        BY <1>3, <3>1 DEF Off
    <2>5. Off(k)' = Off(k + 1) - s
      BY <1>2, <1>3, <1>4, <2>3, <2>4, DistShift DEF Off
    <2> QED
      BY <2>1, <2>2, <2>5
  <1>7. TypeOK' /\ (packet_count = Len(unread))'
    BY <1>1, <1>2, <1>3, <1>4 DEF RingInv, TypeOK
  <1>8. BeginAtOldest'
    <2>1. CASE u = 1
      <3>1. unread' = <<>>
        BY <1>2, <2>1
      <3>2. ring_end = Adv(unread[1].at, s)
        BY <1>2, <2>1 DEF RingInv, Layout
      <3> QED
        BY <1>1, <1>3, <3>1, <3>2 DEF BeginAtOldest
    <2>2. CASE u # 1
      <3>1. 1 \in 1..u - 1 /\ unread' # <<>> /\ Head(unread') = unread[2]
        BY <1>2, <2>2
      <3>2. unread[2].at = Adv(unread[1].at, s)
        BY <1>2, <3>1 DEF RingInv, Layout
      <3> QED
        BY <1>1, <1>3, <3>1, <3>2 DEF BeginAtOldest
    <2> QED
      BY <2>1, <2>2
  <1>9. Layout'
    <2>1. \A k \in 1..u : /\ Off(k) \in Nat /\ Size(k) \in Nat
                          /\ Off(k) + Size(k) <= Used
      BY PacketFacts, CommRingAssumption DEF Index
    <2>2. \A k \in 1..Len(unread') : Off(k)' + Size(k)' <= Used'
      BY <1>2, <1>3, <1>5, <1>6, <2>1, CommRingAssumption DEF Index
    <2>3. \A k, m \in 1..Len(unread') : k < m => Off(k)' + Size(k)' <= Off(m)'
      <3> SUFFICES ASSUME NEW k \in 1..u - 1, NEW m \in 1..u - 1, k < m
                   PROVE  Off(k)' + Size(k)' <= Off(m)'
        BY <1>2
      <3>1. Off(k + 1) + Size(k + 1) <= Off(m + 1)
        BY <1>6 DEF RingInv, Layout
      <3> QED
        BY <1>3, <1>6, <2>1, <3>1
    <2>4. \A k \in 1..Len(unread') :
             k + 1 <= Len(unread') => unread'[k + 1].at = Adv(unread'[k].at, Size(k)')
      <3> SUFFICES ASSUME NEW k \in 1..u - 1, k + 1 <= u - 1
                   PROVE  unread[k + 2].at = Adv(unread[k + 1].at, Size(k + 1))
        BY <1>2, <1>6
      <3>1. k + 1 \in 1..u /\ (k + 1) + 1 <= u
        BY <1>2
      <3> QED
        BY <3>1 DEF RingInv, Layout
    <2>5. \A k \in 1..Len(unread') :
             k = Len(unread') => ring_end' = Adv(unread'[k].at, Size(k)')
      <3> SUFFICES ASSUME NEW k \in 1..u - 1, k = u - 1
                   PROVE  ring_end = Adv(unread[k + 1].at, Size(k + 1))
        BY <1>1, <1>2, <1>6
      <3>1. k + 1 \in 1..u /\ k + 1 = u
        BY <1>2
      <3> QED
        BY <3>1 DEF RingInv, Layout
    <2> QED
      BY <2>2, <2>3, <2>4, <2>5 DEF Layout
  <1>10. UnreadIntact'
    <2> SUFFICES ASSUME NEW k \in 1..u - 1,
                        NEW i \in 0..FrameSize(unread[k + 1].size) - 1
                 PROVE  cells[Adv(unread[k + 1].at, i)]
                          = FrameCell(unread[k + 1].tag, unread[k + 1].size, i)
      BY <1>1, <1>2 DEF UnreadIntact
    <2> QED
      BY <1>6 DEF RingInv, UnreadIntact
  <1>11. \A k \in 1..Len(unread') : Dist(unread'[k].at, ring_end') \in Q
    BY <1>1, <1>2, <1>6 DEF RingInv
  <1> QED
    BY <1>7, <1>8, <1>9, <1>10, <1>11 DEF RingInv

----------------------------------------------------------------------------
(* The theorems. *)

\* RingInv holds initially and every call of comm_put and comm_peek keeps it.
THEOREM RingInvariance ==
    ASSUME NEW CONSTANT Q, NeverFills(Q), ~ShortReadsMayWrap
    PROVE  Spec => []RingInv(Q)
  <1>1. Init => RingInv(Q)
    BY RingInvInit
  <1>2. RingInv(Q) /\ [Next]_vars => RingInv(Q)'
    <2> SUFFICES ASSUME RingInv(Q), [Next]_vars
                 PROVE  RingInv(Q)'
      OBVIOUS
    <2>1. ASSUME NEW t \in Tags, NEW n \in Sizes, Put(t, n)
          PROVE  RingInv(Q)'
      BY <2>1, PutStep
    <2>2. ASSUME NEW buf \in BufSizes, Peek(buf) \/ PeekShort(buf)
          PROVE  RingInv(Q)'
      BY <2>2, PeekStep
    <2>3. ASSUME UNCHANGED <<ring_begin, ring_end, packet_count, cells, unread>>
          PROVE  RingInv(Q)'
      BY <2>3 DEF RingInv, TypeOK, BeginAtOldest, Layout, UnreadIntact, Off, Size,
                  Used
    <2> QED
      BY <2>1, <2>2, <2>3 DEF Next, PutRefused, PeekEmpty, vars
  <1> QED
    BY <1>1, <1>2, PTL DEF Spec

\* The cursors never leave the ring.
THEOREM TypeCorrect ==
    ASSUME NEW CONSTANT Q, NeverFills(Q), ~ShortReadsMayWrap
    PROVE  Spec => []TypeOK
  <1>1. RingInv(Q) => TypeOK
    BY DEF RingInv
  <1> QED
    BY <1>1, RingInvariance, PTL

\* No accepted packet is overwritten before it has been read (comm_put,
\* comm_peek).
THEOREM NoOverwrite ==
    ASSUME NEW CONSTANT Q, NeverFills(Q), ~ShortReadsMayWrap
    PROVE  Spec => []UnreadIntact
  <1>1. RingInv(Q) => UnreadIntact
    BY DEF RingInv
  <1> QED
    BY <1>1, RingInvariance, PTL

\* comm_peek always starts at the header of the oldest packet.
THEOREM ReadsAtOldest ==
    ASSUME NEW CONSTANT Q, NeverFills(Q), ~ShortReadsMayWrap
    PROVE  Spec => []BeginAtOldest
  <1>1. RingInv(Q) => BeginAtOldest
    BY DEF RingInv
  <1> QED
    BY <1>1, RingInvariance, PTL

\* comm_put never makes the cursors meet, so a full ring is never taken for an
\* empty one.
THEOREM NeverFull ==
    ASSUME NEW CONSTANT Q, NeverFills(Q), ~ShortReadsMayWrap
    PROVE  Spec => PutNeverFills
  <1>1. RingInv(Q) /\ [Next]_vars
          => [packet_count' > packet_count => ring_begin # ring_end']_vars
    <2> SUFFICES ASSUME RingInv(Q), Next, packet_count' > packet_count
                 PROVE  ring_begin # ring_end'
      BY DEF vars
    <2>1. packet_count \in Nat
      BY DEF RingInv, TypeOK
    <2>2. PICK t \in Tags, n \in Sizes : Put(t, n)
      BY <2>1 DEF Next, PutRefused, PeekEmpty, Peek, PeekShort
    <2>3. RingInv(Q)' /\ ring_begin' = ring_begin /\ 1 \in 1..Len(unread')
      BY <2>2, PutStep DEF Put, RingInv, TypeOK
    <2>4. PICK k \in 1..Len(unread') : k = 1
      BY <2>3
    <2>5. /\ ring_begin' \in Index /\ ring_end' \in Index
          /\ unread'[k].size \in Sizes /\ unread'[k].at \in Index
          /\ Off(k)' + Size(k)' <= Used'
      <3>1. unread'[k] \in Packet /\ ring_begin' \in Index /\ ring_end' \in Index
        BY <2>3, <2>4 DEF RingInv, TypeOK
      <3>2. Off(k)' + Size(k)' <= Used'
        BY <2>3, <2>4 DEF RingInv, Layout
      <3> QED
        BY <3>1, <3>2 DEF Packet
    <2>6. Off(k)' \in Nat /\ Size(k)' > 0 /\ Size(k)' \in Nat
      <3>1. Dist(ring_begin', unread'[k].at) \in Index
        BY <2>5, DistInRing
      <3>2. Off(k)' \in Nat
        BY <3>1, CommRingAssumption DEF Off, Index
      <3>3. FrameSize(unread'[k].size) \in Nat /\ FrameSize(unread'[k].size) > 0
        BY <2>5, FrameSizePositive
      <3> QED
        BY <3>2, <3>3 DEF Size
    <2>7. Used' # 0
      BY <2>5, <2>6, DistInRing, CommRingAssumption DEF Used, Index
    <2> QED
      BY <2>3, <2>5, <2>7, DistSelf DEF Used
  <1> QED
    BY <1>1, RingInvariance, PTL DEF Spec, PutNeverFills

\* The scheduler channels of task_setup: half a page less the 56-byte header of
\* comm_t, packets of one size each way.  Neither sin (56 + 4 bytes a packet)
\* nor sout (40 + 4) can ever be filled exactly.
THEOREM SchedulerChannelsNeverFill ==
    ASSUME DataLength = 1992, HeaderLength = 4, Sizes = {56} \/ Sizes = {40}
    PROVE  \E Q : NeverFills(Q)
  <1>1. CASE Sizes = {56}
    <2> DEFINE Q == {60 * i : i \in Nat}
    <2>1. Q \subseteq Nat /\ 0 \in Q
      BY 0 = 60 * 0
    <2>2. 1992 \notin Q
      OBVIOUS
    <2>3. ASSUME NEW x \in Q PROVE x + 60 \in Q
      <3>1. PICK i \in Nat : x = 60 * i
        OBVIOUS
      <3>2. i + 1 \in Nat /\ x + 60 = 60 * (i + 1)
        BY <3>1
      <3> QED
        BY <3>2
    <2>4. NeverFills(Q)
      BY <1>1, <2>1, <2>2, <2>3 DEF NeverFills, FrameSize
    <2> QED
      BY <2>4
  <1>2. CASE Sizes = {40}
    <2> DEFINE Q == {44 * i : i \in Nat}
    <2>1. Q \subseteq Nat /\ 0 \in Q
      BY 0 = 44 * 0
    <2>2. 1992 \notin Q
      OBVIOUS
    <2>3. ASSUME NEW x \in Q PROVE x + 44 \in Q
      <3>1. PICK i \in Nat : x = 44 * i
        OBVIOUS
      <3>2. i + 1 \in Nat /\ x + 44 = 44 * (i + 1)
        BY <3>1
      <3> QED
        BY <3>2
    <2>4. NeverFills(Q)
      BY <1>2, <2>1, <2>2, <2>3 DEF NeverFills, FrameSize
    <2> QED
      BY <2>4
  <1> QED
    BY <1>1, <1>2

----------------------------------------------------------------------------
(* The space that comm_remaining reports. *)

\* The recursive definition of the bytes in use defines a function.
LEMMA UnreadBytesStep ==
    ASSUME unread \in Seq(Packet)
    PROVE  /\ UnreadBytes[0] = 0
           /\ \A k \in 1..Len(unread) : UnreadBytes[k] = UnreadBytes[k - 1] + Size(k)
  <1> DEFINE N == Len(unread)
             w == [k \in 1..N |-> Size(k)]
  <1>1. N \in Nat /\ w \in [1..N -> Nat]
    <2> SUFFICES ASSUME NEW k \in 1..N PROVE Size(k) \in Nat
      OBVIOUS
    <2>1. unread[k] \in Packet
      BY ElementOfSeq
    <2>2. unread[k].size \in Sizes
      BY <2>1 DEF Packet
    <2> QED
      BY <2>2, FrameSizePositive DEF Size
  <1>2. PICK f : /\ f \in [0..N -> Nat]
                 /\ f[0] = 0
                 /\ \A k \in 1..N : f[k] = f[k - 1] + w[k]
    <2> HIDE DEF N, w
    <2> QED
      BY <1>1, PartialSums
  <1>3. \A k \in 1..N : f[k] = f[k - 1] + Size(k)
    BY <1>2
  <1>4. f = [k \in 0..N |-> IF k = 0 THEN 0 ELSE f[k - 1] + FrameSize(unread[k].size)]
    BY <1>2, <1>3 DEF Size
  <1>5. UnreadBytes = [k \in 0..N |-> IF k = 0 THEN 0
                                     ELSE UnreadBytes[k - 1] + FrameSize(unread[k].size)]
    BY <1>4 DEF UnreadBytes
  <1> QED
    BY <1>1, <1>5 DEF Size

\* The first k packets take exactly the bytes up to where the k-th one ends.
LEMMA UnreadBytesAreOffsets ==
    ASSUME NEW Q, RingInv(Q), NEW m \in 1..Len(unread)
    PROVE  UnreadBytes[m] = Off(m) + Size(m)
  <1> DEFINE N == Len(unread)
             S == {k \in 0..N : k > 0 => UnreadBytes[k] = Off(k) + Size(k)}
  <1>1. /\ N \in Nat /\ UnreadBytes[0] = 0
        /\ \A k \in 1..N : UnreadBytes[k] = UnreadBytes[k - 1] + Size(k)
    BY UnreadBytesStep DEF RingInv, TypeOK
  <1>2. 0 \in S
    BY <1>1
  <1>3. ASSUME NEW k \in 0..N - 1, k \in S
        PROVE  k + 1 \in S
    <2>1. /\ k + 1 \in 1..N /\ Size(k + 1) \in Nat
          /\ UnreadBytes[k + 1] = UnreadBytes[k] + Size(k + 1)
      BY <1>1, PacketFacts
    <2>2. CASE k = 0
      <3>1. unread # <<>> /\ Head(unread) = unread[1]
        BY <1>1, <2>1 DEF RingInv, TypeOK
      <3>2. Off(1) = 0
        BY <2>1, <2>2, <3>1, DistSelf DEF Off, RingInv, TypeOK, BeginAtOldest
      <3> QED
        BY <1>1, <2>1, <2>2, <3>2
    <2>3. CASE k \in 1..N
      <3>1. /\ Off(k) \in Index /\ Size(k) \in Nat /\ Used \in Index
            /\ Off(k) + Size(k) <= Used /\ unread[k].at \in Index
        BY <2>3, PacketFacts
      <3>2. unread[k + 1].at = Adv(unread[k].at, Size(k))
        BY <2>1, <2>3 DEF RingInv, Layout
      <3>3. Dist(ring_begin, unread[k].at) + Size(k) < DataLength
        BY <3>1, CommRingAssumption DEF Off, Index
      <3>4. Off(k + 1) = Off(k) + Size(k)
        BY <3>1, <3>2, <3>3, DistAdv DEF Off, RingInv, TypeOK
      <3>5. UnreadBytes[k] = Off(k) + Size(k)
        BY <1>3, <2>3
      <3> QED
        BY <2>1, <3>4, <3>5
    <2> QED
      BY <2>2, <2>3
  <1>4. m \in S
    <2> HIDE DEF S
    <2>1. \A k \in 0..N - 1 : k \in S => k + 1 \in S
      BY <1>3
    <2>2. 0..N \subseteq S
      BY <1>1, <1>2, <2>1, IntervalInduction
    <2> QED
      BY <1>1, <2>2
  <1> QED
    BY <1>4

\* The cursors are as far apart as the unread packets are long.
LEMMA UsedIsUnreadBytes ==
    ASSUME NEW Q, RingInv(Q)
    PROVE  Used = UnreadBytes[Len(unread)]
  <1>1. Len(unread) \in Nat /\ UnreadBytes[0] = 0
    BY UnreadBytesStep DEF RingInv, TypeOK
  <1>2. CASE unread = <<>>
    <2>1. Used = 0
      BY <1>2, DistSelf DEF Used, RingInv, TypeOK, BeginAtOldest
    <2> QED
      BY <1>1, <1>2, <2>1
  <1>3. CASE unread # <<>>
    <2> DEFINE N == Len(unread)
    <2>1. N \in 1..Len(unread)
      BY <1>1, <1>3, EmptySeq DEF RingInv, TypeOK
    <2>2. /\ Off(N) \in Index /\ Size(N) \in Nat /\ Used \in Index
          /\ Off(N) + Size(N) <= Used /\ unread[N].at \in Index
      BY <2>1, PacketFacts
    <2>3. ring_end = Adv(unread[N].at, Size(N))
      BY <2>1 DEF RingInv, Layout
    <2>4. Dist(ring_begin, unread[N].at) + Size(N) < DataLength
      BY <2>2, CommRingAssumption DEF Off, Index
    <2>5. Used = Off(N) + Size(N)
      BY <2>2, <2>3, <2>4, DistAdv DEF Off, Used, RingInv, TypeOK
    <2> QED
      BY <2>1, <2>5, UnreadBytesAreOffsets
  <1> QED
    BY <1>2, <1>3

\* comm_put refuses a packet only if the unread ones leave no room for it, and
\* accepts one only if they do: what comm_remaining works out from the cursors
\* is the length of the ring less the frames in it, however often it wrapped.
THEOREM RingSpaceAccounting ==
    ASSUME NEW CONSTANT Q, NeverFills(Q), ~ShortReadsMayWrap
    PROVE  Spec => []SpaceAccounting
  <1>1. RingInv(Q) => SpaceAccounting
    <2> SUFFICES ASSUME RingInv(Q) PROVE SpaceAccounting
      OBVIOUS
    <2>1. comm_remaining = DataLength - Used
      BY RemainingIsFree DEF RingInv, TypeOK
    <2> QED
      BY <2>1, UsedIsUnreadBytes DEF SpaceAccounting
  <1> QED
    BY <1>1, RingInvariance, PTL

----------------------------------------------------------------------------
(* The ring implements the channel. *)

\* The abstract channel has one message for each unread packet.
LEMMA ChanOfSeq ==
    ASSUME NEW u \in Seq(Packet)
    PROVE  /\ chanOf(u) \in Seq(Message)
           /\ Len(chanOf(u)) = Len(u)
           /\ \A k \in 1..Len(u) :
                 chanOf(u)[k] = [tag |-> u[k].tag, size |-> u[k].size]
  <1>1. Len(u) \in Nat
    OBVIOUS
  <1>2. \A k \in 1..Len(u) : [tag |-> u[k].tag, size |-> u[k].size] \in Message
    <2> SUFFICES ASSUME NEW k \in 1..Len(u)
                 PROVE  [tag |-> u[k].tag, size |-> u[k].size] \in Message
      OBVIOUS
    <2>1. u[k] \in Packet
      BY ElementOfSeq
    <2> QED
      BY <2>1 DEF Packet, Message
  <1>3. chanOf(u) \in [1..Len(u) -> Message]
    BY <1>2 DEF chanOf
  <1> QED
    BY <1>1, <1>3 DEF chanOf

\* A put appends one message to the abstract channel.
LEMMA ChanOfAppend ==
    ASSUME NEW u \in Seq(Packet), NEW p \in Packet
    PROVE  chanOf(Append(u, p)) = Append(chanOf(u), [tag |-> p.tag, size |-> p.size])
  <1> DEFINE m == [tag |-> p.tag, size |-> p.size]
             s == chanOf(u)
             v == Append(u, p)
             w == chanOf(v)
  <1>1. m \in Message
    BY DEF Packet, Message
  <1>2. /\ s \in Seq(Message) /\ Len(s) = Len(u) /\ Len(u) \in Nat
        /\ \A k \in 1..Len(u) : s[k] = [tag |-> u[k].tag, size |-> u[k].size]
    BY ChanOfSeq
  <1>3. /\ v \in Seq(Packet) /\ Len(v) = Len(u) + 1
        /\ \A k \in 1..Len(u) : v[k] = u[k]
        /\ v[Len(u) + 1] = p
    BY AppendProperties
  <1>4. /\ w \in Seq(Message) /\ Len(w) = Len(v)
        /\ \A k \in 1..Len(v) : w[k] = [tag |-> v[k].tag, size |-> v[k].size]
    BY <1>3, ChanOfSeq
  <1> HIDE DEF m, s, v, w
  <1>5. /\ Append(s, m) \in Seq(Message) /\ Len(Append(s, m)) = Len(s) + 1
        /\ \A k \in 1..Len(s) : Append(s, m)[k] = s[k]
        /\ Append(s, m)[Len(s) + 1] = m
    BY <1>1, <1>2, AppendProperties
  <1>6. \A k \in 1..Len(w) : w[k] = Append(s, m)[k]
    <2> SUFFICES ASSUME NEW k \in 1..Len(u) + 1
                 PROVE  w[k] = Append(s, m)[k]
      BY <1>3, <1>4
    <2>1. CASE k = Len(u) + 1
      BY <1>2, <1>3, <1>4, <1>5, <2>1 DEF m
    <2>2. CASE k \in 1..Len(u)
      BY <1>2, <1>3, <1>4, <1>5, <2>2
    <2> QED
      BY <1>2, <2>1, <2>2
  <1>7. w = Append(s, m)
    BY <1>2, <1>3, <1>4, <1>5, <1>6, SeqEqual
  <1> QED
    BY <1>7 DEF m, s, v, w

\* A peek takes the first message of the abstract channel.
LEMMA ChanOfTail ==
    ASSUME NEW u \in Seq(Packet), u # <<>>
    PROVE  /\ chanOf(u) # <<>>
           /\ chanOf(Tail(u)) = Tail(chanOf(u))
           /\ Head(chanOf(u)) = [tag |-> u[1].tag, size |-> u[1].size]
  <1> DEFINE s == chanOf(u)
             v == Tail(u)
             w == chanOf(v)
  <1>1. /\ s \in Seq(Message) /\ Len(s) = Len(u) /\ Len(u) \in Nat /\ Len(u) > 0
        /\ \A k \in 1..Len(u) : s[k] = [tag |-> u[k].tag, size |-> u[k].size]
    BY ChanOfSeq, EmptySeq
  <1>2. /\ v \in Seq(Packet) /\ Len(v) = Len(u) - 1
        /\ \A k \in 1..Len(v) : v[k] = u[k + 1]
    BY HeadTailProperties
  <1>3. /\ w \in Seq(Message) /\ Len(w) = Len(v)
        /\ \A k \in 1..Len(v) : w[k] = [tag |-> v[k].tag, size |-> v[k].size]
    BY <1>2, ChanOfSeq
  <1> HIDE DEF s, v, w
  <1>4. s # <<>> /\ Head(s) = s[1] /\ 1 \in 1..Len(u)
    BY <1>1
  <1>5. /\ Tail(s) \in Seq(Message) /\ Len(Tail(s)) = Len(s) - 1
        /\ \A k \in 1..Len(Tail(s)) : Tail(s)[k] = s[k + 1]
    BY <1>1, <1>4, HeadTailProperties
  <1>6. \A k \in 1..Len(w) : w[k] = Tail(s)[k]
    <2> SUFFICES ASSUME NEW k \in 1..Len(u) - 1
                 PROVE  w[k] = Tail(s)[k]
      BY <1>2, <1>3
    <2>1. k \in 1..Len(v) /\ k \in 1..Len(Tail(s)) /\ k + 1 \in 1..Len(u)
      BY <1>1, <1>2, <1>5
    <2> QED
      BY <1>1, <1>2, <1>3, <1>5, <2>1
  <1>7. w = Tail(s)
    BY <1>1, <1>2, <1>3, <1>5, <1>6, SeqEqual
  <1> QED
    BY <1>1, <1>4, <1>7 DEF s, v, w

\* What comm_peek copies out is the payload of the oldest packet.
LEMMA PeekReturnsOldest ==
    ASSUME NEW Q, RingInv(Q), packet_count > 0, NEW n \in HeaderAt(ring_begin)
    PROVE  comm_get_data(Adv(ring_begin, HeaderLength), n)
             = [i \in 1..n |-> <<"data", unread[1].tag, i - 1>>]
  <1>1. /\ 1 \in 1..Len(unread) /\ ring_begin = unread[1].at /\ n = unread[1].size
    BY HeaderIsWritten
  <1>2. /\ n \in Sizes /\ ring_begin \in Index /\ Size(1) \in Nat
        /\ Off(1) \in Index /\ Used \in Index /\ Off(1) + Size(1) <= Used
    BY <1>1, PacketFacts
  <1>3. n \in Nat /\ FrameSize(n) = HeaderLength + n /\ FrameSize(n) < DataLength
    BY <1>1, <1>2, FrameSizePositive, CommRingAssumption DEF Size, Index
  <1> SUFFICES ASSUME NEW i \in 1..n
               PROVE  cells[Adv(Adv(ring_begin, HeaderLength), i - 1)]
                        = <<"data", unread[1].tag, i - 1>>
    BY DEF comm_get_data
  <1>4. /\ i - 1 \in Nat /\ HeaderLength + (i - 1) \in 0..FrameSize(n) - 1
        /\ HeaderLength + (i - 1) <= DataLength
        /\ (HeaderLength + (i - 1)) - HeaderLength = i - 1
        /\ ~(HeaderLength + (i - 1) < HeaderLength)
    BY <1>3, CommRingAssumption
  <1>5. Adv(Adv(ring_begin, HeaderLength), i - 1) = Adv(ring_begin, HeaderLength + (i - 1))
    BY <1>2, <1>4, AdvAdv, CommRingAssumption
  <1>6. cells[Adv(ring_begin, HeaderLength + (i - 1))]
          = FrameCell(unread[1].tag, n, HeaderLength + (i - 1))
    BY <1>1, <1>4 DEF RingInv, UnreadIntact
  <1> QED
    BY <1>4, <1>5, <1>6 DEF FrameCell

\* comm_put and comm_peek behave as the operations of a first-in first-out
\* channel, for every ring in which each packet fits.
THEOREM RingImplementsChannel ==
    ASSUME NEW CONSTANT Q, NeverFills(Q), ~ShortReadsMayWrap,
           \A n \in Sizes : FrameSize(n) <= DataLength
    PROVE  Spec => ImplementsChannel
  <1>1. Init => Abstract!Init
    BY DEF Init, Abstract!Init, Abstract!Nothing, Result, chanOf
  <1>2. RingInv(Q) /\ [Next]_vars => [Abstract!Next]_(Abstract!vars)
    <2> SUFFICES ASSUME RingInv(Q), [Next]_vars
                 PROVE  [Abstract!Next]_(Abstract!vars)
      OBVIOUS
    <2> USE DEF Result
    <2>1. unread \in Seq(Packet) /\ packet_count = Len(unread)
      BY DEF RingInv, TypeOK
    <2>2. ASSUME NEW t \in Tags, NEW n \in Sizes, Put(t, n)
          PROVE  Abstract!Next
      <3> DEFINE m == [tag |-> t, size |-> n]
                 p == [tag |-> t, size |-> n, at |-> ring_end]
      <3>1. p \in Packet /\ m \in Message
        BY DEF Packet, Message, RingInv, TypeOK
      <3>2. chanOf(unread') = Append(chanOf(unread), m)
        BY <2>1, <2>2, <3>1, ChanOfAppend DEF Put
      <3>3. Abstract!Send(m)
        BY <2>2, <3>2 DEF Put, Abstract!Send, Abstract!Accepted
      <3> QED
        BY <3>1, <3>3 DEF Abstract!Next
    <2>3. ASSUME NEW n \in Sizes, PutRefused(n)
          PROVE  Abstract!Next
      <3>1. unread # <<>>
        <4> SUFFICES ASSUME unread = <<>> PROVE FALSE
          OBVIOUS
        <4>1. ring_begin = ring_end /\ ring_begin \in Index
          BY DEF RingInv, TypeOK, BeginAtOldest
        <4>2. comm_remaining = DataLength
          BY <4>1, CommRingAssumption DEF comm_remaining, Index
        <4> QED
          BY <2>3, <4>2, FrameSizePositive, CommRingAssumption DEF PutRefused
      <3>2. Abstract!Refuse
        BY <2>1, <2>3, <3>1, ChanOfTail DEF PutRefused, Abstract!Refuse, Abstract!Refused
      <3> QED
        BY <3>2 DEF Abstract!Next
    <2>4. ASSUME PeekEmpty
          PROVE  Abstract!Next
      <3>1. unread = <<>>
        BY <2>1, <2>4, EmptySeq DEF PeekEmpty
      <3>2. Abstract!Poll
        BY <2>4, <3>1 DEF PeekEmpty, Abstract!Poll, Abstract!NoMessage, chanOf
      <3> QED
        BY <3>2 DEF Abstract!Next
    <2>5. ASSUME NEW buf \in BufSizes, Peek(buf)
          PROVE  Abstract!Next
      <3>1. /\ unread # <<>> /\ unread' = Tail(unread) /\ packet_count > 0
        BY <2>5, PeekMoves
      <3>2. PICK n \in HeaderAt(ring_begin) :
              out' = Result("got", n, comm_get_data(Adv(ring_begin, HeaderLength), n))
        BY <2>5 DEF Peek
      <3>3. n = unread[1].size
        BY <3>1, <3>2, HeaderIsWritten
      <3>4. /\ chanOf(unread) # <<>> /\ chanOf(unread') = Tail(chanOf(unread))
            /\ Head(chanOf(unread)).tag = unread[1].tag
            /\ Head(chanOf(unread)).size = n
        BY <2>1, <3>1, <3>3, ChanOfTail
      <3>5. out' = [op |-> "got", size |-> n,
                    data |-> [i \in 1..n |-> <<"data", unread[1].tag, i - 1>>]]
        BY <3>1, <3>2, PeekReturnsOldest
      <3>6. Abstract!Recv
        BY <3>4, <3>5 DEF Abstract!Recv, Abstract!Got, Abstract!Payload
      <3> QED
        BY <3>6 DEF Abstract!Next
    <2>6. ASSUME NEW buf \in BufSizes, PeekShort(buf)
          PROVE  Abstract!Next
      <3>1. /\ unread # <<>> /\ unread' = Tail(unread) /\ packet_count > 0
        BY <2>6, PeekMoves
      <3>2. PICK n \in HeaderAt(ring_begin) : out' = Result("short", n, <<>>)
        BY <2>6 DEF PeekShort
      <3>3. n = unread[1].size
        BY <3>1, <3>2, HeaderIsWritten
      <3>4. Abstract!Lose
        BY <2>1, <3>1, <3>2, <3>3, ChanOfTail DEF Abstract!Lose, Abstract!Short
      <3> QED
        BY <3>4 DEF Abstract!Next
    <2>7. CASE UNCHANGED vars
      BY <2>7 DEF vars, Abstract!vars
    <2> QED
      BY <2>2, <2>3, <2>4, <2>5, <2>6, <2>7 DEF Next
  <1> QED
    BY <1>1, <1>2, RingInvariance, PTL DEF Spec, ImplementsChannel, Abstract!Spec
============================================================================

------------------------------ MODULE CommRing ------------------------------
(***************************************************************************)
(* The COMM_SIMPLE channel of clib/comm.c: a ring of data_length bytes in  *)
(* a shared page, to which comm_put appends a 4-byte length and a payload  *)
(* and from which comm_peek takes them.  Every task has three: sin and     *)
(* sout to the scheduler and gin from the other tasks.                     *)
(*                                                                         *)
(* All tasks run on one processor with interrupts disabled and switch only *)
(* at their own "int" instructions, so a call is one step.                 *)
(*                                                                         *)
(* A cell stands for a byte.  It records which byte of which packet was    *)
(* last written to it: <<"len", n, j>> is byte j of the length field of a  *)
(* packet of n bytes, <<"data", t, j>> is byte j of the payload t.         *)
(***************************************************************************)
EXTENDS Integers, Sequences

CONSTANTS DataLength,         \* comm_t.data_length
          HeaderLength,       \* bytes of the length field: 4 in the code
          Sizes,              \* payload sizes that writers use
          BufSizes,           \* buffer sizes that readers offer
          Tags,               \* payloads, told apart by name
          ShortReadsMayWrap   \* may a packet too large for its reader's buffer
                              \* extend to the end of the ring?

ASSUME CommRingAssumption ==
    /\ DataLength \in Nat \ {0}
    /\ HeaderLength \in Nat \ {0}
    /\ Sizes \subseteq Nat
    /\ BufSizes \subseteq Nat
    /\ ShortReadsMayWrap \in BOOLEAN

VARIABLES ring_begin, ring_end, packet_count,
          cells,              \* the bytes of the ring
          unread,             \* history: the packets put and not yet taken,
                              \* each with the position it was written to
          out                 \* what the last call returned

vars == <<ring_begin, ring_end, packet_count, cells, unread, out>>

Index == 0..DataLength - 1

Cell == {<<"free">>}
        \cup ({"len"} \X Sizes \X (0..HeaderLength - 1))
        \cup ({"data"} \X Tags \X Nat)

Packet == [tag : Tags, size : Sizes, at : Index]

----------------------------------------------------------------------------
(* Positions on the ring. *)

\* Where a cursor is after moving n bytes: the code wraps on >=.
Adv(p, n) == IF p + n >= DataLength THEN p + n - DataLength ELSE p + n

\* How far q is in front of p.
Dist(p, q) == IF p <= q THEN q - p ELSE q + DataLength - p

FrameSize(n) == HeaderLength + n

\* The bytes comm_put writes for a packet, from offset 0.
FrameCell(t, n, i) ==
    IF i < HeaderLength THEN <<"len", n, i>> ELSE <<"data", t, i - HeaderLength>>

----------------------------------------------------------------------------
(* The functions of comm.c. *)

\* Mutants of comm_remaining: the wrapped ring taken for the unwrapped one, and
\* a strict comparison that finds no space in an empty ring.
RemainingUnwrapped ==
    IF ring_begin <= ring_end THEN DataLength - (ring_end - ring_begin)
                              ELSE DataLength - (ring_begin - ring_end)

RemainingStrict ==
    IF ring_begin < ring_end THEN DataLength - (ring_end - ring_begin)
                             ELSE ring_begin - ring_end

comm_remaining ==
    IF ring_begin <= ring_end THEN DataLength - (ring_end - ring_begin)
                              ELSE ring_begin - ring_end

\* The ring after comm_put_data has written a length and a payload.
comm_put_data(t, n) ==
    [q \in Index |-> IF Dist(ring_end, q) < FrameSize(n)
                     THEN FrameCell(t, n, Dist(ring_end, q))
                     ELSE cells[q]]

\* Mutant of comm_get_data: the part after the wrap starts one byte late.
GetLate(p, n) ==
    [i \in 1..n |-> cells[Adv(p, IF p + i > DataLength THEN i ELSE i - 1)]]

\* comm_get_data: the n bytes from position p.
comm_get_data(p, n) == [i \in 1..n |-> cells[Adv(p, i - 1)]]

\* The length that reading the header at p yields: the one that was written
\* there or, once the header has been overwritten, any number.  Numbers above
\* DataLength are left out.
HeaderAt(p) ==
    LET Intact(n) == \A i \in 0..HeaderLength - 1 :
                        cells[Adv(p, i)] = <<"len", n, i>>
    IN  IF \E n \in Sizes : Intact(n)
        THEN {n \in Sizes : Intact(n)}
        ELSE 0..DataLength

\* Mutants of comm_skip_data: the length is skipped again, the payload is not
\* skipped, or all of it but a byte.
SkipHeaderToo(p, n) ==
    IF p + n >= DataLength THEN n ELSE p + n + HeaderLength

SkipNothing(p, n) == p

SkipShort(p, n) == IF p + n >= DataLength THEN n ELSE p + n - 1

\* comm_skip_data does not subtract the bytes before the end of the ring.
comm_skip_data(p, n) == IF p + n >= DataLength THEN n ELSE p + n

Result(op, n, data) == [op |-> op, size |-> n, data |-> data]

Init ==
    /\ ring_begin = 0 /\ ring_end = 0 /\ packet_count = 0
    /\ cells = [q \in Index |-> <<"free">>]
    /\ unread = <<>>
    /\ out = Result("none", 0, <<>>)

\* comm_put, the packet fits.
Put(t, n) ==
    /\ comm_remaining >= FrameSize(n)
    /\ cells' = comm_put_data(t, n)
    /\ ring_end' = Adv(Adv(ring_end, HeaderLength), n)
    /\ packet_count' = packet_count + 1
    /\ unread' = Append(unread, [tag |-> t, size |-> n, at |-> ring_end])
    /\ out' = Result("put_ok", 0, <<>>)
    /\ UNCHANGED ring_begin

\* comm_put, it does not: the caller gets 1.
PutRefused(n) ==
    /\ comm_remaining < FrameSize(n)
    /\ out' = Result("put_full", 0, <<>>)
    /\ UNCHANGED <<ring_begin, ring_end, packet_count, cells, unread>>

\* comm_peek on a ring without packets.
PeekEmpty ==
    /\ packet_count = 0
    /\ out' = Result("empty", 0, <<>>)
    /\ UNCHANGED <<ring_begin, ring_end, packet_count, cells, unread>>

\* comm_peek when the packet fits the reader's buffer.
Peek(buf) ==
    /\ packet_count > 0
    /\ packet_count' = packet_count - 1
    /\ \E n \in HeaderAt(ring_begin) :
          LET body == Adv(ring_begin, HeaderLength)
          IN  /\ n <= buf
              /\ out' = Result("got", n, comm_get_data(body, n))
              /\ ring_begin' = Adv(body, n)
    /\ unread' = Tail(unread)
    /\ UNCHANGED <<ring_end, cells>>

\* comm_peek when it does not: the payload is skipped and its size returned.
PeekShort(buf) ==
    /\ packet_count > 0
    /\ packet_count' = packet_count - 1
    /\ \E n \in HeaderAt(ring_begin) :
          LET body == Adv(ring_begin, HeaderLength)
          IN  /\ n > buf
              /\ body + n >= DataLength => ShortReadsMayWrap
              /\ out' = Result("short", n, <<>>)
              /\ ring_begin' = comm_skip_data(body, n)
    /\ unread' = Tail(unread)
    /\ UNCHANGED <<ring_end, cells>>

Next ==
    \/ \E t \in Tags, n \in Sizes : Put(t, n)
    \/ \E n \in Sizes : PutRefused(n)
    \/ PeekEmpty
    \/ \E buf \in BufSizes : Peek(buf)
    \/ \E buf \in BufSizes : PeekShort(buf)

Spec == Init /\ [][Next]_vars

----------------------------------------------------------------------------
(* Properties. *)

\* Both cursors of comm_t stay inside the ring, whatever order the calls come
\* in: comm_put_data and comm_get_data index data_begin with them.
TypeOK ==
    /\ ring_begin \in Index /\ ring_end \in Index
    /\ packet_count \in Nat
    /\ cells \in [Index -> Cell]
    /\ unread \in Seq(Packet)

\* Every packet that comm_put accepted and comm_peek has not taken yet is whole:
\* none of its bytes was overwritten by a later comm_put.
UnreadIntact ==
    \A k \in 1..Len(unread) : \A i \in 0..FrameSize(unread[k].size) - 1 :
        cells[Adv(unread[k].at, i)] = FrameCell(unread[k].tag, unread[k].size, i)

\* ring_begin is where the oldest unread packet starts, so that comm_peek, which
\* has only the cursor, never reads a length from the middle of a packet.
BeginAtOldest ==
    IF unread = <<>> THEN ring_begin = ring_end ELSE ring_begin = Head(unread).at

\* The bytes that the first k unread packets occupy.
UnreadBytes[k \in 0..Len(unread)] ==
    IF k = 0 THEN 0 ELSE UnreadBytes[k - 1] + FrameSize(unread[k].size)

\* What comm_remaining computes from the two cursors is the space that the
\* unread packets leave, so a put is refused only if it really does not fit.
SpaceAccounting == comm_remaining = DataLength - UnreadBytes[Len(unread)]

\* comm_put never answers 0 and leaves the ring with ring_begin = ring_end,
\* which comm_remaining takes for an empty ring: "is there enough space left?"
\* (comm.c:82) must leave a full ring distinguishable from an empty one.
PutNeverFills == [][packet_count' > packet_count => ring_begin # ring_end']_vars

----------------------------------------------------------------------------
(* The ring implements the channel. *)

Message == [tag : Tags, size : Sizes]

chanOf(u) == [k \in 1..Len(u) |-> [tag |-> u[k].tag, size |-> u[k].size]]

Abstract == INSTANCE Channel WITH Messages <- Message, chan <- chanOf(unread)

\* The calls on the ring are those of a first-in first-out channel: each read
\* returns, from the bytes it finds at ring_begin, the oldest message sent.
ImplementsChannel == Abstract!Spec
============================================================================

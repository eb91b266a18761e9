------------------------------- MODULE Blocks --------------------------------
(***************************************************************************)
(* The arithmetic of reading and writing a block of the remote's memory:   *)
(* wiimote::read_data() with its reply handler, wiimote::write_data() with *)
(* its loop (wiimoteio/wiimote.cpp), and the addresses and sizes of the    *)
(* reports (wiimoteio/report.h), bit for bit.  What several requests do to *)
(* each other is the subject of Wiimote; here there is one.                *)
(*                                                                         *)
(* The remote is external: it decodes big-endian numbers and answers a     *)
(* read in pieces of 16 bytes.  A byte of memory stands for its address.   *)
(*                                                                         *)
(* A definition with a suffix after "_" is a mistaken form of the one that *)
(* follows it; no specification uses it, and a property fails with it.     *)
(***************************************************************************)
EXTENDS Naturals, Sequences

CONSTANTS
  Addresses,    \* of the blocks
  ReadLengths,
  WriteLengths

U8 == 256
U16 == 65536
U24 == 16777216

max_write == 16

\* Blocks that a request can name: they end within the three bytes of address, and
\* their length within the two bytes, that a report has room for.
Requested(lengths) ==
  {b \in [addr : Addresses, len : lengths] :
     b.addr \in Nat /\ b.len \in 1 .. U16 - 1 /\ b.addr + b.len <= U24}

\* The loop of write_data() comes out at the end of the data only for these.
CutEvenly(n) == n <= max_write \/ n % max_write = 0

VARIABLES
  op,       \* "read" or "write"
  block,    \* the block asked for, [addr, len]
  cursor,   \* address of the reply handler; _address of the loop
  left,     \* bytes_left of the reply handler; iterend - iter of the loop
  data,     \* bytes collected by the reply handler
  reports   \* replies on their way; write reports posted

blockVars == <<op, block, cursor, left, data, reports>>

Lesser(m, n) == IF m < n THEN m ELSE n

Memory(a, n) == [i \in 1 .. n |-> a + (i - 1)]

-----------------------------------------------------------------------------
(* report.h *)

\* set_address() of rpt::read_data and rpt::write_data
SetAddress(a) == <<(a \div U16) % U8, (a \div U8) % U8, a % U8>>

\* set_size() of rpt::read_data
SetReadSize(n) == <<(n \div U8) % U8, n % U8>>

GetAddress(r) == r.address[1] * U8 + r.address[2]

\* The field has four bits and holds one less than the size.
GetSize(r) == r.size + 1

-----------------------------------------------------------------------------
(* The remote. *)

Address(bytes) == bytes[1] * U16 + bytes[2] * U8 + bytes[3]
Size(bytes) == bytes[1] * U8 + bytes[2]

\* A reply: size bytes, with the low half of their address.
Reply(at, size) ==
  [size |-> size - 1, address |-> <<(at \div U8) % U8, at % U8>>, data |-> Memory(at, size)]

\* The replies to a read request: pieces of at most 16 bytes.
Replies(rq) ==
  LET a == Address(rq.address)
      n == Size(rq.size)
  IN  [k \in 1 .. (n + 15) \div 16 |->
         Reply(a + 16 * (k - 1), Lesser(16, n - 16 * (k - 1)))]

\* The addresses that a write report sets.
Written(r) == Address(r.address) .. Address(r.address) + r.size - 1

-----------------------------------------------------------------------------

ReadRequest(b) == [address |-> SetAddress(b.addr), size |-> SetReadSize(b.len)]

BlockInit ==
  \/ /\ op = "read"
     /\ block \in Requested(ReadLengths)
     /\ cursor = block.addr /\ left = block.len
     /\ data = <<>>
     /\ reports = Replies(ReadRequest(block))
  \/ /\ op = "write"
     /\ block \in {b \in Requested(WriteLengths) : CutEvenly(b.len)}
     /\ cursor = block.addr /\ left = block.len
     /\ data = <<>>
     /\ reports = <<>>

Matches_Whole(r) == GetAddress(r) = cursor

\* reply.get_address() == (address & 0xffff)
Matches(r) == GetAddress(r) = cursor % U16

\* read_reply_handler::handle_report() for a reply without error; the other one
\* is in Wiimote, HandleReadReply.
HandleReply ==
  /\ op = "read" /\ left # 0
  /\ reports # <<>>
  /\ LET r == Head(reports)
         amt == Lesser(left, GetSize(r))
     IN  IF Matches(r)
         THEN /\ data' = data \o SubSeq(r.data, 1, amt)
              /\ cursor' = cursor + amt
              /\ left' = left - amt
         ELSE UNCHANGED <<data, cursor, left>>
  /\ reports' = Tail(reports)
  /\ UNCHANGED <<op, block>>

WritePiece_AddressKept ==
  /\ op = "write" /\ left # 0
  /\ LET size == Lesser(block.len, max_write)
         at == block.len - left
     IN  /\ reports' = Append(reports, [address |-> SetAddress(cursor), size |-> size,
                                        data |-> SubSeq(Memory(block.addr, block.len), at + 1, at + size)])
         /\ left' = left - size
  /\ UNCHANGED <<op, block, cursor, data>>

\* One turn of the loop of write_data(): the size is that of the whole data, or
\* a report's.
WritePiece ==
  /\ op = "write" /\ left # 0
  /\ LET size == Lesser(block.len, max_write)
         at == block.len - left
     IN  /\ reports' = Append(reports, [address |-> SetAddress(cursor), size |-> size,
                                        data |-> SubSeq(Memory(block.addr, block.len), at + 1, at + size)])
         /\ cursor' = cursor + size
         /\ left' = left - size
  /\ UNCHANGED <<op, block, data>>

AckCount_Truncated(n) == n \div max_write

\* (_data.size() + 0xf) / max_write
AckCount(n) == (n + 15) \div max_write

Done == left = 0 /\ UNCHANGED blockVars

BlockNext == HandleReply \/ WritePiece \/ Done

BlockSpec == BlockInit /\ [][BlockNext]_blockVars

-----------------------------------------------------------------------------

\* What has been done and what is left make up the block, and every number fits
\* the field or variable that holds it.
FieldsFit ==
  /\ cursor - block.addr = block.len - left
  /\ left \in 0 .. U16 - 1 /\ cursor \in 0 .. U24
  /\ op = "read" => Len(data) = block.len - left
  /\ \A i \in DOMAIN reports :
       /\ \A k \in DOMAIN reports[i].address : reports[i].address[k] \in 0 .. U8 - 1
       /\ reports[i].size \in 0 .. 16

\* The reply handler recognises each piece of its block, also where the address
\* runs over a multiple of 0x10000, and ends with the bytes that were asked for
\* and no reply left over.
ReadCollects ==
  op = "read" =>
    /\ left = 0 <=> reports = <<>>
    /\ left = 0 => data = Memory(block.addr, block.len)

\* The write reports put every byte of the data where it belongs, none of them
\* twice and nothing else, and there are as many of them as acknowledgements are
\* awaited.
WriteCovers ==
  op = "write" /\ left = 0 =>
    /\ Len(reports) = AckCount(block.len)
    /\ \A i \in DOMAIN reports :
         /\ reports[i].size <= 16
         /\ reports[i].data = Memory(Address(reports[i].address), reports[i].size)
    /\ UNION {Written(reports[i]) : i \in DOMAIN reports}
         = block.addr .. block.addr + block.len - 1
    /\ \A i, j \in DOMAIN reports :
         i # j => Written(reports[i]) \cap Written(reports[j]) = {}

=============================================================================

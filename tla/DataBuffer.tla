----------------------------- MODULE DataBuffer -----------------------------
(***************************************************************************)
(* DataBuffer (utils/data_buffer.hpp): the growing byte buffer every part  *)
(* of the program keeps its data in, with room in front for headers.  mem  *)
(* is the allocation, buffer_size_ what the code takes for its size;       *)
(* start_ and end_ are offsets.  burst is TRUE once a write has left the   *)
(* allocation.                                                             *)
(***************************************************************************)
EXTENDS Integers, Sequences

CONSTANTS
  PRE_RESERVE_HEADER_SIZE,   \* 200
  EXTRA_LEN,                 \* 10 * 1024
  Sizes,                     \* the steps of GetNewSize: 50, 100, 200, 500 * 1024
  SizeMod                    \* size_t: 2^64

PRE == PRE_RESERVE_HEADER_SIZE
Junk == 0

NewBuffer(data_size) ==
  [mem |-> [i \in 1..data_size + PRE |-> Junk], buffer_size_ |-> data_size,
   start_ |-> PRE, end_ |-> PRE, data_len_ |-> 0, burst |-> FALSE]

(* Cells beyond the allocation hold anything.                              *)
Data(b) == [i \in 1..b.data_len_ |->
              IF b.start_ + i <= Len(b.mem) THEN b.mem[b.start_ + i] ELSE Junk]

(* memcpy to an offset, as far as the allocation reaches.                  *)
Put(b, at, data) ==
  [b EXCEPT !.mem = [i \in DOMAIN @ |-> IF i - at \in 1..Len(data) THEN data[i - at] ELSE @[i]],
            !.burst = @ \/ at + Len(data) > Len(b.mem)]

(* GetNewSize: the next step, or a little more than asked for.             *)
GetNewSize(n) ==
  LET fits == {i \in DOMAIN Sizes : n <= Sizes[i]}
  IN  IF fits = {} THEN n + EXTRA_LEN ELSE Sizes[CHOOSE i \in fits : \A j \in fits : i <= j]

(* A new allocation, without extra room in front.                          *)
Grow(b, data) ==
  LET new_len == GetNewSize(b.data_len_ + Len(data) + EXTRA_LEN)
      fresh == [b EXCEPT !.mem = [i \in 1..new_len |-> Junk], !.buffer_size_ = new_len]
  IN  [Put(fresh, PRE, Data(b) \o data) EXCEPT
         !.data_len_ = @ + Len(data), !.start_ = PRE,
         !.end_ = PRE + b.data_len_ + Len(data)]

(* The data moves back to the front: through a copy when there is at least *)
(* start_ of it, else by one memcpy, which is undefined when it goes over  *)
(* its own source.                                                         *)
Distance(b) == IF b.start_ > PRE THEN b.start_ - PRE ELSE PRE - b.start_

(* Mutant of OverItself: a copy too few.                                   *)
OverItselfAlways(b) == Distance(b) \in 1..b.data_len_ - 1

OverItself(b) == b.data_len_ < b.start_ /\ Distance(b) \in 1..b.data_len_ - 1

(* What a memcpy from the wrong end leaves: the same bytes repeated.       *)
Smeared(b) ==
  LET d == Data(b)
  IN  [i \in DOMAIN d |-> IF b.start_ > PRE THEN d[Len(d) - ((Len(d) - i) % Distance(b))]
                          ELSE d[((i - 1) % Distance(b)) + 1]]

Moves(b) == IF OverItself(b) THEN {Data(b), Smeared(b)} ELSE {Data(b)}

Shift(b, data) ==
  {[Put(b, PRE, moved \o data) EXCEPT
      !.data_len_ = @ + Len(data), !.start_ = PRE, !.end_ = PRE + b.data_len_ + Len(data)] :
     moved \in Moves(b)}

Room(b) == (b.buffer_size_ - PRE) % SizeMod
Fits(b, data) == b.end_ + Len(data) <= Room(b)
Grows(b, data) == b.data_len_ + Len(data) >= Room(b)

(* Mutant of AppendData: growing only when the data has no room at all.    *)
AppendDataLate(b, data) ==
  IF data = <<>> THEN {b}
  ELSE IF b.end_ + Len(data) <= b.buffer_size_ + PRE
  THEN {[Put(b, b.end_, data) EXCEPT !.data_len_ = @ + Len(data), !.end_ = @ + Len(data)]}
  ELSE Shift(b, data)

(* buffer_size_ - PRE_RESERVE_HEADER_SIZE is unsigned: below that size the *)
(* room is without end.  The buffers an append may leave.                  *)
AppendData(b, data) ==
  IF data = <<>> THEN {b}
  ELSE IF Fits(b, data)
  THEN {[Put(b, b.end_, data) EXCEPT !.data_len_ = @ + Len(data), !.end_ = @ + Len(data)]}
  ELSE IF Grows(b, data) THEN {Grow(b, data)} ELSE Shift(b, data)

(* A negative length opens the room in front; nothing is done when there   *)
(* is not enough.                                                          *)
ConsumeData(b, n) ==
  IF n > b.data_len_ \/ b.start_ + n < 0 THEN b
  ELSE [b EXCEPT !.start_ = @ + n, !.data_len_ = @ - n]

Reset(b) == [b EXCEPT !.start_ = PRE, !.end_ = PRE, !.data_len_ = 0]
=============================================================================

----------------------------- MODULE TcpBuffer -----------------------------
(***************************************************************************)
(* MutableSizeTcpBuffer: a string with two offsets.  memory is all of the  *)
(* string's capacity, what is beyond the end included.  An element of it   *)
(* is whatever the users of the buffer tell apart.                         *)
(*                                                                         *)
(* Compaction calls memcpy(), whose ranges overlap when more is readable   *)
(* than has been read.  Then the order in which it copies decides: in      *)
(* ascending order the data is moved as intended (Compact), in descending  *)
(* order it is destroyed (CompactDescending).  The standard leaves it      *)
(* open; the memcpy() of glibc for x86-64 is its memmove().                *)
(***************************************************************************)
EXTENDS Naturals, FiniteSetsExt, SequencesExt

CONSTANTS InitialCapacity,  \* that of an empty string (15 in libstdc++)
          Blank             \* memory that nobody has written

VARIABLES memory, read_offset, write_offset,
          garbled   \* history: memcpy() has destroyed what it was to copy

bufferVars == <<memory, read_offset, write_offset, garbled>>

BufferInit ==
    /\ memory = [i \in 1 .. InitialCapacity |-> Blank]
    /\ read_offset = 0
    /\ write_offset = 0
    /\ garbled = FALSE

capacity == Len(memory)

\* get_readable_size() and what it counts
readable_size == write_offset - read_offset
Readable == SubSeq(memory, read_offset + 1, write_offset)

\* The buffer with data written at an offset
Overwrite(buffer, offset, data) ==
    [i \in DOMAIN buffer |->
        IF i - offset \in DOMAIN data THEN data[i - offset] ELSE buffer[i]]

\* append(), with the cases of _make_space(): extend at the end,
Extend(data) ==
    /\ Len(data) <= capacity - write_offset
    /\ memory' = Overwrite(memory, write_offset, data)
    /\ write_offset' = write_offset + Len(data)
    /\ UNCHANGED <<read_offset, garbled>>

\* Mutant: the offset to read from is not moved with the data.
CompactKeepsOffset(data) ==
    /\ Len(data) > capacity - write_offset
    /\ Len(data) <= capacity - write_offset + read_offset
    /\ memory' = Overwrite(Overwrite(memory, 0, Readable), readable_size, data)
    /\ write_offset' = readable_size + Len(data)
    /\ UNCHANGED <<read_offset, garbled>>

\* move what is readable to the front first,
Compact(data) ==
    /\ Len(data) > capacity - write_offset
    /\ Len(data) <= capacity - write_offset + read_offset
    /\ memory' = Overwrite(Overwrite(memory, 0, Readable), readable_size, data)
    /\ write_offset' = readable_size + Len(data)
    /\ read_offset' = 0
    /\ UNCHANGED garbled

\* The memory after copying what is readable to the front from its end: the
\* distance is read_offset, and an element copied has been overwritten if it
\* was itself in the range to be written.
CopiedFromTheEnd ==
    [i \in DOMAIN memory |->
        IF i <= readable_size
        THEN memory[Max({j \in i .. write_offset : (j - i) % read_offset = 0})]
        ELSE memory[i]]

\* the same with a memcpy() that begins at the end,
CompactDescending(data) ==
    /\ Len(data) > capacity - write_offset
    /\ Len(data) <= capacity - write_offset + read_offset
    /\ readable_size > read_offset
    /\ memory' = Overwrite(CopiedFromTheEnd, readable_size, data)
    /\ write_offset' = readable_size + Len(data)
    /\ read_offset' = 0
    /\ garbled' = TRUE

\* or reallocate, without compaction, to at least twice the capacity.
Reallocate(data) ==
    /\ Len(data) > capacity - write_offset + read_offset
    /\ LET grown == Max({2 * capacity, write_offset + Len(data)})
           copy == SubSeq(memory, 1, write_offset)
                     \o [i \in 1 .. grown - write_offset |-> Blank]
       IN  memory' = Overwrite(copy, write_offset, data)
    /\ write_offset' = write_offset + Len(data)
    /\ UNCHANGED <<read_offset, garbled>>

AppendData(data) ==
    \/ Extend(data)
    \/ Compact(data)
    \/ CompactDescending(data)
    \/ Reallocate(data)

\* forward_read_position()
ForwardReadPosition(size) ==
    /\ read_offset' = Min({read_offset + size, write_offset})
    /\ UNCHANGED <<memory, write_offset, garbled>>

\* Mutant: the last element is not looked at.
NewlinesBeforeLast(cr, lf) ==
    {i \in read_offset + 1 .. write_offset - 2 :
        memory[i] = cr /\ memory[i + 1] = lf}

\* Where get_next_crlf_position() finds a line's end; it takes the first.
LineEnds(cr, lf) ==
    {i \in read_offset + 1 .. write_offset - 1 :
        memory[i] = cr /\ memory[i + 1] = lf}
=============================================================================

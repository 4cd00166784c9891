--------------------------- MODULE CircularBuffer ---------------------------
(***************************************************************************)
(* aesd-circular-buffer.c: the array of the last messages, its two offsets *)
(* and the static flag of aesd_circular_buffer_add_entry.  Callers hold    *)
(* the device's mutex, so each function is one step.                       *)
(*                                                                         *)
(* An entry is the address of its memory and the bytes stored there; its   *)
(* size is their number.  The field "full" of the struct is never used.    *)
(***************************************************************************)
EXTENDS Integers, Sequences, SequencesExt, FiniteSets, FiniteSetsExt

CONSTANTS
    AESDCHAR_MAX_WRITE_OPERATIONS_SUPPORTED,   \* entries of the array
    SizeModulus                                \* size_t counts modulo this

MAX == AESDCHAR_MAX_WRITE_OPERATIONS_SUPPORTED

ASSUME RingAssumption == MAX \in Nat \ {0} /\ SizeModulus \in Nat \ {0}

VARIABLES entry, in_offs, out_offs, hasBufferBeenFilled

buffer == <<entry, in_offs, out_offs, hasBufferBeenFilled>>

Offsets == 0 .. MAX - 1

NULL       == 0                              \* of pointers
EmptyEntry == [buffptr |-> NULL, bytes |-> <<>>]
NotFound   == [slot |-> -1, offset |-> 0]    \* a null entry pointer

(* aesd_circular_buffer_init in a driver that was just loaded: the static   *)
(* flag is 0 as well.                                                       *)
aesd_circular_buffer_init ==
    /\ entry' = [i \in Offsets |-> EmptyEntry]
    /\ in_offs' = 0 /\ out_offs' = 0
    /\ hasBufferBeenFilled' = FALSE

(* Mutant: the offset is not wrapped.                                       *)
NextOffsUnwrapped(i) == i + 1

NextOffs(i) == IF i + 1 = MAX THEN 0 ELSE i + 1

-----------------------------------------------------------------------------
(* Mutants: the caller gets no address, or that of the entry behind.        *)
OverwrittenNone == NULL
OverwrittenNext == entry[NextOffs(in_offs)].buffptr

(* aesd_circular_buffer_add_entry: its result is the address of what it     *)
(* overwrites.                                                              *)
Overwritten == entry[in_offs].buffptr

(* Mutant: the oldest offset is moved when the array becomes full, one      *)
(* write too early.                                                         *)
AddEntryEarlyMove(e) ==
    /\ entry' = [entry EXCEPT ![in_offs] = e]
    /\ in_offs' = NextOffs(in_offs)
    /\ hasBufferBeenFilled' = (hasBufferBeenFilled \/ in_offs' = 0)
    /\ out_offs' = IF hasBufferBeenFilled' /\ out_offs = in_offs' THEN NextOffs(out_offs)
                   ELSE out_offs

aesd_circular_buffer_add_entry(e) ==
    /\ entry' = [entry EXCEPT ![in_offs] = e]
    /\ out_offs' = IF hasBufferBeenFilled /\ out_offs = in_offs THEN NextOffs(out_offs)
                   ELSE out_offs
    /\ in_offs' = NextOffs(in_offs)
    /\ hasBufferBeenFilled' = (hasBufferBeenFilled \/ in_offs' = 0)

-----------------------------------------------------------------------------
(* The entry i places behind the oldest, and the bytes before it.           *)
Slot(i) == (out_offs + i) % MAX
Size(i) == Len(entry[Slot(i)].bytes)
numCharsInBuffer[k \in 0 .. MAX] ==
    IF k = 0 THEN 0 ELSE numCharsInBuffer[k - 1] + Size(k - 1)
BytesBefore(n) == numCharsInBuffer[n]

(* Mutant: the scan stops at an entry that ends exactly at the position.    *)
FindOffByOne(char_offset) ==
    LET reached == {i \in Offsets : BytesBefore(i + 1) >= char_offset}
        n       == IF reached = {} THEN MAX ELSE Min(reached)
        chars   == BytesBefore(IF n = MAX THEN n ELSE n + 1)
        prev    == BytesBefore(IF n = MAX THEN n - 1 ELSE n)
    IN  IF (chars - 1) % SizeModulus < char_offset THEN NotFound
        ELSE [slot |-> Slot(n), offset |-> char_offset - prev]

(* aesd_circular_buffer_find_entry_offset_for_fpos.  n is entriesProcessed  *)
(* when the loop ends; an int minus one is compared with a size_t, so that  *)
(* with no byte in the buffer every position is found, in an empty entry.   *)
aesd_circular_buffer_find_entry_offset_for_fpos(char_offset) ==
    LET reached == {i \in Offsets : BytesBefore(i + 1) > char_offset}
        n       == IF reached = {} THEN MAX ELSE Min(reached)
        chars   == BytesBefore(IF n = MAX THEN n ELSE n + 1)
        prev    == BytesBefore(IF n = MAX THEN n - 1 ELSE n)
    IN  IF (chars - 1) % SizeModulus < char_offset THEN NotFound
        ELSE [slot |-> Slot(n), offset |-> char_offset - prev]

-----------------------------------------------------------------------------
(* The list the array stands for: the messages kept, oldest first.          *)
Kept == IF hasBufferBeenFilled THEN MAX ELSE in_offs
Log  == [i \in 1 .. Kept |-> entry[Slot(i - 1)].bytes]

(* The bytes a reader sees.                                                 *)
Text == FlattenSeq(Log)
=============================================================================

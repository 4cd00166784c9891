------------------------------ MODULE AesdChar ------------------------------
(***************************************************************************)
(* main.c: the character driver that keeps the last messages written to    *)
(* it.  A message ends with a newline and may be written in pieces; the    *)
(* unfinished message belongs to the device, not to the file it is written *)
(* through.                                                                *)
(*                                                                         *)
(* Each file operation does its work under deviceMutex and is one action.  *)
(* What it does to the position of its file is not under the mutex: read   *)
(* and write get a copy of the position, which the kernel stores when they *)
(* return, without a lock for a character device.  Calls that share a      *)
(* struct file may undo each other's moves; StorePosition allows for that. *)
(* numUsers is counted by open and read by nobody; it is left out, and so  *)
(* are the debug prints.                                                   *)
(***************************************************************************)
EXTENDS CircularBuffer

CONSTANTS
    Files,        \* the struct file a user may open
    Bytes,        \* what users write, Newline among them
    Newline,
    Pieces,       \* the buffers users pass to write
    Counts,       \* the sizes users pass to read
    Shared,       \* the files through which several threads make calls at once
    Seeks,        \* the struct aesd_seekto that users fill in
    UserStruct,   \* UserStruct[p]: the struct that lies at the user's address p
    INT_MAX,
    HeapBlocks,   \* how many blocks kmalloc can give out
    TEMP_BUFFER_STARTING_SIZE,
    Faults,       \* the kernel calls that may fail
    MaxPos,       \* bound: a file position is at most this
    MaxMessage,   \* bound: a message has at most this many bytes
    MaxLost       \* bound: unloading leaves at most this many blocks behind

ASSUME DriverAssumption ==
    /\ Newline \in Bytes /\ Pieces \subseteq Seq(Bytes) /\ Counts \subseteq Nat \ {0}
    /\ Shared \subseteq Files
    /\ HeapBlocks \in Nat /\ TEMP_BUFFER_STARTING_SIZE \in Nat \ {0}
    /\ MaxPos \in Nat /\ MaxMessage \in Nat /\ MaxLost \in Nat
    /\ Faults \subseteq {"kmalloc", "krealloc", "copy_from_user", "copy_to_user", "cdev_add"}

(* A full array fits into memory, whose size a size_t can count, and has no *)
(* more bytes than an int can count: kmalloc gives a few megabytes at most. *)
ASSUME MemoryAssumption == MAX * MaxMessage < SizeModulus /\ MAX * MaxMessage <= INT_MAX

(* The argument of ioctl is an unsigned long, which the driver takes for    *)
(* the two uint32_t of a struct aesd_seekto.  An address is written here by *)
(* its two halves as well.                                                  *)
UintModulus == 2 * (INT_MAX + 1)
aesd_seekto == [write_cmd : 0 .. UintModulus - 1, write_cmd_offset : 0 .. UintModulus - 1]

ASSUME SeekAssumption ==
    /\ INT_MAX \in Nat
    /\ Seeks \subseteq aesd_seekto
    /\ DOMAIN UserStruct \subseteq aesd_seekto
    /\ \A p \in DOMAIN UserStruct : UserStruct[p] \in aesd_seekto

VARIABLES
    loaded,          \* the module is in the kernel
    onGoingWrite,    \* a message is unfinished
    tempBuffer,      \* where its bytes are
    tempBytes,       \* the first tempBufferIndex bytes of that memory
    tempBufferSize,  \* how much memory it is
    f_pos,           \* f_pos[f]: the position of an open file, Closed otherwise
    live,            \* the blocks given out by kmalloc and not freed
    ret              \* the last call and what it returned

temp == <<onGoingWrite, tempBuffer, tempBytes, tempBufferSize>>
vars == <<buffer, loaded, temp, f_pos, live, ret>>

(* A seek stores an int, which may be negative.                             *)
Positions == {p \in Int : p >= -INT_MAX - 1}
Closed    == -INT_MAX - 2
Blocks    == 1 .. HeapBlocks
Codes     == {"ok", "ENOMEM", "EFAULT", "EINVAL", "negative"}
Calls     == {"read", "write", "ioctl", "other"}

(* from is the address a read copied from.                                  *)
Done(call, code) ==
    [call |-> call, code |-> code, pos |-> 0, bytes |-> <<>>, from |-> NULL]

TypeOK ==
    /\ entry \in [Offsets -> [buffptr : Blocks \cup {NULL}, bytes : Seq(Bytes)]]
    /\ in_offs \in Offsets /\ out_offs \in Offsets /\ hasBufferBeenFilled \in BOOLEAN
    /\ loaded \in BOOLEAN /\ onGoingWrite \in BOOLEAN
    /\ tempBuffer \in Blocks \cup {NULL}
    /\ tempBytes \in Seq(Bytes) /\ tempBufferSize \in Nat
    /\ f_pos \in [Files -> Positions \cup {Closed}]
    /\ live \subseteq Blocks
    /\ ret \in [call : Calls, code : Codes, pos : Nat, bytes : Seq(Bytes),
                from : Blocks \cup {NULL}]

Init ==
    /\ entry = [i \in Offsets |-> EmptyEntry]
    /\ in_offs = 0 /\ out_offs = 0 /\ hasBufferBeenFilled = FALSE
    /\ loaded = FALSE
    /\ onGoingWrite = FALSE /\ tempBuffer = NULL /\ tempBytes = <<>> /\ tempBufferSize = 0
    /\ f_pos = [f \in Files |-> Closed]
    /\ live = {}
    /\ ret = Done("other", "ok")

Open(f) == loaded /\ f_pos[f] # Closed

(* The kernel hands a read or a write on only at such a position.           *)
Passes(f) == Open(f) /\ f_pos[f] >= 0

-----------------------------------------------------------------------------
(* Loading and unloading.  The kernel unloads a module only when no file of *)
(* it is open.                                                              *)

aesd_init_module ==
    /\ ~loaded
    /\ aesd_circular_buffer_init
    /\ onGoingWrite' = FALSE /\ tempBuffer' = NULL /\ tempBytes' = <<>> /\ tempBufferSize' = 0
    /\ \/ loaded' = TRUE /\ ret' = Done("other", "ok")
       \/ "cdev_add" \in Faults /\ loaded' = FALSE /\ ret' = Done("other", "EINVAL")
    /\ UNCHANGED <<f_pos, live>>

EntryBlocks == {entry[i].buffptr : i \in Offsets} \ {NULL}

(* The memory of an unfinished message is not freed.                        *)
aesd_cleanup_module ==
    /\ loaded
    /\ \A f \in Files : f_pos[f] = Closed
    /\ live' = live \ EntryBlocks
    /\ Cardinality(live') <= MaxLost
    /\ entry' = [i \in Offsets |-> [entry[i] EXCEPT !.buffptr = NULL]]
    /\ loaded' = FALSE
    /\ ret' = Done("other", "ok")
    /\ UNCHANGED <<in_offs, out_offs, hasBufferBeenFilled, temp, f_pos>>

aesd_open(f) ==
    /\ loaded /\ f_pos[f] = Closed
    /\ f_pos' = [f_pos EXCEPT ![f] = 0]
    /\ ret' = Done("other", "ok")
    /\ UNCHANGED <<buffer, loaded, temp, live>>

aesd_release(f) ==
    /\ Open(f)
    /\ f_pos' = [f_pos EXCEPT ![f] = Closed]
    /\ ret' = Done("other", "ok")
    /\ UNCHANGED <<buffer, loaded, temp, live>>

(* rw_verify_area, in the kernel: read and write at a negative position are *)
(* refused before the driver sees them.                                     *)
rw_verify_area(f) ==
    /\ Open(f) /\ ~Passes(f)
    /\ ret' = Done("other", "EINVAL")
    /\ UNCHANGED <<buffer, loaded, temp, f_pos, live>>

(* A call that shares the file returns, and the kernel stores the position  *)
(* the call has computed from its older copy.  It may be any.               *)
StorePosition(f) ==
    /\ f \in Shared /\ Open(f)
    /\ \E pos \in 0 .. MaxPos : f_pos' = [f_pos EXCEPT ![f] = pos]
    /\ UNCHANGED <<buffer, loaded, temp, live, ret>>

-----------------------------------------------------------------------------
(* read: at most the rest of one entry.  bytesLeftInEntry is a size_t; for  *)
(* a position in an empty entry it wraps, and the copy starts at an address *)
(* near NULL, where copy_to_user fails.                                     *)

bytesToCopy(hit, count) ==
    Min({(Len(entry[hit.slot].bytes) - hit.offset) % SizeModulus, count})

aesd_read(f) ==
    LET hit == aesd_circular_buffer_find_entry_offset_for_fpos(f_pos[f])
        src == entry[hit.slot]
    IN  /\ Passes(f)
        /\ \/ /\ hit = NotFound
              /\ ret' = [Done("read", "ok") EXCEPT !.pos = f_pos[f]]
              /\ UNCHANGED f_pos
           \/ \E count \in Counts :
                  LET n == bytesToCopy(hit, count)
                  IN  /\ hit # NotFound
                      /\ src.buffptr # NULL \/ n = 0
                      /\ ret' = [Done("read", "ok") EXCEPT
                                    !.pos = f_pos[f], !.from = src.buffptr,
                                    !.bytes = SubSeq(src.bytes, hit.offset + 1, hit.offset + n)]
                      /\ f_pos' = [f_pos EXCEPT ![f] = @ + n]
           \/ /\ hit # NotFound
              /\ \/ src.buffptr # NULL /\ "copy_to_user" \in Faults
                 \/ src.buffptr = NULL /\ hit.offset > 0
              /\ ret' = [Done("read", "EFAULT") EXCEPT !.pos = f_pos[f], !.from = src.buffptr]
              /\ UNCHANGED f_pos
        /\ UNCHANGED <<buffer, loaded, temp, live>>

-----------------------------------------------------------------------------
(* write                                                                    *)

(* kmalloc gives some free block.  Which one does not matter.               *)
kmalloc == Min(Blocks \ live)

(* newBufferSize: doubled until the piece fits.                             *)
Grown(size, needed) ==
    LET newBufferSize[k \in 0 .. needed] == IF k = 0 THEN size ELSE newBufferSize[k - 1] * 2
    IN  newBufferSize[Min({k \in 0 .. needed : newBufferSize[k] >= needed})]

(* The memory of the message at the start of the call and its size, and the *)
(* bytes already there.                                                     *)
Started == onGoingWrite
BlockNow == IF Started THEN tempBuffer ELSE kmalloc
BytesNow == IF Started THEN tempBytes ELSE <<>>
SizeNow  == IF Started THEN tempBufferSize ELSE TEMP_BUFFER_STARTING_SIZE
LiveNow  == IF Started THEN live ELSE live \cup {kmalloc}

HasBlock == Started \/ Blocks \ live # {}

(* Mutant: the bytes already there are not counted.                         *)
NewSizePieceOnly(piece) ==
    IF SizeNow < Len(piece) THEN Grown(SizeNow, Len(piece)) ELSE SizeNow

NewSize(piece) ==
    IF SizeNow < Len(BytesNow) + Len(piece) THEN Grown(SizeNow, Len(BytesNow) + Len(piece))
    ELSE SizeNow

(* Inputs: an open file and a piece within the bounds.                      *)
CanWrite(f, piece) ==
    /\ Passes(f)
    /\ f_pos[f] + Len(piece) <= MaxPos
    /\ Len(BytesNow \o piece) <= MaxMessage

EndsMessage(s) == s # <<>> /\ s[Len(s)] = Newline

(* No memory for a new message.                                             *)
WriteNoStart(f) ==
    \E piece \in Pieces :
        /\ CanWrite(f, piece)
        /\ ~Started
        /\ "kmalloc" \in Faults \/ ~HasBlock
        /\ tempBuffer' = NULL
        /\ ret' = Done("write", "ENOMEM")
        /\ UNCHANGED <<buffer, loaded, onGoingWrite, tempBytes, tempBufferSize, f_pos, live>>

(* The memory cannot grow: the whole unfinished message is given up.        *)
WriteNoGrowth(f) ==
    \E piece \in Pieces :
        /\ CanWrite(f, piece) /\ HasBlock
        /\ NewSize(piece) # SizeNow
        /\ "krealloc" \in Faults
        /\ live' = LiveNow \ {BlockNow}
        /\ onGoingWrite' = FALSE /\ tempBuffer' = NULL /\ tempBytes' = <<>>
        /\ tempBufferSize' = SizeNow
        /\ ret' = Done("write", "ENOMEM")
        /\ UNCHANGED <<buffer, loaded, f_pos>>

(* The piece cannot be read from the user: given up as well.                *)
WriteNoCopy(f) ==
    \E piece \in Pieces :
        /\ CanWrite(f, piece) /\ HasBlock
        /\ piece # <<>> /\ "copy_from_user" \in Faults
        /\ live' = LiveNow \ {BlockNow}
        /\ onGoingWrite' = FALSE /\ tempBuffer' = NULL /\ tempBytes' = <<>>
        /\ tempBufferSize' = 0
        /\ ret' = Done("write", "EFAULT")
        /\ UNCHANGED <<buffer, loaded, f_pos>>

(* The message goes on.                                                     *)
WritePiece(f) ==
    \E piece \in Pieces :
        /\ CanWrite(f, piece) /\ HasBlock
        /\ ~EndsMessage(BytesNow \o piece)
        /\ live' = LiveNow
        /\ onGoingWrite' = TRUE /\ tempBuffer' = BlockNow
        /\ tempBytes' = BytesNow \o piece
        /\ tempBufferSize' = NewSize(piece)
        /\ ret' = Done("write", "ok")
        /\ f_pos' = [f_pos EXCEPT ![f] = @ + Len(piece)]
        /\ UNCHANGED <<buffer, loaded>>

(* The message is complete and there is no memory for its entry: given up.  *)
(* tempBuffer keeps the address of freed memory.                            *)
WriteNoEntry(f) ==
    \E piece \in Pieces :
        /\ CanWrite(f, piece) /\ HasBlock
        /\ EndsMessage(BytesNow \o piece)
        /\ "kmalloc" \in Faults \/ Blocks \ LiveNow = {}
        /\ live' = LiveNow \ {BlockNow}
        /\ onGoingWrite' = FALSE /\ tempBuffer' = BlockNow
        /\ tempBytes' = BytesNow \o piece
        /\ tempBufferSize' = NewSize(piece)
        /\ ret' = Done("write", "ENOMEM")
        /\ UNCHANGED <<buffer, loaded, f_pos>>

(* The message is complete: it is copied into memory of its own and added,  *)
(* and what it overwrote is freed.                                          *)
WriteMessage(f) ==
    \E piece \in Pieces :
        LET block == Min(Blocks \ LiveNow)
        IN  /\ CanWrite(f, piece) /\ HasBlock
            /\ EndsMessage(BytesNow \o piece)
            /\ Blocks \ LiveNow # {}
            /\ aesd_circular_buffer_add_entry([buffptr |-> block, bytes |-> BytesNow \o piece])
            /\ live' = (LiveNow \cup {block}) \ {Overwritten, BlockNow}
            /\ onGoingWrite' = FALSE /\ tempBuffer' = NULL /\ tempBytes' = <<>>
            /\ tempBufferSize' = 0
            /\ ret' = Done("write", "ok")
            /\ f_pos' = [f_pos EXCEPT ![f] = @ + Len(piece)]
            /\ UNCHANGED loaded

aesd_write(f) ==
    \/ WriteNoStart(f) \/ WriteNoGrowth(f) \/ WriteNoCopy(f)
    \/ WritePiece(f) \/ WriteNoEntry(f) \/ WriteMessage(f)

-----------------------------------------------------------------------------
(* llseek: of any whence, two of the three tests hold, and the call fails.  *)
(* The code behind the tests is never reached.                              *)
aesd_llseek(f) ==
    \E whence \in {"SEEK_SET", "SEEK_CUR", "SEEK_END"} :
        /\ Open(f)
        /\ whence # "SEEK_SET" \/ whence # "SEEK_CUR" \/ whence # "SEEK_END"
        /\ ret' = Done("other", "EINVAL")
        /\ UNCHANGED <<buffer, loaded, temp, f_pos, live>>

(* What storing n in an int leaves of it.                                   *)
ToInt(n) ==
    LET m == n % UintModulus
    IN  IF m > INT_MAX THEN m - UintModulus ELSE m

(* Mutant: the sizes are added up from the start of the array.              *)
SeekFromStart(write_cmd, write_cmd_offset) ==
    ToInt(MapThenSumSet(LAMBDA i : Len(entry[i].bytes), 0 .. write_cmd - 1) + write_cmd_offset)

(* fileoffset, the position AESDCHAR_IOCSEEKTO computes.                    *)
SeekPosition(write_cmd, write_cmd_offset) == ToInt(BytesBefore(write_cmd) + write_cmd_offset)

(* ioctl: the argument itself, not what it points to, is taken for the      *)
(* struct.  Whether the command was written and the offset lies in it is    *)
(* not checked.  The new position is returned, a negative one too.          *)
aesd_unlockedioctl(f, arg) ==
    /\ Open(f)
    /\ \/ /\ arg.write_cmd >= MAX
          /\ ret' = Done("ioctl", "EINVAL")
          /\ UNCHANGED f_pos
       \/ /\ arg.write_cmd < MAX
          /\ f_pos' = [f_pos EXCEPT ![f] = SeekPosition(arg.write_cmd, arg.write_cmd_offset)]
          /\ f_pos'[f] <= MaxPos
          /\ ret' = Done("ioctl", IF f_pos'[f] < 0 THEN "negative" ELSE "ok")
    /\ UNCHANGED <<buffer, loaded, temp, live>>

-----------------------------------------------------------------------------
Next ==
    \/ aesd_init_module
    \/ aesd_cleanup_module
    \/ \E f \in Files :
          \/ aesd_open(f) \/ aesd_release(f)
          \/ rw_verify_area(f) \/ StorePosition(f)
          \/ aesd_read(f) \/ aesd_write(f) \/ aesd_llseek(f)
          \/ \E arg \in Seeks \cup DOMAIN UserStruct : aesd_unlockedioctl(f, arg)

Spec == Init /\ [][Next]_vars

-----------------------------------------------------------------------------
(* Properties                                                               *)

Messages == INSTANCE MessageLog WITH
    Keep <- MAX,
    loaded <- loaded,
    log <- IF loaded THEN Log ELSE <<>>,
    partial <- IF loaded /\ onGoingWrite THEN tempBytes ELSE <<>>,
    answer <- IF ret.call = "write" THEN ret.code ELSE "ok"

(* The driver keeps the newest MAX messages whole and in order, through     *)
(* every wrap-around of the array, whoever writes the pieces; accepted      *)
(* bytes are lost only with the whole message and a write that fails.       *)
KeepsNewest == Messages!Spec

(* Memory the driver will use or free is allocated, and no two of its       *)
(* pointers share a block.                                                  *)
Owned == EntryBlocks \cup (IF onGoingWrite THEN {tempBuffer} ELSE {})
BuffersLive ==
    loaded =>
        /\ Owned \subseteq live
        /\ \A i, j \in Offsets : i # j => \/ entry[i].buffptr # entry[j].buffptr
                                          \/ entry[i].buffptr = NULL
        /\ onGoingWrite => tempBuffer \notin EntryBlocks

(* No call loses memory for good; only unloading the module with a message  *)
(* unfinished does.                                                         *)
OnlyUnloadLeaks == [][loaded /\ loaded' => (live \ Owned)' \subseteq live \ Owned]_vars

(* The bytes of the unfinished message fit the memory they are copied to.   *)
PieceFits == loaded /\ onGoingWrite => Len(tempBytes) <= tempBufferSize

(* A read returns the bytes that follow the file's position when all        *)
(* messages are put end to end, and reports the end only at the end.        *)
ReadsTheText ==
    ret.call = "read" /\ ret.code = "ok" =>
        /\ ret.bytes = SubSeq(Text, ret.pos + 1, ret.pos + Len(ret.bytes))
        /\ ret.bytes = <<>> => ret.pos >= Len(Text)

(* seek names a byte of a message that is kept; where that byte is.         *)
NamesByte(seek) == seek.write_cmd < Kept /\ seek.write_cmd_offset < Len(Log[seek.write_cmd + 1])
ByteNamed(seek) == [slot |-> Slot(seek.write_cmd), offset |-> seek.write_cmd_offset]

(* What a call of AESDCHAR_IOCSEEKTO with argument arg has to do for a user *)
(* who asks for that byte: it succeeds and the next read begins there.      *)
SeeksTo(f, arg, seek) ==
    aesd_unlockedioctl(f, arg) /\ NamesByte(seek) =>
        /\ ret'.code = "ok"
        /\ aesd_circular_buffer_find_entry_offset_for_fpos(f_pos'[f]) = ByteNamed(seek)

(* A caller that passes the struct itself, in place of its address, gets    *)
(* the seek it asks for, at every wrap-around of the array.                 *)
SeekHitsByte == [][\A f \in Files : \A seek \in Seeks : SeeksTo(f, seek, seek)]_vars

(* aesd_ioctl.h describes "a structure to be passed by IOCTL from user      *)
(* space to kernel space", which is passed by its address: a caller that    *)
(* does so gets the seek it asks for.                                       *)
SeekAsDocumented ==
    [][\A f \in Files : \A p \in DOMAIN UserStruct : SeeksTo(f, p, UserStruct[p])]_vars

(* aesd-circular-buffer.c promises NULL for a position that was not         *)
(* written; a read then copies nothing.  No read copies from memory that no *)
(* entry owns.                                                              *)
NoStrayRead == ret.call = "read" /\ ret.code = "EFAULT" => ret.from # NULL
=============================================================================

----------------------------- MODULE IpcStream -----------------------------
(***************************************************************************)
(* The frame inspector of Arrow IPC streams, inspect_stream_reader in      *)
(* crates/arrowlint-core/src/ipc.rs.                                       *)
(*                                                                         *)
(* The inspector opens a file, notes its size once, and walks it frame by  *)
(* frame: a continuation marker and a length (or, in legacy framing, the   *)
(* length alone), that many bytes of FlatBuffer metadata, and the body the *)
(* metadata announces.  It never backs up and it decodes no body, so the   *)
(* bytes of the file are chosen here when they are read: `frames' is the   *)
(* content the walk has met, and every file content is some choice.  That  *)
(* also covers a process that overwrites bytes the walk has not reached;   *)
(* one that truncates the file is the action Shrink, after which reads of  *)
(* the missing bytes fail.                                                 *)
(***************************************************************************)
EXTENDS Integers, Sequences

CONSTANTS
    FileSizes,        \* sizes the opened file may have, in bytes
    MetadataLengths,  \* values a metadata-length field may hold (u32)
    BodyLengths,      \* values a message's bodyLength may hold (i64)
    MaxMetadata       \* MAX_MESSAGE_METADATA_BYTES

ASSUME SizesAssumption   == FileSizes \subseteq Nat
ASSUME LengthsAssumption == MetadataLengths \subseteq Nat
ASSUME BodiesAssumption  == BodyLengths \subseteq Int
ASSUME LimitAssumption   == MaxMetadata \in Nat

VARIABLES
    size,                 \* file_size, read once after the open
    disk,                 \* bytes the file has now
    offset,               \* where the next frame starts
    frames,               \* the frames met so far, the one that ended the walk included
    schema_count,
    message_count,
    uses_legacy_framing,
    has_eos,
    errors,               \* set of [kind, message]: at most one of a kind per message
    pc                    \* "walk", "count" (after the loop), "done" or "failed" (Err returned)

inspector == <<offset, frames, schema_count, message_count,
               uses_legacy_framing, has_eos, errors, pc>>
vars == <<size, disk, inspector>>

-----------------------------------------------------------------------------
DataHeaders == {"DictionaryBatch", "RecordBatch"}

\* What root_as_message makes of the metadata bytes: a header type, or no message at all.
Headers == {"Schema", "Other", "Unparsable"} \cup DataHeaders

ErrorKinds == {"prefix truncated", "length truncated", "bytes after EOS",
               "metadata too long", "metadata length unaligned", "frame unaligned",
               "metadata truncated", "invalid metadata", "negative body",
               "body unaligned", "late schema", "schema with body",
               "data before schema", "unsupported header", "body truncated",
               "no schema", "several schemas"}

\* The frame found at an offset: framing, length field, and the parsed message.
Frame == [start: Nat, marker: BOOLEAN, length: MetadataLengths,
          header: Headers, body: BodyLengths]

FramesAt(o) == [start: {o}, marker: BOOLEAN, length: MetadataLengths,
                header: Headers, body: BodyLengths]

\* Ends of the prefix, of the framing, of the metadata and of the body.
PrefixEnd(o)   == o + 4
MetadataAt(f)  == PrefixEnd(f.start) + (IF f.marker THEN 4 ELSE 0)
MetadataEnd(f) == MetadataAt(f) + f.length
BodyEnd(f)     == MetadataEnd(f) + f.body

Tagged(kinds) == {[kind |-> k, message |-> message_count] : k \in kinds}

If(condition, kind) == IF condition THEN {kind} ELSE {}

\* Mutant: the length check also forgets streams that met legacy framing.
StickyFramingErrors(f) ==
    IF uses_legacy_framing \/ ~f.marker THEN {}
    ELSE If(f.length % 8 # 0, "metadata length unaligned")
           \cup If(f.start % 8 # 0, "frame unaligned")

\* The alignment checks, made before the metadata is known to fit the file.
\* The flag is sticky: once one frame was legacy, no later frame is checked.
FramingErrors(f) ==
    If(f.marker /\ f.length % 8 # 0, "metadata length unaligned")
      \cup If(f.marker /\ ~uses_legacy_framing /\ f.start % 8 # 0, "frame unaligned")

\* The checks on a parsed message, made before its body is known to fit.
MessageErrors(f) ==
    If(f.body % 8 # 0, "body unaligned")
      \cup If(f.header = "Schema" /\ message_count # 0, "late schema")
      \cup If(f.header = "Schema" /\ f.body # 0, "schema with body")
      \cup If(f.header \in DataHeaders /\ schema_count = 0, "data before schema")
      \cup If(f.header = "Other", "unsupported header")

-----------------------------------------------------------------------------
TypeOK ==
    /\ size \in Nat
    /\ disk \in Nat
    /\ offset \in Nat
    /\ frames \in Seq(Frame)
    /\ schema_count \in Nat
    /\ message_count \in Nat
    /\ uses_legacy_framing \in BOOLEAN
    /\ has_eos \in BOOLEAN
    /\ errors \subseteq [kind: ErrorKinds, message: Nat]
    /\ pc \in {"walk", "count", "done", "failed"}

Init ==
    /\ size \in FileSizes
    /\ disk = size
    /\ offset = 0
    /\ frames = <<>>
    /\ schema_count = 0
    /\ message_count = 0
    /\ uses_legacy_framing = FALSE
    /\ has_eos = FALSE
    /\ errors = {}
    /\ pc = "walk"

\* Another process truncates the file after it was opened.
Shrink ==
    /\ pc = "walk"
    /\ disk = size
    /\ disk' \in {d \in FileSizes : d < size}
    /\ UNCHANGED <<size, inspector>>

-----------------------------------------------------------------------------
(* One iteration of the loop, by the way it ends.                          *)

Walking == pc = "walk" /\ offset < size

Break(kinds) ==
    /\ errors' = errors \cup Tagged(kinds)
    /\ pc' = "count"
    /\ UNCHANGED <<size, disk, offset, message_count>>

\* Mutant: the flag follows the last frame.
MeetLast(f) ==
    /\ frames' = Append(frames, f)
    /\ uses_legacy_framing' = ~f.marker

\* Reading a frame's prefix decides its framing, and legacy framing is remembered.
Meet(f) ==
    /\ frames' = Append(frames, f)
    /\ uses_legacy_framing' = (uses_legacy_framing \/ ~f.marker)

\* Mutant: the error is noted and the loop goes on at the same offset.
PrefixTruncatedContinues ==
    /\ Walking
    /\ PrefixEnd(offset) > size
    /\ errors' = errors \cup Tagged({"prefix truncated"})
    /\ UNCHANGED <<size, disk, offset, frames, schema_count, message_count,
                   uses_legacy_framing, has_eos, pc>>

PrefixTruncated ==
    /\ Walking
    /\ PrefixEnd(offset) > size
    /\ Break({"prefix truncated"})
    /\ UNCHANGED <<frames, schema_count, uses_legacy_framing, has_eos>>

\* The parts of the frame the inspector goes on to look at.
PrefixFits(f)   == PrefixEnd(f.start) <= size

\* Mutant: the length after a continuation marker is read unchecked.
LengthUnchecked(f) == PrefixFits(f)

LengthFits(f)   == PrefixFits(f) /\ MetadataAt(f) <= size
IsMessage(f)    == LengthFits(f) /\ f.length # 0 /\ f.length <= MaxMetadata
MetadataFits(f) == IsMessage(f) /\ MetadataEnd(f) <= size
Parses(f)       == MetadataFits(f) /\ f.header # "Unparsable"

\* Mutant: a negative body length is taken for an offset.
BodySigned(f)   == Parses(f)

BodyGiven(f)    == Parses(f) /\ f.body >= 0

\* Every byte the iteration reads is still there.
Readable(f) ==
    /\ PrefixEnd(f.start) <= disk
    /\ LengthFits(f) => MetadataAt(f) <= disk
    /\ MetadataFits(f) => MetadataEnd(f) <= disk

LengthTruncated(f) ==
    /\ PrefixFits(f) /\ ~LengthFits(f)
    /\ Break({"length truncated"})
    /\ UNCHANGED <<schema_count, has_eos>>

EndOfStream(f) ==
    /\ LengthFits(f) /\ f.length = 0
    /\ has_eos' = TRUE
    /\ Break(If(MetadataAt(f) # size, "bytes after EOS"))
    /\ UNCHANGED schema_count

MetadataTooLong(f) ==
    /\ LengthFits(f) /\ f.length > MaxMetadata
    /\ Break({"metadata too long"})
    /\ UNCHANGED <<schema_count, has_eos>>

MetadataTruncated(f) ==
    /\ IsMessage(f) /\ ~MetadataFits(f)
    /\ Break(FramingErrors(f) \cup {"metadata truncated"})
    /\ UNCHANGED <<schema_count, has_eos>>

InvalidMetadata(f) ==
    /\ MetadataFits(f) /\ ~Parses(f)
    /\ Break(FramingErrors(f) \cup {"invalid metadata"})
    /\ UNCHANGED <<schema_count, has_eos>>

NegativeBody(f) ==
    /\ Parses(f) /\ f.body < 0
    /\ Break(FramingErrors(f) \cup {"negative body"})
    /\ UNCHANGED <<schema_count, has_eos>>

CountSchema(f) ==
    schema_count' = IF f.header = "Schema" THEN schema_count + 1 ELSE schema_count

BodyTruncated(f) ==
    /\ BodyGiven(f) /\ BodyEnd(f) > size
    /\ CountSchema(f)
    /\ Break(FramingErrors(f) \cup MessageErrors(f) \cup {"body truncated"})
    /\ UNCHANGED has_eos

ReadMessage(f) ==
    /\ BodyGiven(f) /\ BodyEnd(f) <= size
    /\ CountSchema(f)
    /\ errors' = errors \cup Tagged(FramingErrors(f) \cup MessageErrors(f))
    /\ offset' = BodyEnd(f)
    /\ message_count' = message_count + 1
    /\ UNCHANGED <<size, disk, has_eos, pc>>

Inspect(f) ==
    /\ Walking
    /\ Readable(f)
    /\ Meet(f)
    /\ \/ LengthTruncated(f)
       \/ EndOfStream(f)
       \/ MetadataTooLong(f)
       \/ MetadataTruncated(f)
       \/ InvalidMetadata(f)
       \/ NegativeBody(f)
       \/ BodyTruncated(f)
       \/ ReadMessage(f)

\* read_exact meets the end of a file that has shrunk: inspect_stream returns Err,
\* and what it had found is dropped.
ReadFails(f) ==
    /\ Walking
    /\ PrefixFits(f)
    /\ ~Readable(f)
    /\ pc' = "failed"
    /\ UNCHANGED <<size, disk, offset, frames, schema_count, message_count,
                   uses_legacy_framing, has_eos, errors>>

\* After the loop: the number of schemas is judged.
CountSchemas ==
    /\ pc = "count" \/ (pc = "walk" /\ offset >= size)
    /\ errors' = errors \cup Tagged(If(schema_count = 0, "no schema")
                                     \cup If(schema_count > 1, "several schemas"))
    /\ pc' = "done"
    /\ UNCHANGED <<size, disk, offset, frames, schema_count, message_count,
                   uses_legacy_framing, has_eos>>

Step ==
    \/ PrefixTruncated
    \/ \E f \in FramesAt(offset) : Inspect(f) \/ ReadFails(f)
    \/ CountSchemas

Next == Step \/ Shrink

\* The inspector is a loop of one thread: it goes on as long as it can.
Spec == Init /\ [][Next]_vars /\ WF_vars(Step)

-----------------------------------------------------------------------------
(* What the verdict means: a declarative reading of the stream.            *)

Contiguous ==
    \A i \in DOMAIN frames :
        frames[i].start = IF i = 1 THEN 0 ELSE BodyEnd(frames[i - 1])

\* Message i of a valid stream.  Start alignment is only required while no
\* frame up to this one is legacy.
ValidMessage(i) ==
    LET f == frames[i] IN
    /\ f.length # 0 /\ f.length <= MaxMetadata
    /\ f.marker => f.length % 8 = 0
    /\ (\A j \in 1..i : frames[j].marker) => f.start % 8 = 0
    /\ f.body >= 0 /\ f.body % 8 = 0
    /\ IF i = 1 THEN f.header = "Schema" /\ f.body = 0 ELSE f.header \in DataHeaders
    /\ BodyEnd(f) <= size

\* The messages fill the file, or are followed by one EOS marker that ends it.
ValidStream ==
    LET n == Len(frames) IN
    \/ /\ n > 0
       /\ \A i \in 1..n : ValidMessage(i)
       /\ BodyEnd(frames[n]) = size
    \/ /\ n > 1
       /\ \A i \in 1..(n - 1) : ValidMessage(i)
       /\ frames[n].length = 0
       /\ MetadataAt(frames[n]) = size

\* rules.md, AL016: the inspector reports an error exactly when the stream is not a
\* leading schema message and data messages that tile the file, with aligned framing,
\* in-range metadata and bodies, and nothing after an EOS marker.
Verdict == pc = "done" => Contiguous /\ (errors = {} <=> ValidStream)

\* Every read was bounded by the size seen at the open: inspecting a file that nobody
\* truncates cannot fail, so a broken stream is reported and never aborts the lint run.
FailureNeedsShrink == pc = "failed" => disk < size

\* AL017 rests on this flag: it is raised by a frame without a continuation marker,
\* and stays raised.
LegacyFlag == pc = "done" => (uses_legacy_framing <=> \E i \in DOMAIN frames : ~frames[i].marker)

\* Whatever the bytes say, the walk ends: no frame leads back to an earlier offset.
Termination == <>(pc \in {"done", "failed"})

=============================================================================

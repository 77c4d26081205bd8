-------------------------- MODULE VortexContainer --------------------------
(***************************************************************************)
(* Linting one Vortex file, crates/arrowlint-core/src/vortex.rs: the       *)
(* bounded reads of inspect_reader and the rules AL301 to AL307.           *)
(*                                                                         *)
(* A Vortex file starts with a magic and ends with a postscript and eight  *)
(* bytes that locate it; the postscript locates the footer.  The inspector *)
(* notes the size once and then reads the magic, the last eight bytes, the *)
(* postscript and the footer, each where the read before it said.  What a  *)
(* read finds is chosen when it happens, so that every file is covered and *)
(* one that is overwritten meanwhile, too; a local file may also be        *)
(* truncated meanwhile.  A remote file is inspected in memory.             *)
(***************************************************************************)
EXTENDS Integers, FiniteSets, Sequences

CONSTANTS
    FileSizes,          \* sizes a file may have
    PostscriptLengths,  \* values of the postscript-length field (u16)
    Postscripts,        \* what the postscript may parse to
    Footers,            \* what the footer may parse to
    KeyBytes,           \* length of each key of user metadata
    MaxPostscript,      \* MAX_POSTSCRIPT_SIZE
    MaxFooter,          \* MAX_FOOTER_INSPECTION_BYTES
    MaxEntries,         \* MAX_METADATA_SEGMENTS
    MaxKeyBytes,        \* MAX_METADATA_KEY_BYTES
    MaxSchemes,         \* compression schemes a footer may list
    WordBits,           \* bits of the words that offsets are computed in
    Missing             \* an optional part that is not there

Word == 2 ^ WordBits

Keys == DOMAIN KeyBytes

\* A locator in the postscript; a scheme that is not given is Missing.
Segment == [offset: 0..(Word - 1), length: Nat, alignment: Nat,
            scheme: Nat \cup {Missing}, encrypted: BOOLEAN]
Optional(S) == S \cup {Missing}

Postscript == [dtype: Optional(Segment), layout: Optional(Segment),
               statistics: Optional(Segment), footer: Optional(Segment),
               metadata: Seq([key: Optional(Keys), segment: Optional(Segment)])]

Footer == [segments: Optional(Seq([offset: 0..(Word - 1), length: Nat, alignment: Nat])),
           arrays: Seq(Optional(STRING)), layouts: Seq(Optional(STRING)),
           schemes: Seq(Nat)]

ASSUME WordAssumption   == WordBits \in Nat
\* A fact of arithmetic: the provers know no law of ^.
ASSUME PowersAssumption == \A k \in 0..WordBits : 2 ^ k > 0
ASSUME SizesAssumption  == FileSizes \subseteq 0..(Word - 1)
ASSUME LengthAssumption == PostscriptLengths \subseteq Nat
ASSUME KeysAssumption   == KeyBytes \in [Keys -> Nat]
ASSUME LimitsAssumption == /\ MaxPostscript \in Nat /\ MaxFooter \in Nat /\ MaxEntries \in Nat
                           /\ MaxKeyBytes \in Nat /\ MaxSchemes \in Nat
ASSUME ParsedAssumption == Postscripts \subseteq Postscript /\ Footers \subseteq Footer
ASSUME MissingAssumption ==
    /\ Missing \notin Segment /\ Missing \notin Postscripts /\ Missing \notin Footers
    /\ Missing \notin Nat

VARIABLES
    size,              \* file_size, noted at the open
    disk,              \* bytes the file has now
    pc,                \* the next read "head", "eof", "postscript" or "footer", then
                       \* "rules" and "linted"; or "failed": Err is returned
    head,              \* the leading magic is right
    eof,               \* the last eight bytes, or Missing before they are read
    errors,            \* metadata.errors
    postscript_start,
    postscript,        \* as parsed, or Missing
    footer,            \* as parsed, or Missing
    footer_error,      \* the footer does not parse
    footer_skipped,    \* the footer is beyond the inspection limit
    reads,             \* history: the reads asked for
    diagnostics

metadata == <<head, eof, errors, postscript_start, postscript, footer, footer_error,
              footer_skipped>>
vars == <<size, disk, pc, metadata, reads, diagnostics>>

EofSize == 8
Version == 1
Eof == [magic: BOOLEAN, version: 0..Version, length: PostscriptLengths]

If(condition, error) == IF condition THEN {error} ELSE {}

-----------------------------------------------------------------------------
(* The inspector.                                                          *)

Init ==
    /\ size \in FileSizes
    /\ disk = size
    /\ pc = "head"
    /\ head = FALSE
    /\ eof = Missing
    /\ errors = {}
    /\ postscript_start = Missing
    /\ postscript = Missing
    /\ footer = Missing
    /\ footer_error = FALSE
    /\ footer_skipped = FALSE
    /\ reads = {}
    /\ diagnostics = {}

\* Another process truncates a local file.
Shrink ==
    /\ pc \notin {"rules", "linted", "failed"}
    /\ \E n \in FileSizes : n < disk /\ disk' = n
    /\ UNCHANGED <<size, pc, metadata, reads, diagnostics>>

Readable(r) == r.length = 0 \/ r.offset + r.length <= disk

\* read_range: the buffer is allocated whether or not the bytes are there.
Read(offset, length) ==
    LET r == [offset |-> offset, length |-> length]
    IN Readable(r) /\ reads' = reads \cup {r}

TooSmall ==
    /\ pc = "head" /\ size < 12
    /\ errors' = {"too small"}
    /\ pc' = "rules"
    /\ UNCHANGED <<size, disk, head, eof, postscript_start, postscript, footer, footer_error,
                   footer_skipped, reads, diagnostics>>

ReadHead ==
    /\ pc = "head" /\ size >= 12
    /\ Read(0, 4)
    /\ head' \in BOOLEAN
    /\ errors' = If(~head', "leading magic")
    /\ pc' = "eof"
    /\ UNCHANGED <<size, disk, eof, postscript_start, postscript, footer, footer_error,
                   footer_skipped, diagnostics>>

\* Mutant: the subtraction is not checked.
StartUnchecked(e) == size - EofSize - e.length

\* Where the postscript starts, or Missing if that is before the file.
Start(e) ==
    IF size - EofSize >= e.length THEN size - EofSize - e.length ELSE Missing

\* A postscript that is too long is an error, and is read all the same.
EofErrors(e) ==
    If(~e.magic, "trailing magic")
      \cup If(e.version # Version, "unsupported version")
      \cup If(e.length > MaxPostscript, "postscript too long")
      \cup If(Start(e) = Missing, "postscript before the file")
      \cup If(Start(e) # Missing /\ Start(e) < 4, "postscript overlaps the magic")

ReadEof ==
    /\ pc = "eof"
    /\ Read(size - EofSize, EofSize)
    /\ eof' \in Eof
    /\ errors' = errors \cup EofErrors(eof')
    /\ postscript_start' = Start(eof')
    /\ pc' = IF postscript_start' = Missing \/ postscript_start' < 4 THEN "rules" ELSE "postscript"
    /\ UNCHANGED <<size, disk, head, postscript, footer, footer_error, footer_skipped, diagnostics>>

\* Mutant: the end of the footer wraps around.
RangeWraps(s) == (s.offset + s.length) % Word <= size

\* segment_range_is_readable, with checked_add.
RangeIsReadable(s) ==
    s.offset + s.length < Word /\ s.offset + s.length <= size

Opaque(s) == s.scheme # Missing \/ s.encrypted

\* Mutant: what is compressed is read like anything else.
InspectableUnlessEncrypted(s) == s # Missing /\ ~s.encrypted /\ RangeIsReadable(s)

Inspectable(s) == s # Missing /\ ~Opaque(s) /\ RangeIsReadable(s)

ReadPostscript ==
    /\ pc = "postscript"
    /\ Read(postscript_start, eof.length)
    /\ \/ /\ postscript' \in IF eof.length = 0 THEN {} ELSE Postscripts
          /\ LET s == postscript'.footer IN
               /\ footer_skipped' = (Inspectable(s) /\ s.length > MaxFooter)
               /\ pc' = IF Inspectable(s) /\ s.length <= MaxFooter THEN "footer" ELSE "rules"
          /\ UNCHANGED errors
       \/ /\ errors' = errors \cup {"invalid postscript"}
          /\ pc' = "rules"
          /\ UNCHANGED <<postscript, footer_skipped>>
    /\ UNCHANGED <<size, disk, head, eof, postscript_start, footer, footer_error, diagnostics>>

ReadFooter ==
    /\ pc = "footer"
    /\ Read(postscript.footer.offset, postscript.footer.length)
    /\ \/ footer' \in (IF postscript.footer.length = 0 THEN {} ELSE Footers) /\ UNCHANGED footer_error
       \/ footer_error' = TRUE /\ UNCHANGED footer
    /\ pc' = "rules"
    /\ UNCHANGED <<size, disk, head, eof, errors, postscript_start, postscript, footer_skipped,
                   diagnostics>>

\* The read that comes next.
NextRead ==
    CASE pc = "head"       -> [offset |-> 0, length |-> 4]
      [] pc = "eof"        -> [offset |-> size - EofSize, length |-> EofSize]
      [] pc = "postscript" -> [offset |-> postscript_start, length |-> eof.length]
      [] pc = "footer"     -> [offset |-> postscript.footer.offset,
                               length |-> postscript.footer.length]

ReadFails ==
    /\ pc \in {"head", "eof", "postscript", "footer"}
    /\ pc = "head" => size >= 12
    /\ ~Readable(NextRead)
    /\ reads' = reads \cup {NextRead}
    /\ pc' = "failed"
    /\ UNCHANGED <<size, disk, metadata, diagnostics>>

-----------------------------------------------------------------------------
(* The rules.                                                              *)

Report(rule, severity, whats, about) ==
    {[rule |-> rule, severity |-> severity, what |-> w, about |-> about] : w \in whats}

Error(rule, whats, about) == Report(rule, "error", whats, about)
Errors(rule, issues) == UNION {Error(rule, issues[i], i) : i \in DOMAIN issues}
Info(rule, whats) == Report(rule, "info", whats, 0)

\* Mutant: the end of a segment wraps around.
SegmentIssuesWrapping(s, boundary) ==
    If(s.offset < 4, "starts in the magic")
      \cup If((s.offset + s.length) % Word > boundary, "exceeds the boundary")
      \cup If(s.alignment >= WordBits, "exponent too large")
      \cup If(s.alignment < WordBits /\ s.offset % 2 ^ s.alignment # 0, "unaligned")

\* segment_issues, with checked_add; 2^alignment must fit a word.
SegmentIssues(s, boundary) ==
    If(s.offset < 4, "starts in the magic")
      \cup If(s.offset + s.length >= Word \/ s.offset + s.length > boundary, "exceeds the boundary")
      \cup If(s.alignment >= WordBits, "exponent too large")
      \cup If(s.alignment < WordBits /\ s.offset % 2 ^ s.alignment # 0, "unaligned")

Parts == {"dtype", "layout", "statistics", "footer"}
PresentParts == {p \in Parts : postscript[p] # Missing}

InvalidContainer == Error("AL301", errors, 0)

InvalidPostscriptSegments ==
    Errors("AL302", [p \in {"layout", "footer"} |-> If(postscript[p] = Missing, "missing")])
      \cup Errors("AL302", [p \in PresentParts |-> SegmentIssues(postscript[p], postscript_start)])

\* The complaint about a key, if any: the arms of the match, in order.
KeyIssue(entries, i) ==
    LET key == entries[i].key IN
    IF key = Missing THEN {"key missing"}
    ELSE IF KeyBytes[key] = 0 THEN {"key empty"}
    ELSE IF KeyBytes[key] > MaxKeyBytes THEN {"key too long"}
    ELSE If(\E j \in 1..(i - 1) : entries[j].key = key, "key duplicated")

EntrySegmentIssues(s) ==
    IF s = Missing THEN {"segment missing"} ELSE SegmentIssues(s, size)

InvalidUserMetadata ==
    LET entries == postscript.metadata IN
    Error("AL303", If(Len(entries) > MaxEntries, "too many entries"), 0)
      \cup Errors("AL303", [i \in DOMAIN entries |->
                              KeyIssue(entries, i) \cup EntrySegmentIssues(entries[i].segment)])

\* The offset before is smaller or equal, for all but the first.
Unordered(specs, i) == i > 1 /\ specs[i].offset < specs[i - 1].offset

FooterSegmentIssues(specs) ==
    IF specs = Missing THEN Error("AL304", {"registry missing"}, 0)
    ELSE Errors("AL304", [i \in DOMAIN specs |->
                            If(Unordered(specs, i), "unordered") \cup SegmentIssues(specs[i], size)])

InvalidFooterSegments ==
    Error("AL304", If(footer_error, "invalid footer"), 0)
      \cup Info("AL304", If(footer_skipped, "footer skipped"))
      \cup (IF footer = Missing THEN {} ELSE FooterSegmentIssues(footer.segments))

IdentifierIssue(ids, i) ==
    IF ids[i] = Missing THEN {"id missing"}
    ELSE IF ids[i] = "" THEN {"id empty"}
    ELSE If(\E j \in 1..(i - 1) : ids[j] = ids[i], "id duplicated")

InvalidRegistries ==
    Errors("AL305", [i \in DOMAIN footer.arrays |-> IdentifierIssue(footer.arrays, i)])
      \cup Errors("AL305", [i \in DOMAIN footer.layouts |-> IdentifierIssue(footer.layouts, i)])

SchemeIssue(scheme) == If(scheme # Missing /\ scheme > 3, "unknown scheme")

PartSchemes == Errors("AL306", [p \in PresentParts |-> SchemeIssue(postscript[p].scheme)])

\* The compression registry of a footer.
RegistrySchemes(schemes) ==
    Error("AL306", If(Len(schemes) > MaxSchemes, "too many schemes"), 0)
      \cup Errors("AL306", [i \in DOMAIN schemes |-> SchemeIssue(schemes[i])])

\* Mutant: an opaque footer is passed over in silence.
SilentCompression ==
    PartSchemes \cup (IF footer = Missing THEN {} ELSE RegistrySchemes(footer.schemes))

IncompatibleCompression ==
    PartSchemes
      \cup Info("AL306", If(postscript.footer # Missing /\ footer = Missing /\ Opaque(postscript.footer),
                            "footer opaque"))
      \cup (IF footer = Missing THEN {} ELSE RegistrySchemes(footer.schemes))

MissingOptimizationMetadata ==
    Info("AL307", If(postscript.dtype = Missing, "no dtype")
                    \cup If(postscript.statistics = Missing, "no statistics"))

PostscriptRules ==
    InvalidPostscriptSegments \cup InvalidUserMetadata \cup IncompatibleCompression
      \cup MissingOptimizationMetadata

CheckRules ==
    /\ pc = "rules"
    /\ diagnostics' =
         InvalidContainer \cup InvalidFooterSegments
           \cup (IF postscript = Missing THEN {} ELSE PostscriptRules)
           \cup (IF footer = Missing THEN {} ELSE InvalidRegistries)
    /\ pc' = "linted"
    /\ UNCHANGED <<size, disk, metadata, reads>>

Next ==
    \/ TooSmall
    \/ ReadHead
    \/ ReadEof
    \/ ReadPostscript
    \/ ReadFooter
    \/ ReadFails
    \/ CheckRules
    \/ Shrink

Spec == Init /\ [][Next]_vars

-----------------------------------------------------------------------------
TypeOK ==
    /\ size \in FileSizes
    /\ disk \in FileSizes
    /\ pc \in {"head", "eof", "postscript", "footer", "rules", "linted", "failed"}
    /\ head \in BOOLEAN
    /\ eof \in Optional(Eof)
    /\ postscript_start \in Optional(Nat)
    /\ postscript \in Optional(Postscripts)
    /\ footer \in Optional(Footers)
    /\ footer_error \in BOOLEAN
    /\ footer_skipped \in BOOLEAN

\* rules.md, AL301: truncated files and bad lengths are reported.  A read can only fail,
\* and end the complete lint run, when the file got shorter after it was opened.
FailureNeedsShrink == pc = "failed" => disk < size

\* rules.md, Vortex: bounded reads, so that no locator exhausts memory.  Whatever the
\* file says, every buffer lies within the file and within the limits of the inspection.
BoundedReads ==
    \A r \in reads :
        /\ r.offset >= 0 /\ r.offset + r.length <= size
        /\ r.length <= MaxFooter \/ r.length \in PostscriptLengths \cup {4, EofSize}

\* rules.md, AL304 and AL306: an early return of the inspector is never silent.  If the
\* footer was not judged, some diagnostic of its container, locator or content says so.
FooterExplained ==
    pc = "linted" /\ footer = Missing
       => \E d \in diagnostics : d.rule \in {"AL301", "AL302", "AL304", "AL306"}

\* rules.md, AL306: opaque bytes are not treated as malformed metadata.
OpaqueNotMalformed ==
    postscript # Missing /\ postscript.footer # Missing /\ Opaque(postscript.footer)
       => /\ ~footer_error
          /\ \A d \in diagnostics : d.rule \notin {"AL304", "AL305"}

-----------------------------------------------------------------------------
(* What a file without errors is, declaratively.                           *)

\* Between the leading magic and the boundary, at a multiple of the alignment.
Placed(s, boundary) ==
    /\ s.offset \in 4..boundary
    /\ s.length <= boundary - s.offset
    /\ s.alignment < WordBits
    /\ \E k \in 0..s.offset : s.offset = k * 2 ^ s.alignment

Distinct(values) == \A i, j \in DOMAIN values : values[i] = values[j] => i = j

SoundEnvelope ==
    /\ size >= 12 /\ head /\ eof.magic /\ eof.version = Version
    /\ eof.length <= MaxPostscript
    /\ 4 + eof.length + EofSize <= size
    /\ postscript # Missing

SoundPostscript ==
    /\ {"layout", "footer"} \subseteq PresentParts
    /\ \A p \in PresentParts :
         /\ Placed(postscript[p], size - EofSize - eof.length)
         /\ postscript[p].scheme \in Optional(0..3)
    /\ LET entries == postscript.metadata IN
         /\ Len(entries) <= MaxEntries
         /\ Distinct([i \in DOMAIN entries |-> entries[i].key])
         /\ \A i \in DOMAIN entries :
              /\ entries[i].key # Missing /\ KeyBytes[entries[i].key] \in 1..MaxKeyBytes
              /\ entries[i].segment # Missing /\ Placed(entries[i].segment, size)

SoundFooter ==
    /\ footer.segments # Missing
    /\ \A i, j \in DOMAIN footer.segments :
         i < j => footer.segments[i].offset <= footer.segments[j].offset
    /\ \A i \in DOMAIN footer.segments : Placed(footer.segments[i], size)
    /\ \A ids \in {footer.arrays, footer.layouts} :
         Distinct(ids) /\ \A i \in DOMAIN ids : ids[i] \notin {Missing, ""}
    /\ Len(footer.schemes) <= MaxSchemes
    /\ \A i \in DOMAIN footer.schemes : footer.schemes[i] \in 0..3

\* rules.md, AL301 to AL306: no error is reported exactly for a file whose envelope is
\* right, whose segments are in place, and whose footer is sound or was never parsed.
Verdict ==
    pc = "linted" =>
      ((\A d \in diagnostics : d.severity # "error") <=>
          /\ SoundEnvelope
          /\ SoundPostscript
          /\ ~footer_error
          /\ footer # Missing => SoundFooter)

=============================================================================

-------------------------- MODULE IpcStreamProofs --------------------------
(* Proofs about the frame inspector, for files of any size and content:    *)
(* its type invariant, that it never reads past the size it saw, and that  *)
(* it reports an error exactly for the streams that are not valid.         *)
EXTENDS IpcStream, TLAPS

USE SizesAssumption, LengthsAssumption, BodiesAssumption, LimitAssumption

-----------------------------------------------------------------------------
\* A frame the walk may meet at its offset is a frame, and its ends are integers.
LEMMA FrameFacts ==
    ASSUME TypeOK, NEW f \in FramesAt(offset)
    PROVE  /\ f \in Frame
           /\ f.start = offset
           /\ f.length \in Nat
           /\ f.body \in Int
           /\ f.header \in Headers
           /\ f.marker \in BOOLEAN
           /\ PrefixEnd(f.start) = offset + 4
           /\ MetadataAt(f) \in Nat
           /\ MetadataAt(f) > offset
           /\ MetadataEnd(f) = MetadataAt(f) + f.length
           /\ BodyEnd(f) = MetadataEnd(f) + f.body
           /\ BodyEnd(f) \in Int
<1>1. /\ f.start = offset /\ offset \in Nat
      /\ f.length \in MetadataLengths /\ f.body \in BodyLengths
      /\ f.header \in Headers /\ f.marker \in BOOLEAN
  BY DEF TypeOK, FramesAt
<1>2. f \in Frame
  BY <1>1 DEF FramesAt, Frame
<1>3. f.length \in Nat /\ f.body \in Int
  BY <1>1
<1>4. PrefixEnd(f.start) = offset + 4
  BY <1>1 DEF PrefixEnd
<1>5. MetadataAt(f) \in Nat /\ MetadataAt(f) > offset
  BY <1>1, <1>4 DEF MetadataAt
<1>6. QED
  BY <1>1, <1>2, <1>3, <1>4, <1>5 DEF MetadataEnd, BodyEnd

\* The kinds the checks report are error kinds.
LEMMA KindFacts ==
    ASSUME NEW f
    PROVE  /\ FramingErrors(f) \subseteq ErrorKinds
           /\ MessageErrors(f) \subseteq ErrorKinds
BY DEF FramingErrors, MessageErrors, If, ErrorKinds

LEMMA TaggedType ==
    ASSUME message_count \in Nat, NEW kinds, kinds \subseteq ErrorKinds
    PROVE  Tagged(kinds) \subseteq [kind: ErrorKinds, message: Nat]
BY DEF Tagged

LEMMA CountType ==
    ASSUME schema_count \in Nat, NEW f, CountSchema(f)
    PROVE  schema_count' \in Nat
<1>1. CASE f.header = "Schema"  BY <1>1 DEF CountSchema
<1>2. CASE f.header # "Schema"  BY <1>2 DEF CountSchema
<1>3. QED  BY <1>1, <1>2

\* Every iteration leaves a typed state.
LEMMA InspectType ==
    ASSUME TypeOK, NEW f \in FramesAt(offset), Inspect(f)
    PROVE  TypeOK'
<1> USE FrameFacts, KindFacts
<1>0. schema_count \in Nat /\ message_count \in Nat /\ has_eos \in BOOLEAN
  BY DEF TypeOK
<1>1. frames' \in Seq(Frame) /\ uses_legacy_framing' \in BOOLEAN
  BY DEF Inspect, Meet, TypeOK
<1>2. ASSUME NEW kinds \in SUBSET ErrorKinds, Break(kinds)
      PROVE  /\ errors' \subseteq [kind: ErrorKinds, message: Nat]
             /\ pc' = "count"
             /\ UNCHANGED <<size, disk, offset, message_count>>
  BY <1>2 DEF Break, Tagged, TypeOK
<1> DEFINE Quiet == schema_count' \in Nat /\ has_eos' \in BOOLEAN
<1>3. CASE LengthTruncated(f)
  <2>1. \E kinds \in SUBSET ErrorKinds : Break(kinds)
    <3>1. {"length truncated"} \in SUBSET ErrorKinds  BY DEF ErrorKinds
    <3>2. QED  BY <1>3, <3>1 DEF LengthTruncated
  <2>2. Quiet  BY <1>3 DEF LengthTruncated, TypeOK
  <2>3. QED  BY <1>1, <1>2, <2>1, <2>2 DEF TypeOK
<1>4. CASE EndOfStream(f)
  <2>1. \E kinds \in SUBSET ErrorKinds : Break(kinds)
    <3>1. If(MetadataAt(f) # size, "bytes after EOS") \in SUBSET ErrorKinds
      BY DEF ErrorKinds, If
    <3>2. QED  BY <1>4, <3>1 DEF EndOfStream
  <2>2. Quiet  BY <1>4 DEF EndOfStream, TypeOK
  <2>3. QED  BY <1>1, <1>2, <2>1, <2>2 DEF TypeOK
<1>5. CASE MetadataTooLong(f)
  <2>1. \E kinds \in SUBSET ErrorKinds : Break(kinds)
    <3>1. {"metadata too long"} \in SUBSET ErrorKinds  BY DEF ErrorKinds
    <3>2. QED  BY <1>5, <3>1 DEF MetadataTooLong
  <2>2. Quiet  BY <1>5 DEF MetadataTooLong, TypeOK
  <2>3. QED  BY <1>1, <1>2, <2>1, <2>2 DEF TypeOK
<1>6. CASE MetadataTruncated(f)
  <2>1. \E kinds \in SUBSET ErrorKinds : Break(kinds)
    <3>1. FramingErrors(f) \cup {"metadata truncated"} \in SUBSET ErrorKinds
      BY DEF ErrorKinds
    <3>2. QED  BY <1>6, <3>1 DEF MetadataTruncated
  <2>2. Quiet  BY <1>6 DEF MetadataTruncated, TypeOK
  <2>3. QED  BY <1>1, <1>2, <2>1, <2>2 DEF TypeOK
<1>7. CASE InvalidMetadata(f)
  <2>1. \E kinds \in SUBSET ErrorKinds : Break(kinds)
    <3>1. FramingErrors(f) \cup {"invalid metadata"} \in SUBSET ErrorKinds
      BY DEF ErrorKinds
    <3>2. QED  BY <1>7, <3>1 DEF InvalidMetadata
  <2>2. Quiet  BY <1>7 DEF InvalidMetadata, TypeOK
  <2>3. QED  BY <1>1, <1>2, <2>1, <2>2 DEF TypeOK
<1>8. CASE NegativeBody(f)
  <2>1. \E kinds \in SUBSET ErrorKinds : Break(kinds)
    <3>1. FramingErrors(f) \cup {"negative body"} \in SUBSET ErrorKinds
      BY DEF ErrorKinds
    <3>2. QED  BY <1>8, <3>1 DEF NegativeBody
  <2>2. Quiet  BY <1>8 DEF NegativeBody, TypeOK
  <2>3. QED  BY <1>1, <1>2, <2>1, <2>2 DEF TypeOK
<1>9. CASE BodyTruncated(f)
  <2>1. \E kinds \in SUBSET ErrorKinds : Break(kinds)
    <3>1. FramingErrors(f) \cup MessageErrors(f) \cup {"body truncated"} \in SUBSET ErrorKinds
      BY DEF ErrorKinds
    <3>2. QED  BY <1>9, <3>1 DEF BodyTruncated
  <2>2. Quiet
    <3>1. schema_count' \in Nat  BY <1>0, <1>9, CountType DEF BodyTruncated
    <3>2. QED  BY <1>0, <1>9, <3>1 DEF BodyTruncated
  <2>3. QED  BY <1>1, <1>2, <2>1, <2>2 DEF TypeOK
<1>10. CASE ReadMessage(f)
  <2>1. BodyEnd(f) \in Nat
    BY <1>10 DEF ReadMessage, BodyGiven
  <2>2. errors' \subseteq [kind: ErrorKinds, message: Nat]
    <3>1. Tagged(FramingErrors(f) \cup MessageErrors(f)) \subseteq [kind: ErrorKinds, message: Nat]
      BY <1>0, TaggedType
    <3>2. QED  BY <1>10, <3>1 DEF ReadMessage, TypeOK
  <2>3. schema_count' \in Nat  BY <1>0, <1>10, CountType DEF ReadMessage
  <2>4. message_count' \in Nat  BY <1>0, <1>10 DEF ReadMessage
  <2>5. QED  BY <1>10, <1>1, <2>1, <2>2, <2>3, <2>4 DEF ReadMessage, TypeOK
<1>11. QED
  BY <1>3, <1>4, <1>5, <1>6, <1>7, <1>8, <1>9, <1>10 DEF Inspect

LEMMA NextType == TypeOK /\ [Next]_vars => TypeOK'
<1> SUFFICES ASSUME TypeOK, [Next]_vars PROVE TypeOK'
  OBVIOUS
<1>0. message_count \in Nat
  BY DEF TypeOK
<1>1. CASE PrefixTruncated
  <2>1. Tagged({"prefix truncated"}) \subseteq [kind: ErrorKinds, message: Nat]
    <3>1. {"prefix truncated"} \subseteq ErrorKinds  BY DEF ErrorKinds
    <3>2. QED  BY <1>0, <3>1, TaggedType
  <2>2. QED  BY <1>1, <2>1 DEF PrefixTruncated, Break, TypeOK
<1>2. CASE \E f \in FramesAt(offset) : Inspect(f)
  BY <1>2, InspectType
<1>3. CASE \E f \in FramesAt(offset) : ReadFails(f)
  BY <1>3 DEF ReadFails, TypeOK
<1>4. CASE CountSchemas
  <2> DEFINE kinds == If(schema_count = 0, "no schema")
                        \cup If(schema_count > 1, "several schemas")
  <2>1. kinds \subseteq ErrorKinds
    BY DEF If, ErrorKinds
  <2>2. Tagged(kinds) \subseteq [kind: ErrorKinds, message: Nat]
    BY <1>0, <2>1, TaggedType
  <2>3. QED  BY <1>4, <2>2 DEF CountSchemas, TypeOK
<1>5. CASE Shrink
  BY <1>5 DEF Shrink, inspector, TypeOK
<1>6. CASE UNCHANGED vars
  BY <1>6 DEF vars, inspector, TypeOK
<1>7. QED
  BY <1>1, <1>2, <1>3, <1>4, <1>5, <1>6 DEF Next, Step

LEMMA InitType == Init => TypeOK
<1> SUFFICES ASSUME Init PROVE TypeOK
  OBVIOUS
<1>1. size \in Nat /\ disk \in Nat
  BY DEF Init
<1>2. frames \in Seq(Frame)
  BY DEF Init
<1>3. QED  BY <1>1, <1>2 DEF Init, TypeOK

\* The inspector's state is typed in every reachable state, for every file.
THEOREM TypeCorrect == Spec => []TypeOK
BY InitType, NextType, PTL DEF Spec

-----------------------------------------------------------------------------
(* The verdict.  While the inspector walks, the frames met so far are      *)
(* complete messages that follow one another from offset 0, and the errors *)
(* so far are empty exactly when each of them is valid.  Once the walk is  *)
(* over the last frame may be broken or an EOS marker.                     *)

AllValid(n) == \A i \in 1..n : ValidMessage(i)

WalkInv ==
    /\ message_count = Len(frames)
    /\ offset = IF Len(frames) = 0 THEN 0 ELSE BodyEnd(frames[Len(frames)])
    /\ \A i \in 1..Len(frames) : frames[i].length # 0
    /\ errors = {} <=> AllValid(Len(frames))
    /\ errors = {} => schema_count = IF Len(frames) = 0 THEN 0 ELSE 1

CountInv ==
    /\ errors = {} => /\ Len(frames) > 0
                      /\ AllValid(Len(frames) - 1)
                      /\ frames[Len(frames)].length = 0
                      /\ MetadataAt(frames[Len(frames)]) = size
                      /\ schema_count = IF Len(frames) = 1 THEN 0 ELSE 1
    /\ errors # {} => ~ValidStream

InspectorInv ==
    /\ offset <= size
    /\ disk <= size
    /\ Contiguous
    /\ uses_legacy_framing <=> \E i \in DOMAIN frames : ~frames[i].marker
    /\ pc = "walk"   => WalkInv
    /\ pc = "count"  => CountInv
    /\ pc = "done"   => (errors = {} <=> ValidStream)
    /\ pc = "failed" => disk < size

-----------------------------------------------------------------------------
\* Meeting a frame extends `frames' and leaves the validity of earlier messages alone.
LEMMA MeetFacts ==
    ASSUME TypeOK, NEW f \in FramesAt(offset), Meet(f), size' = size
    PROVE  /\ Len(frames) \in Nat
           /\ Len(frames') = Len(frames) + 1
           /\ DOMAIN frames' = 1..(Len(frames) + 1)
           /\ DOMAIN frames = 1..Len(frames)
           /\ frames'[Len(frames) + 1] = f
           /\ \A i \in 1..Len(frames) : frames'[i] = frames[i]
<1>1. frames \in Seq(Frame) /\ f \in Frame
  BY FrameFacts DEF TypeOK
<1>2. frames' = Append(frames, f)
  BY DEF Meet
<1>3. QED
  BY <1>1, <1>2

LEMMA ValidKept ==
    ASSUME TypeOK, NEW f \in FramesAt(offset), Meet(f), size' = size,
           NEW i \in 1..Len(frames)
    PROVE  ValidMessage(i)' <=> ValidMessage(i)
<1>1. Len(frames) \in Nat /\ \A j \in 1..i : frames'[j] = frames[j]
  BY MeetFacts
<1>2. (\A j \in 1..i : frames'[j].marker) <=> (\A j \in 1..i : frames[j].marker)
  BY <1>1
<1>3. frames'[i] = frames[i]
  BY MeetFacts
<1>4. QED
  BY <1>2, <1>3 DEF ValidMessage, BodyEnd, MetadataEnd, MetadataAt, PrefixEnd

\* The new frame starts where the last one ended, and the legacy flag accounts for it.
LEMMA MeetKeeps ==
    ASSUME TypeOK, InspectorInv, WalkInv,
           NEW f \in FramesAt(offset), Meet(f), size' = size
    PROVE  /\ Contiguous'
           /\ uses_legacy_framing' <=> \E i \in DOMAIN frames' : ~frames'[i].marker
<1> USE MeetFacts, FrameFacts
<1>1. Contiguous'
  <2>1. SUFFICES ASSUME NEW i \in DOMAIN frames'
                 PROVE  frames'[i].start = IF i = 1 THEN 0 ELSE BodyEnd(frames'[i - 1])
    BY DEF Contiguous, BodyEnd, MetadataEnd, MetadataAt, PrefixEnd
  <2>2. CASE i = Len(frames) + 1
    BY <2>2 DEF WalkInv
  <2>3. CASE i \in 1..Len(frames)
    <3>1. frames[i].start = IF i = 1 THEN 0 ELSE BodyEnd(frames[i - 1])
      BY <2>3 DEF InspectorInv, Contiguous
    <3>2. CASE i = 1  BY <2>3, <3>1, <3>2
    <3>3. CASE i # 1
      <4>1. i - 1 \in 1..Len(frames)  BY <2>3, <3>3
      <4>2. QED  BY <2>3, <3>1, <3>3, <4>1
    <3>4. QED  BY <3>2, <3>3
  <2>4. QED  BY <2>2, <2>3
<1>2. uses_legacy_framing' <=> \E i \in DOMAIN frames' : ~frames'[i].marker
  <2>1. uses_legacy_framing <=> \E i \in 1..Len(frames) : ~frames[i].marker
    BY DEF InspectorInv
  <2>2. uses_legacy_framing' <=> (uses_legacy_framing \/ ~f.marker)
    BY DEF Meet
  <2>3. (\E i \in DOMAIN frames' : ~frames'[i].marker)
           <=> ((\E i \in 1..Len(frames) : ~frames[i].marker) \/ ~f.marker)
    <3>1. \A i : i \in DOMAIN frames' <=> i \in 1..Len(frames) \/ i = Len(frames) + 1
      OBVIOUS
    <3>2. QED  BY <3>1
  <2>4. QED  BY <2>1, <2>2, <2>3
<1>3. QED  BY <1>1, <1>2

LEMMA TaggedEmpty ==
    ASSUME NEW kinds
    PROVE  errors \cup Tagged(kinds) = {} <=> errors = {} /\ kinds = {}
BY DEF Tagged

\* A stream whose last frame is neither a complete message that ends the file nor
\* an EOS marker that ends it is not valid, and neither is one with an earlier error.
LEMMA LastFrameBroken ==
    ASSUME TypeOK, NEW f \in FramesAt(offset), Meet(f), size' = size,
           WalkInv,
           \/ errors # {}
           \/ /\ f.length # 0 \/ MetadataAt(f) # size
              /\ \/ f.length = 0 \/ f.length > MaxMetadata
                 \/ f.header = "Unparsable"
                 \/ f.body < 0
                 \/ BodyEnd(f) # size
    PROVE  ~ValidStream'
<1> USE MeetFacts, FrameFacts
<1> DEFINE n == Len(frames)
\* A constant for the index of the new frame: priming ValidMessage(n + 1) would prime n.
<1>0. PICK m \in Nat : m = n + 1
  OBVIOUS
<1>1. SUFFICES ASSUME ValidStream' PROVE FALSE
  OBVIOUS
<1>2. \A i \in 1..n : ValidMessage(i)' => ValidMessage(i)
  BY ValidKept
<1>3. CASE /\ \A i \in 1..(n + 1) : ValidMessage(i)'
           /\ BodyEnd(f) = size
  <2>1. ValidMessage(m)' /\ frames'[m] = f
    BY <1>0, <1>3
  <2>2. f.length # 0 /\ f.length <= MaxMetadata /\ f.body >= 0 /\ f.header # "Unparsable"
    BY <2>1 DEF ValidMessage, DataHeaders
  <2>3. errors = {}
    <3>1. \A i \in 1..n : ValidMessage(i)  BY <1>2, <1>3
    <3>2. QED  BY <3>1 DEF WalkInv, AllValid
  <2>4. QED  BY <1>3, <2>2, <2>3
<1>4. CASE /\ \A i \in 1..n : ValidMessage(i)'
           /\ f.length = 0
           /\ MetadataAt(f) = size
  <2>1. errors = {}
    BY <1>2, <1>4 DEF WalkInv, AllValid
  <2>2. QED  BY <1>4, <2>1
<1>5. QED
  <2>1. Len(frames') = n + 1 /\ frames'[n + 1] = f /\ (n + 1) - 1 = n
    OBVIOUS
  <2>2. QED
    BY <1>1, <1>3, <1>4, <2>1
       DEF ValidStream, BodyEnd, MetadataEnd, MetadataAt, PrefixEnd

\* While no error was found, the checks on a complete message find nothing exactly
\* when it is a valid message in its place.
LEMMA ChecksMeanValid ==
    ASSUME TypeOK, InspectorInv, WalkInv, errors = {},
           NEW f \in FramesAt(offset), Meet(f), size' = size,
           BodyGiven(f), BodyEnd(f) <= size,
           NEW m \in Nat, m = Len(frames) + 1
    PROVE  ValidMessage(m)' <=> FramingErrors(f) = {} /\ MessageErrors(f) = {}
<1> USE MeetFacts, FrameFacts
<1>1. /\ f.length # 0 /\ f.length <= MaxMetadata
      /\ f.header # "Unparsable" /\ f.body >= 0
  BY DEF BodyGiven, Parses, MetadataFits, IsMessage
<1>2. /\ message_count # 0 <=> m # 1
      /\ schema_count = 0 <=> m = 1
  BY DEF WalkInv
<1>3. (\A j \in 1..m : frames'[j].marker) <=> (f.marker /\ ~uses_legacy_framing)
  <2>1. uses_legacy_framing <=> \E i \in 1..Len(frames) : ~frames[i].marker
    BY DEF InspectorInv
  <2>2. \A i : i \in 1..m <=> i \in 1..Len(frames) \/ i = m
    OBVIOUS
  <2>3. QED  BY <2>1, <2>2
<1>4. FramingErrors(f) = {}
        <=> /\ f.marker => f.length % 8 = 0
            /\ (\A j \in 1..m : frames'[j].marker) => f.start % 8 = 0
  <2>1. FramingErrors(f) = {}
          <=> /\ ~(f.marker /\ f.length % 8 # 0)
              /\ ~(f.marker /\ ~uses_legacy_framing /\ f.start % 8 # 0)
    BY DEF FramingErrors, If
  <2>2. QED  BY <1>3, <2>1
<1>5. MessageErrors(f) = {}
        <=> /\ f.body % 8 = 0
            /\ IF m = 1 THEN f.header = "Schema" /\ f.body = 0 ELSE f.header \in DataHeaders
  <2>1. f.header \in {"Schema", "Other"} \cup DataHeaders
    BY <1>1 DEF Headers
  <2>2. CASE m = 1
    BY <2>1, <2>2, <1>2 DEF MessageErrors, If, DataHeaders
  <2>3. CASE m # 1
    BY <2>1, <2>3, <1>2 DEF MessageErrors, If, DataHeaders
  <2>4. QED  BY <2>2, <2>3
<1>6. frames'[m] = f
  OBVIOUS
<1>7. ValidMessage(m)'
        <=> /\ f.length # 0 /\ f.length <= MaxMetadata
            /\ f.marker => f.length % 8 = 0
            /\ (\A j \in 1..m : frames'[j].marker) => f.start % 8 = 0
            /\ f.body >= 0 /\ f.body % 8 = 0
            /\ IF m = 1 THEN f.header = "Schema" /\ f.body = 0
                        ELSE f.header \in DataHeaders
            /\ BodyEnd(f) <= size
  BY <1>6 DEF ValidMessage, BodyEnd, MetadataEnd, MetadataAt, PrefixEnd
<1>8. BodyEnd(f) <= size
  OBVIOUS
<1>9. QED
  BY <1>1, <1>4, <1>5, <1>7, <1>8 DEF FramingErrors, MessageErrors

\* Reading a complete message keeps the invariant of the walk.
LEMMA ReadMessageKeeps ==
    ASSUME TypeOK, InspectorInv, Walking,
           NEW f \in FramesAt(offset), Meet(f), ReadMessage(f)
    PROVE  InspectorInv'
<1> USE FrameFacts
<1>1. /\ size' = size /\ disk' = disk /\ pc' = "walk" /\ WalkInv
      /\ offset' = BodyEnd(f) /\ message_count' = message_count + 1
      /\ BodyGiven(f) /\ BodyEnd(f) <= size /\ CountSchema(f)
      /\ errors' = errors \cup Tagged(FramingErrors(f) \cup MessageErrors(f))
  BY DEF ReadMessage, Walking, InspectorInv
<1>2. Contiguous' /\ (uses_legacy_framing' <=> \E i \in DOMAIN frames' : ~frames'[i].marker)
  BY <1>1, MeetKeeps
<1> USE MeetFacts
<1>3. PICK m \in Nat : m = Len(frames) + 1
  BY <1>1
<1>4. f.length # 0
  BY <1>1 DEF BodyGiven, Parses, MetadataFits, IsMessage
<1>5. errors' = {} <=> /\ errors = {}
                       /\ FramingErrors(f) = {} /\ MessageErrors(f) = {}
  BY <1>1, TaggedEmpty
<1>6. errors' = {} <=> \A i \in 1..m : ValidMessage(i)'
  <2>1. errors = {} <=> \A i \in 1..Len(frames) : ValidMessage(i)'
    BY <1>1, ValidKept DEF WalkInv, AllValid
  <2>2. errors = {} => (ValidMessage(m)' <=> FramingErrors(f) = {} /\ MessageErrors(f) = {})
    BY <1>1, <1>3, ChecksMeanValid
  <2>3. (\A i \in 1..m : ValidMessage(i)')
          <=> (\A i \in 1..Len(frames) : ValidMessage(i)') /\ ValidMessage(m)'
    <3>1. \A i : i \in 1..m <=> i \in 1..Len(frames) \/ i = m
      BY <1>1, <1>3
    <3>2. QED  BY <3>1
  <2>4. QED  BY <1>5, <2>1, <2>2, <2>3
<1>7. errors' = {} => schema_count' = 1
  <2>1. SUFFICES ASSUME errors' = {} PROVE schema_count' = 1
    OBVIOUS
  <2>2. errors = {} /\ MessageErrors(f) = {}
    BY <1>5, <2>1
  <2>3. f.header = "Schema" <=> Len(frames) = 0
    BY <1>1, <2>2 DEF MessageErrors, If, WalkInv, DataHeaders, Headers, BodyGiven, Parses
  <2>4. schema_count = IF Len(frames) = 0 THEN 0 ELSE 1
    BY <1>1, <2>2 DEF WalkInv
  <2>5. QED  BY <1>1, <2>3, <2>4 DEF CountSchema
<1>8. WalkInv'
  <2>1. Len(frames') = m /\ frames'[m] = f
    BY <1>1, <1>3
  <2>2. message_count' = Len(frames') /\ Len(frames') # 0
    BY <1>1, <1>3, <2>1 DEF WalkInv
  <2>3. offset' = BodyEnd(frames'[Len(frames')])
    BY <1>1, <2>1
  <2>4. \A i \in 1..Len(frames') : frames'[i].length # 0
    BY <1>1, <1>3, <1>4, <2>1 DEF WalkInv
  <2>5. errors' = {} <=> AllValid(Len(frames))'
    BY <1>6, <2>1 DEF AllValid
  <2>6. QED
    BY <1>7, <2>2, <2>3, <2>4, <2>5 DEF WalkInv, BodyEnd, MetadataEnd, MetadataAt, PrefixEnd
<1>9. QED
  BY <1>1, <1>2, <1>8 DEF InspectorInv

\* A frame that ends the walk cannot be the message that ends a valid stream.
LEMMA BrokenFrame ==
    ASSUME TypeOK, NEW f \in FramesAt(offset), Inspect(f), ~ReadMessage(f)
    PROVE  \/ f.length = 0 \/ f.length > MaxMetadata
           \/ f.header = "Unparsable"
           \/ f.body < 0
           \/ BodyEnd(f) # size
<1>0. /\ size \in Nat /\ f.length \in Nat /\ f.body \in Int
      /\ MetadataAt(f) \in Nat
      /\ MetadataEnd(f) = MetadataAt(f) + f.length
      /\ BodyEnd(f) = MetadataEnd(f) + f.body
  BY FrameFacts DEF TypeOK
<1>1. CASE LengthTruncated(f)
  <2>1. ~(MetadataAt(f) <= size)  BY <1>1 DEF LengthTruncated, LengthFits
  <2>2. QED  BY <1>0, <2>1
<1>2. CASE EndOfStream(f)
  BY <1>2 DEF EndOfStream
<1>3. CASE MetadataTooLong(f)
  BY <1>3 DEF MetadataTooLong
<1>4. CASE MetadataTruncated(f)
  <2>1. ~(MetadataEnd(f) <= size)  BY <1>4 DEF MetadataTruncated, MetadataFits
  <2>2. QED  BY <1>0, <2>1
<1>5. CASE InvalidMetadata(f)
  BY <1>5 DEF InvalidMetadata, Parses
<1>6. CASE NegativeBody(f)
  BY <1>6 DEF NegativeBody
<1>7. CASE BodyTruncated(f)
  <2>1. BodyEnd(f) > size  BY <1>7 DEF BodyTruncated
  <2>2. QED  BY <1>0, <2>1
<1>8. QED
  BY <1>1, <1>2, <1>3, <1>4, <1>5, <1>6, <1>7 DEF Inspect

\* A frame that ends the walk: the errors found say whether the stream can be valid.
LEMMA BreakKeeps ==
    ASSUME TypeOK, InspectorInv, Walking,
           NEW f \in FramesAt(offset), Inspect(f), ~ReadMessage(f)
    PROVE  InspectorInv'
<1>0. /\ size \in Nat /\ f.length \in Nat /\ f.body \in Int
      /\ MetadataAt(f) \in Nat
      /\ MetadataAt(f) >= PrefixEnd(f.start) /\ PrefixEnd(f.start) \in Nat
      /\ MetadataEnd(f) = MetadataAt(f) + f.length
      /\ BodyEnd(f) = MetadataEnd(f) + f.body
  <2>1. f.start = offset /\ offset \in Nat  BY FrameFacts DEF TypeOK
  <2>2. MetadataAt(f) >= PrefixEnd(f.start) /\ PrefixEnd(f.start) \in Nat
    BY <2>1 DEF MetadataAt, PrefixEnd
  <2>3. QED  BY <2>2, FrameFacts DEF TypeOK
<1>1. WalkInv /\ Meet(f)
  BY DEF Walking, InspectorInv, Inspect
<1>2. PICK kinds : Break(kinds)
  BY DEF Inspect, LengthTruncated, EndOfStream, MetadataTooLong, MetadataTruncated,
         InvalidMetadata, NegativeBody, BodyTruncated
<1>3. /\ size' = size /\ disk' = disk /\ offset' = offset /\ pc' = "count"
      /\ errors' = errors \cup Tagged(kinds)
  BY <1>2 DEF Break
<1>4. Contiguous' /\ (uses_legacy_framing' <=> \E i \in DOMAIN frames' : ~frames'[i].marker)
  BY <1>1, <1>3, MeetKeeps
<1>5. CASE f.length = 0 /\ MetadataAt(f) = size /\ errors = {}
  <2>1. EndOfStream(f)
    <3>1. LengthFits(f) /\ ~IsMessage(f) /\ ~(f.length > MaxMetadata)
      BY <1>0, <1>5 DEF LengthFits, PrefixFits, IsMessage
    <3>2. QED
      BY <3>1 DEF Inspect, LengthTruncated, MetadataFits, Parses, BodyGiven,
                  MetadataTooLong, MetadataTruncated, InvalidMetadata,
                  NegativeBody, BodyTruncated, ReadMessage
  <2>2. errors' = {}
    BY <1>5, <2>1, TaggedEmpty DEF EndOfStream, Break, If
  <2>3. schema_count' = schema_count
    BY <2>1 DEF EndOfStream
  <2>4. CountInv'
    <3> USE <1>1, <1>3, MeetFacts
    <3>1. Len(frames') > 0 /\ frames'[Len(frames')] = f
      OBVIOUS
    <3>2. PICK k \in Nat : k = Len(frames)
      OBVIOUS
    <3>3. \A i \in 1..k : ValidMessage(i)'
      <4>1. \A i \in 1..k : ValidMessage(i)
        BY <1>5, <3>2 DEF WalkInv, AllValid
      <4>2. QED  BY <4>1, <3>2, ValidKept
    <3>4. Len(frames') - 1 = k
      BY <3>2
    <3>5. AllValid(Len(frames) - 1)'
      BY <3>3, <3>4 DEF AllValid
    <3>6. schema_count' = IF Len(frames') = 1 THEN 0 ELSE 1
      <4>1. Len(frames') = k + 1
        BY <3>2
      <4>2. schema_count = IF k = 0 THEN 0 ELSE 1
        BY <1>5, <3>2 DEF WalkInv
      <4>3. QED  BY <2>3, <4>1, <4>2
    <3>7. QED
      BY <1>5, <2>2, <3>1, <3>5, <3>6 DEF CountInv, MetadataAt, PrefixEnd
  <2>5. QED  BY <1>3, <1>4, <2>4 DEF InspectorInv
<1>6. CASE ~(f.length = 0 /\ MetadataAt(f) = size /\ errors = {})
  <2>1. errors' # {}
    <3>1. errors # {} \/ kinds # {}
      <4>1. CASE EndOfStream(f) /\ errors = {}
        <5>1. f.length = 0 /\ MetadataAt(f) # size  BY <1>6, <4>1 DEF EndOfStream
        <5>2. errors' # {}
          BY <4>1, <5>1, TaggedEmpty DEF EndOfStream, Break, If
        <5>3. QED  BY <1>3, <5>2, TaggedEmpty
      <4>2. CASE ~EndOfStream(f)
        <5>1. \E ks : ks # {} /\ Break(ks)
          BY <4>2 DEF Inspect, LengthTruncated, MetadataTooLong, MetadataTruncated,
                      InvalidMetadata, NegativeBody, BodyTruncated
        <5>2. errors' # {}  BY <5>1, TaggedEmpty DEF Break
        <5>3. QED  BY <1>3, <5>2, TaggedEmpty
      <4>3. QED  BY <4>1, <4>2
    <3>2. QED  BY <1>3, <3>1, TaggedEmpty
  <2>2. CASE errors # {}
    <3>1. ~ValidStream'  BY <1>1, <1>3, <2>2, LastFrameBroken
    <3>2. QED  BY <1>3, <1>4, <2>1, <3>1 DEF InspectorInv, CountInv
  <2>3. CASE errors = {}
    <3>1. f.length # 0 \/ MetadataAt(f) # size
      BY <1>6, <2>3
    <3>2. \/ f.length = 0 \/ f.length > MaxMetadata
          \/ f.header = "Unparsable"
          \/ f.body < 0
          \/ BodyEnd(f) # size
        BY BrokenFrame
    <3>3. ~ValidStream'  BY <1>1, <1>3, <3>1, <3>2, LastFrameBroken
    <3>4. QED  BY <1>3, <1>4, <2>1, <3>3 DEF InspectorInv, CountInv
  <2>4. QED  BY <2>2, <2>3
<1>7. QED  BY <1>5, <1>6

\* The frames and the size alone say whether a stream is valid.
LEMMA StutterFacts ==
    ASSUME frames' = frames, size' = size
    PROVE  (ValidStream' <=> ValidStream) /\ (Contiguous' <=> Contiguous)
<1>1. ValidStream' <=> ValidStream
  BY DEF ValidStream, ValidMessage, BodyEnd, MetadataEnd, MetadataAt, PrefixEnd
<1>2. Contiguous' <=> Contiguous
  BY DEF Contiguous, BodyEnd, MetadataEnd, MetadataAt, PrefixEnd
<1>3. QED  BY <1>1, <1>2

\* A walk that is over has no EOS marker at its end, so its messages must reach the end.
LEMMA WalkedStream ==
    ASSUME TypeOK, WalkInv
    PROVE  ValidStream <=> Len(frames) > 0 /\ errors = {} /\ offset = size
<1>1. Len(frames) \in Nat
  BY DEF TypeOK
<1>2. PICK n \in Nat : n = Len(frames)
  BY <1>1
<1>3. n > 0 => n \in 1..n
  BY <1>2
<1>4. n > 0 => frames[n].length # 0 /\ offset = BodyEnd(frames[n])
  BY <1>2, <1>3 DEF WalkInv
<1>5. errors = {} <=> \A i \in 1..n : ValidMessage(i)
  BY <1>2 DEF WalkInv, AllValid
<1>6. ValidStream
        <=> \/ n > 0 /\ (\A i \in 1..n : ValidMessage(i)) /\ BodyEnd(frames[n]) = size
            \/ /\ n > 1 /\ (\A i \in 1..(n - 1) : ValidMessage(i))
               /\ frames[n].length = 0 /\ MetadataAt(frames[n]) = size
  BY <1>2 DEF ValidStream
<1>7. ~(n > 1 /\ frames[n].length = 0)
  BY <1>4
<1>8. QED  BY <1>2, <1>4, <1>5, <1>6, <1>7

\* A prefix that does not fit: bytes are left over after the last message.
LEMMA PrefixTruncatedKeeps ==
    ASSUME TypeOK, InspectorInv, PrefixTruncated
    PROVE  InspectorInv'
<1>1. /\ size' = size /\ disk' = disk /\ offset' = offset /\ frames' = frames
      /\ uses_legacy_framing' = uses_legacy_framing /\ pc' = "count"
      /\ errors' = errors \cup Tagged({"prefix truncated"})
  BY DEF PrefixTruncated, Break
<1>2. WalkInv /\ offset < size
  BY DEF PrefixTruncated, Walking, InspectorInv
<1>3. errors' # {}
  BY <1>1, TaggedEmpty
<1>4. ~ValidStream
  <2>1. offset # size  BY <1>2 DEF TypeOK
  <2>2. QED  BY <1>2, <2>1, WalkedStream
<1>5. CountInv'
  BY <1>1, <1>3, <1>4, StutterFacts DEF CountInv
<1>6. QED
  BY <1>1, <1>5, StutterFacts DEF InspectorInv

LEMMA EitherKind ==
    ASSUME NEW a \in BOOLEAN, NEW b \in BOOLEAN, NEW k, NEW l
    PROVE  If(a, k) \cup If(b, l) = {} <=> ~a /\ ~b
<1>1. a => k \in If(a, k)  BY DEF If
<1>2. b => l \in If(b, l)  BY DEF If
<1>3. ~a => If(a, k) = {}  BY DEF If
<1>4. ~b => If(b, l) = {}  BY DEF If
<1>5. QED  BY <1>1, <1>2, <1>3, <1>4

\* The verdict on the number of schemas.
LEMMA CountSchemasKeeps ==
    ASSUME TypeOK, InspectorInv, CountSchemas
    PROVE  InspectorInv'
<1> DEFINE kinds == If(schema_count = 0, "no schema")
                      \cup If(schema_count > 1, "several schemas")
<1>1. /\ size' = size /\ disk' = disk /\ offset' = offset /\ frames' = frames
      /\ uses_legacy_framing' = uses_legacy_framing /\ pc' = "done"
      /\ errors' = errors \cup Tagged(kinds)
  BY DEF CountSchemas
<1>2. errors' = {} <=> errors = {} /\ schema_count = 1
  <2>1. schema_count \in Nat
    BY DEF TypeOK
  <2>2. kinds = {} <=> schema_count = 1
    <3>1. kinds = {} <=> ~(schema_count = 0) /\ ~(schema_count > 1)
      BY <2>1, EitherKind
    <3>2. ~(schema_count = 0) /\ ~(schema_count > 1) <=> schema_count = 1
      BY <2>1
    <3> HIDE DEF kinds
    <3>3. QED  BY <3>1, <3>2
  <2>3. QED  BY <1>1, <2>2, TaggedEmpty
<1>3. errors' = {} <=> ValidStream
  <2>1. CASE pc = "walk" /\ offset >= size
    <3>1. WalkInv /\ offset = size
      BY <2>1 DEF InspectorInv, TypeOK
    <3>2. errors = {} => (schema_count = 1 <=> Len(frames) > 0)
      <4>1. Len(frames) \in Nat  BY DEF TypeOK
      <4>2. QED  BY <3>1, <4>1 DEF WalkInv
    <3>3. QED  BY <1>2, <3>1, <3>2, WalkedStream
  <2>2. CASE pc = "count" /\ errors # {}
    BY <1>2, <2>2 DEF InspectorInv, CountInv
  <2>3. CASE pc = "count" /\ errors = {}
    <3>1. PICK n \in Nat : n = Len(frames)
      BY DEF TypeOK
    <3>2. /\ n > 0 /\ \A i \in 1..(n - 1) : ValidMessage(i)
          /\ frames[n].length = 0 /\ MetadataAt(frames[n]) = size
          /\ schema_count = IF n = 1 THEN 0 ELSE 1
      BY <2>3, <3>1 DEF InspectorInv, CountInv, AllValid
    <3>3. ~ValidMessage(n)
      BY <3>2 DEF ValidMessage
    <3>4. n \in 1..n
      BY <3>2
    <3>5. ValidStream <=> n > 1
      BY <3>1, <3>2, <3>3, <3>4 DEF ValidStream
    <3>6. QED  BY <1>2, <2>3, <3>2, <3>5
  <2>4. QED
    BY <2>1, <2>2, <2>3 DEF CountSchemas
<1>4. QED
  BY <1>1, <1>3, StutterFacts DEF InspectorInv

\* A read within the size seen at the open fails only on a file that has shrunk.
LEMMA ReadFailsKeeps ==
    ASSUME TypeOK, InspectorInv, NEW f \in FramesAt(offset), ReadFails(f)
    PROVE  InspectorInv'
<1>1. /\ size' = size /\ disk' = disk /\ offset' = offset /\ frames' = frames
      /\ uses_legacy_framing' = uses_legacy_framing /\ pc' = "failed"
      /\ PrefixFits(f) /\ ~Readable(f)
  BY DEF ReadFails
<1>2. disk < size
  <2>1. disk # size
    BY <1>1 DEF Readable, PrefixFits, LengthFits, MetadataFits
  <2>2. QED  BY <2>1 DEF InspectorInv, TypeOK
<1>3. QED
  BY <1>1, <1>2, StutterFacts DEF InspectorInv

LEMMA InspectorStep == TypeOK /\ InspectorInv /\ [Next]_vars => InspectorInv'
<1> SUFFICES ASSUME TypeOK, InspectorInv, [Next]_vars PROVE InspectorInv'
  OBVIOUS
<1>1. CASE PrefixTruncated
  BY <1>1, PrefixTruncatedKeeps
<1>2. ASSUME NEW f \in FramesAt(offset), Inspect(f)
      PROVE  InspectorInv'
  <2>1. Walking /\ Meet(f)
    BY <1>2 DEF Inspect
  <2>2. QED  BY <1>2, <2>1, ReadMessageKeeps, BreakKeeps
<1>3. CASE \E f \in FramesAt(offset) : ReadFails(f)
  BY <1>3, ReadFailsKeeps
<1>4. CASE CountSchemas
  BY <1>4, CountSchemasKeeps
<1>5. CASE Shrink
  <2>1. /\ size' = size /\ disk' < size /\ disk' \in Nat /\ offset' = offset
        /\ frames' = frames /\ schema_count' = schema_count
        /\ message_count' = message_count
        /\ uses_legacy_framing' = uses_legacy_framing
        /\ errors' = errors /\ pc' = "walk" /\ pc = "walk"
    BY <1>5 DEF Shrink, inspector
  <2>2. WalkInv'
    BY <2>1 DEF InspectorInv, WalkInv, AllValid, ValidMessage,
                BodyEnd, MetadataEnd, MetadataAt, PrefixEnd
  <2>3. disk' <= size'
    BY <2>1 DEF TypeOK
  <2>4. QED
    BY <2>1, <2>2, <2>3, StutterFacts DEF InspectorInv
<1>6. CASE UNCHANGED vars
  BY <1>6 DEF vars, inspector, InspectorInv, WalkInv, CountInv, Contiguous, AllValid,
              ValidStream, ValidMessage, BodyEnd, MetadataEnd, MetadataAt, PrefixEnd
<1>7. QED
  BY <1>1, <1>2, <1>3, <1>4, <1>5, <1>6 DEF Next, Step

LEMMA InspectorInit == Init => InspectorInv
<1> SUFFICES ASSUME Init PROVE InspectorInv
  OBVIOUS
<1>1. frames = <<>> /\ Len(frames) = 0 /\ DOMAIN frames = {}
  BY DEF Init
<1>2. 0 <= size /\ disk <= size
  BY DEF Init
<1>3. WalkInv
  BY <1>1 DEF Init, WalkInv, AllValid
<1>4. QED
  BY <1>1, <1>2, <1>3 DEF Init, InspectorInv, Contiguous

LEMMA InspectorCorrect == Spec => [](TypeOK /\ InspectorInv)
<1>1. Spec => []InspectorInv
  BY InspectorInit, InspectorStep, TypeCorrect, PTL DEF Spec
<1>2. QED  BY <1>1, TypeCorrect, PTL

\* AL016's verdict: for a file of any size and content, an inspection that ends has
\* walked contiguous frames, and found an error exactly when the stream is not valid.
THEOREM VerdictCorrect == Spec => []Verdict
<1>1. InspectorInv => Verdict
  BY DEF InspectorInv, Verdict
<1>2. QED  BY <1>1, InspectorCorrect, PTL

\* No read of the inspector can fail on a file that nobody truncates.
THEOREM FailureNeedsShrinkCorrect == Spec => []FailureNeedsShrink
<1>1. InspectorInv => FailureNeedsShrink
  BY DEF InspectorInv, FailureNeedsShrink
<1>2. QED  BY <1>1, InspectorCorrect, PTL

\* The flag AL017 reports means that some frame of the stream had no continuation marker.
THEOREM LegacyFlagCorrect == Spec => []LegacyFlag
<1>1. InspectorInv => LegacyFlag
  BY DEF InspectorInv, LegacyFlag
<1>2. QED  BY <1>1, InspectorCorrect, PTL

=============================================================================

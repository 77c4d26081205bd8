----------------------- MODULE VortexContainerProofs -----------------------
(***************************************************************************)
(* Proofs about VortexContainer, for files of any size and any content.    *)
(* Located says that each read is asked for within the size noted at the   *)
(* open, Unjudged why the footer was not parsed.  Enveloped ties what was  *)
(* kept to the file it was read from; with it the rules AL301 to AL306 are *)
(* compared, one by one, with what a sound envelope, postscript and footer *)
(* are.                                                                    *)
(***************************************************************************)
EXTENDS VortexContainer, WellFoundedInduction, TLAPS

-----------------------------------------------------------------------------
LEMMA SizesAreNat ==
    ASSUME NEW n \in FileSizes
    PROVE  n \in Nat
BY SizesAssumption

\* A parsed locator has a natural offset and length, and is not Missing.
LEMMA FooterLocator ==
    ASSUME NEW p \in Postscripts, p.footer # Missing
    PROVE  p.footer \in Segment /\ p.footer.offset \in Nat /\ p.footer.length \in Nat
<1>1. p \in Postscript
  BY ParsedAssumption
<1>2. p.footer \in Optional(Segment)
  BY <1>1 DEF Postscript
<1>3. p.footer \in Segment
  BY <1>2 DEF Optional
<1> QED
  BY <1>3 DEF Segment

\* What the next read may rely on.
Located ==
    /\ size \in Nat /\ disk \in Nat /\ disk <= size
    /\ pc = "eof" => size >= 12
    /\ pc = "postscript" => eof \in Eof /\ postscript_start = size - EofSize - eof.length
                              /\ postscript_start \in Nat
    /\ pc = "footer" => /\ postscript \in Postscripts
                        /\ postscript.footer # Missing
                        /\ postscript.footer.offset + postscript.footer.length <= size
                        /\ postscript.footer.length <= MaxFooter

ReadsInv == Located /\ BoundedReads /\ FailureNeedsShrink

LEMMA ReadsInit == Init => ReadsInv
BY SizesAreNat DEF Init, ReadsInv, Located, BoundedReads, FailureNeedsShrink

\* The read of each phase lies within the file and is no longer than its limit.
LEMMA NextReadBounded ==
    ASSUME Located, pc \in {"head", "eof", "postscript", "footer"}, pc = "head" => size >= 12
    PROVE  /\ NextRead.offset \in Nat /\ NextRead.length \in Nat
           /\ NextRead.offset + NextRead.length <= size
           /\ NextRead.length <= MaxFooter \/ NextRead.length \in PostscriptLengths \cup {4, EofSize}
<1>1. CASE pc = "head"
  BY <1>1 DEF NextRead, Located
<1>2. CASE pc = "eof"
  BY <1>2 DEF NextRead, Located, EofSize
<1>3. CASE pc = "postscript"
  <2>1. eof.length \in PostscriptLengths /\ eof.length \in Nat
    BY <1>3, LengthAssumption DEF Located, Eof
  <2> QED
    BY <1>3, <2>1 DEF NextRead, Located, EofSize
<1>4. CASE pc = "footer"
  <2>1. postscript.footer.offset \in Nat /\ postscript.footer.length \in Nat
    BY <1>4, FooterLocator DEF Located
  <2> QED
    BY <1>4, <2>1 DEF NextRead, Located
<1> QED
  BY <1>1, <1>2, <1>3, <1>4

\* Adding the next read to those made keeps them bounded.
LEMMA BoundedNext ==
    ASSUME ReadsInv, pc \in {"head", "eof", "postscript", "footer"}, pc = "head" => size >= 12,
           reads' = reads \cup {NextRead}, size' = size
    PROVE  BoundedReads'
<1>1. NextRead.offset >= 0
  BY NextReadBounded DEF ReadsInv
<1> QED
  BY <1>1, NextReadBounded DEF ReadsInv, BoundedReads

LEMMA ReadsNext == ReadsInv /\ [Next]_vars => ReadsInv'
<1> SUFFICES ASSUME ReadsInv, [Next]_vars PROVE ReadsInv'
  OBVIOUS
<1> USE DEF ReadsInv
<1>1. CASE TooSmall
  BY <1>1 DEF TooSmall, Located, BoundedReads, FailureNeedsShrink
<1>2. CASE ReadHead
  <2>1. reads' = reads \cup {NextRead}
    BY <1>2 DEF ReadHead, Read, NextRead
  <2>2. BoundedReads'
    BY <1>2, <2>1, BoundedNext DEF ReadHead
  <2> QED
    BY <1>2, <2>2 DEF ReadHead, Located, FailureNeedsShrink
<1>3. CASE ReadEof
  <2>1. reads' = reads \cup {NextRead}
    BY <1>3 DEF ReadEof, Read, NextRead
  <2>2. BoundedReads'
    BY <1>3, <2>1, BoundedNext DEF ReadEof
  <2>3. eof' \in Eof /\ eof'.length \in Nat
    BY <1>3, LengthAssumption DEF ReadEof, Eof
  <2>4. pc' = "postscript" => postscript_start' = size - EofSize - eof'.length
                                /\ postscript_start' \in Nat
    BY <1>3, <2>3 DEF ReadEof, Start, EofSize, Located
  <2>5. pc' \in {"rules", "postscript"} /\ size' = size /\ disk' = disk
    BY <1>3 DEF ReadEof
  <2> QED
    BY <2>2, <2>3, <2>4, <2>5 DEF Located, FailureNeedsShrink
<1>4. CASE ReadPostscript
  <2>1. reads' = reads \cup {NextRead}
    BY <1>4 DEF ReadPostscript, Read, NextRead
  <2>2. BoundedReads'
    BY <1>4, <2>1, BoundedNext DEF ReadPostscript
  <2>3. pc' \in {"rules", "footer"} /\ size' = size /\ disk' = disk
    BY <1>4 DEF ReadPostscript
  <2>4. pc' = "footer" =>
            /\ postscript' \in Postscripts
            /\ postscript'.footer # Missing
            /\ postscript'.footer.offset + postscript'.footer.length <= size
            /\ postscript'.footer.length <= MaxFooter
    BY <1>4 DEF ReadPostscript, Inspectable, RangeIsReadable
  <2> QED
    BY <2>2, <2>3, <2>4 DEF Located, FailureNeedsShrink
<1>5. CASE ReadFooter
  <2>1. reads' = reads \cup {NextRead}
    BY <1>5 DEF ReadFooter, Read, NextRead
  <2>2. BoundedReads'
    BY <1>5, <2>1, BoundedNext DEF ReadFooter
  <2> QED
    BY <1>5, <2>2 DEF ReadFooter, Located, FailureNeedsShrink
<1>6. CASE ReadFails
  <2>1. BoundedReads'
    BY <1>6, BoundedNext DEF ReadFails
  <2>2. ~(NextRead.offset + NextRead.length <= disk)
    BY <1>6 DEF ReadFails, Readable
  <2>3. disk < size
    BY <1>6, <2>2, NextReadBounded DEF ReadFails, Located
  <2> QED
    BY <1>6, <2>1, <2>3 DEF ReadFails, Located, FailureNeedsShrink
<1>7. CASE CheckRules
  BY <1>7 DEF CheckRules, Located, BoundedReads, FailureNeedsShrink
<1>8. CASE Shrink
  <2>1. disk' \in Nat /\ disk' < disk
    BY <1>8, SizesAreNat DEF Shrink
  <2> QED
    BY <1>8, <2>1 DEF Shrink, metadata, Located, BoundedReads, FailureNeedsShrink
<1>9. CASE UNCHANGED vars
  BY <1>9 DEF vars, metadata, Located, BoundedReads, FailureNeedsShrink
<1> QED
  BY <1>1, <1>2, <1>3, <1>4, <1>5, <1>6, <1>7, <1>8, <1>9 DEF Next

\* inspect_reader fails only when the file was truncated after the open, for every file.
THEOREM FailureNeedsShrinkCorrect == Spec => []FailureNeedsShrink
<1>1. ReadsInv => FailureNeedsShrink
  BY DEF ReadsInv
<1> QED
  BY ReadsInit, ReadsNext, <1>1, PTL DEF Spec

\* read_range is asked for no byte beyond the file and for no buffer beyond the limits,
\* for every file.
THEOREM BoundedReadsCorrect == Spec => []BoundedReads
<1>1. ReadsInv => BoundedReads
  BY DEF ReadsInv
<1> QED
  BY ReadsInit, ReadsNext, <1>1, PTL DEF Spec

-----------------------------------------------------------------------------
\* Until the postscript is parsed there is nothing to judge, and from then on the
\* postscript lies within the file.
Parsed ==
    /\ pc \in {"head", "eof", "postscript"} =>
         postscript = Missing /\ footer = Missing /\ ~footer_error /\ ~footer_skipped
    /\ pc # "linted" => diagnostics = {}
    /\ postscript # Missing =>
         postscript \in Postscripts /\ postscript_start \in Nat /\ postscript_start <= size

\* Why a footer was not parsed.
Unjudged ==
    pc \in {"rules", "linted"} /\ footer = Missing =>
      \/ errors # {}
      \/ footer_error
      \/ footer_skipped
      \/ /\ postscript # Missing
         /\ \/ postscript.footer = Missing
            \/ Opaque(postscript.footer)
            \/ ~RangeIsReadable(postscript.footer)

\* An opaque footer is never read.
OpaqueUnread ==
    postscript # Missing /\ postscript.footer # Missing /\ Opaque(postscript.footer) =>
      pc # "footer" /\ footer = Missing /\ ~footer_error /\ ~footer_skipped

JudgedInv == Parsed /\ Unjudged /\ OpaqueUnread /\ OpaqueNotMalformed /\ FooterExplained

LEMMA JudgedInit == Init => JudgedInv
BY DEF Init, JudgedInv, Parsed, Unjudged, OpaqueUnread, OpaqueNotMalformed, FooterExplained

-----------------------------------------------------------------------------
LEMMA ReportMade ==
    ASSUME NEW rule, NEW severity, NEW whats, NEW about, NEW w \in whats
    PROVE  \E d \in Report(rule, severity, whats, about) : d.rule = rule
<1> DEFINE d == [rule |-> rule, severity |-> severity, what |-> w, about |-> about]
<1>1. d \in Report(rule, severity, whats, about)
  BY DEF Report
<1>2. d.rule = rule
  OBVIOUS
<1> QED
  BY <1>1, <1>2

LEMMA ReportRule ==
    ASSUME NEW rule, NEW severity, NEW whats, NEW about, NEW d \in Report(rule, severity, whats, about)
    PROVE  d.rule = rule
BY DEF Report

LEMMA ErrorsMade ==
    ASSUME NEW rule, NEW issues, NEW i \in DOMAIN issues, NEW w \in issues[i]
    PROVE  \E d \in Errors(rule, issues) : d.rule = rule
<1>1. \E d \in Error(rule, issues[i], i) : d.rule = rule
  BY ReportMade DEF Error
<1>2. Error(rule, issues[i], i) \subseteq Errors(rule, issues)
  BY DEF Errors
<1> QED
  BY <1>1, <1>2

LEMMA ErrorsRule ==
    ASSUME NEW rule, NEW issues, NEW d \in Errors(rule, issues)
    PROVE  d.rule = rule
<1>1. PICK i \in DOMAIN issues : d \in Error(rule, issues[i], i)
  BY DEF Errors
<1> QED
  BY <1>1, ReportRule DEF Error

\* A locator that cannot be read is one that AL302 finds beyond the postscript.
LEMMA UnreadableExceeds ==
    ASSUME ReadsInv, Parsed, postscript # Missing, postscript.footer # Missing,
           ~RangeIsReadable(postscript.footer)
    PROVE  "exceeds the boundary" \in SegmentIssues(postscript.footer, postscript_start)
<1> DEFINE s == postscript.footer
<1>1. s.offset \in Nat /\ s.length \in Nat
  BY FooterLocator DEF Parsed
<1>2. s.offset + s.length \in Nat
  BY <1>1
<1>3. s.offset + s.length >= Word \/ s.offset + s.length > postscript_start
  <2>1. CASE ~(s.offset + s.length <= size)
    BY <2>1, <1>2 DEF Parsed, ReadsInv, Located
  <2>2. CASE ~(s.offset + s.length < Word)
    <3>1. Word \in Int
      <4>1. s \in Segment /\ s.offset \in 0..(Word - 1)
        BY FooterLocator DEF Parsed, Segment
      <4> QED
        BY WordAssumption DEF Word
    <3> QED
      BY <2>2, <3>1, <1>2
  <2> QED
    BY <2>1, <2>2 DEF RangeIsReadable
<1> QED
  BY <1>3 DEF SegmentIssues, If

LEMMA CheckRulesExplains ==
    ASSUME ReadsInv, JudgedInv, CheckRules
    PROVE  FooterExplained'
<1> SUFFICES ASSUME footer = Missing
             PROVE  \E d \in diagnostics' : d.rule \in {"AL301", "AL302", "AL304", "AL306"}
  BY DEF FooterExplained, CheckRules, metadata
<1>1. /\ InvalidContainer \subseteq diagnostics'
      /\ InvalidFooterSegments \subseteq diagnostics'
      /\ postscript # Missing => InvalidPostscriptSegments \subseteq diagnostics'
      /\ postscript # Missing => IncompatibleCompression \subseteq diagnostics'
  BY DEF CheckRules, PostscriptRules
<1>2. CASE errors # {}
  <2>1. PICK e \in errors : TRUE
    BY <1>2
  <2>2. \E d \in InvalidContainer : d.rule = "AL301"
    BY <2>1, ReportMade DEF InvalidContainer, Error
  <2> QED
    BY <1>1, <2>2
<1>3. CASE footer_error
  <2>1. \E d \in InvalidFooterSegments : d.rule = "AL304"
    <3>1. "invalid footer" \in If(footer_error, "invalid footer")
      BY <1>3 DEF If
    <3>2. \E d \in Error("AL304", If(footer_error, "invalid footer"), 0) : d.rule = "AL304"
      BY <3>1, ReportMade DEF Error
    <3> QED
      BY <3>2 DEF InvalidFooterSegments
  <2> QED
    BY <1>1, <2>1
<1>4. CASE footer_skipped
  <2>1. \E d \in InvalidFooterSegments : d.rule = "AL304"
    <3>1. "footer skipped" \in If(footer_skipped, "footer skipped")
      BY <1>4 DEF If
    <3>2. \E d \in Info("AL304", If(footer_skipped, "footer skipped")) : d.rule = "AL304"
      BY <3>1, ReportMade DEF Info
    <3> QED
      BY <3>2 DEF InvalidFooterSegments
  <2> QED
    BY <1>1, <2>1
<1>5. CASE postscript # Missing /\ postscript.footer = Missing
  <2> DEFINE issues == [p \in {"layout", "footer"} |-> If(postscript[p] = Missing, "missing")]
  <2>1. "footer" \in DOMAIN issues /\ "missing" \in issues["footer"]
    BY <1>5 DEF If
  <2>2. \E d \in Errors("AL302", issues) : d.rule = "AL302"
    BY <2>1, ErrorsMade
  <2>3. Errors("AL302", issues) \subseteq InvalidPostscriptSegments
    BY DEF InvalidPostscriptSegments
  <2> QED
    BY <1>1, <1>5, <2>2, <2>3
<1>6. CASE postscript # Missing /\ postscript.footer # Missing /\ Opaque(postscript.footer)
  <2> DEFINE skipped == If(postscript.footer # Missing /\ footer = Missing /\ Opaque(postscript.footer),
                           "footer opaque")
  <2>1. \E d \in IncompatibleCompression : d.rule = "AL306"
    <3>1. "footer opaque" \in skipped
      BY <1>6 DEF If
    <3>2. \E d \in Info("AL306", skipped) : d.rule = "AL306"
      BY <3>1, ReportMade DEF Info
    <3>3. Info("AL306", skipped) \subseteq IncompatibleCompression
      BY Zenon DEF IncompatibleCompression
    <3> QED
      BY <3>2, <3>3
  <2> QED
    BY <1>1, <1>6, <2>1
<1>7. CASE postscript # Missing /\ postscript.footer # Missing /\ ~RangeIsReadable(postscript.footer)
  <2> DEFINE issues == [p \in PresentParts |-> SegmentIssues(postscript[p], postscript_start)]
  <2>1. "footer" \in DOMAIN issues /\ "exceeds the boundary" \in issues["footer"]
    BY <1>7, UnreadableExceeds DEF JudgedInv, PresentParts, Parts
  <2>2. \E d \in Errors("AL302", issues) : d.rule = "AL302"
    BY <2>1, ErrorsMade
  <2>3. Errors("AL302", issues) \subseteq InvalidPostscriptSegments
    BY DEF InvalidPostscriptSegments
  <2> QED
    BY <1>1, <1>7, <2>2, <2>3
<1> QED
  BY <1>2, <1>3, <1>4, <1>5, <1>6, <1>7 DEF JudgedInv, Unjudged, CheckRules

LEMMA CheckRulesSparesOpaque ==
    ASSUME JudgedInv, CheckRules
    PROVE  OpaqueNotMalformed'
<1> SUFFICES ASSUME postscript # Missing, postscript.footer # Missing, Opaque(postscript.footer),
                    NEW d \in diagnostics'
             PROVE  d.rule \notin {"AL304", "AL305"}
  BY DEF OpaqueNotMalformed, CheckRules, metadata, JudgedInv, OpaqueUnread
<1>1. footer = Missing /\ ~footer_error /\ ~footer_skipped
  BY DEF JudgedInv, OpaqueUnread
<1>2. InvalidFooterSegments = {}
  BY <1>1 DEF InvalidFooterSegments, Error, Info, Report, If
<1>3. d \in InvalidContainer \/ d \in PostscriptRules
  BY <1>1, <1>2 DEF CheckRules
<1>4. CASE d \in InvalidContainer
  BY <1>4, ReportRule DEF InvalidContainer, Error
<1>5. CASE d \in InvalidPostscriptSegments
  BY <1>5, ErrorsRule DEF InvalidPostscriptSegments
<1>6. CASE d \in InvalidUserMetadata
  BY <1>6, ReportRule, ErrorsRule DEF InvalidUserMetadata, Error
<1>7. CASE d \in IncompatibleCompression
  BY <1>1, <1>7, ReportRule, ErrorsRule DEF IncompatibleCompression, PartSchemes, Info
<1>8. CASE d \in MissingOptimizationMetadata
  BY <1>8, ReportRule DEF MissingOptimizationMetadata, Info
<1> QED
  BY <1>3, <1>4, <1>5, <1>6, <1>7, <1>8 DEF PostscriptRules

LEMMA JudgedNext == ReadsInv /\ JudgedInv /\ [Next]_vars => JudgedInv'
<1> SUFFICES ASSUME ReadsInv, JudgedInv, [Next]_vars PROVE JudgedInv'
  OBVIOUS
<1> USE DEF JudgedInv
<1>1. CASE TooSmall
  BY <1>1 DEF TooSmall, Parsed, Unjudged, OpaqueUnread, OpaqueNotMalformed, FooterExplained
<1>2. CASE ReadHead
  BY <1>2 DEF ReadHead, Parsed, Unjudged, OpaqueUnread, OpaqueNotMalformed, FooterExplained
<1>3. CASE ReadEof
  <2>1. pc' = "rules" => errors' # {}
    BY <1>3 DEF ReadEof, EofErrors, If
  <2> QED
    BY <1>3, <2>1 DEF ReadEof, Parsed, Unjudged, OpaqueUnread, OpaqueNotMalformed, FooterExplained
<1>4. CASE ReadPostscript
  <2>1. postscript_start \in Nat /\ postscript_start <= size
    <3>1. eof.length \in Nat
      BY <1>4, LengthAssumption DEF ReadPostscript, ReadsInv, Located, Eof
    <3>2. postscript_start = size - EofSize - eof.length /\ postscript_start \in Nat /\ size \in Nat
      BY <1>4 DEF ReadPostscript, ReadsInv, Located
    <3> QED
      BY <3>1, <3>2 DEF EofSize
  <2>2. footer' = Missing /\ ~footer_error' /\ diagnostics' = {}
    BY <1>4 DEF ReadPostscript, Parsed
  <2>3. CASE postscript' \in Postscripts
    <3>1. postscript' # Missing /\ (postscript'.footer # Missing => postscript'.footer.length \in Nat)
      BY <2>3, FooterLocator, MissingAssumption
    <3>2. Parsed'
      BY <1>4, <2>1, <2>2, <2>3 DEF ReadPostscript, Parsed
    <3>3. Unjudged'
      <4>0. /\ footer_skipped' = (Inspectable(postscript'.footer) /\ postscript'.footer.length > MaxFooter)
            /\ pc' = IF Inspectable(postscript'.footer) /\ postscript'.footer.length <= MaxFooter
                     THEN "footer" ELSE "rules"
        BY <1>4, <3>1 DEF ReadPostscript, Parsed
      <4>1. pc' = "rules" /\ ~footer_skipped' => ~Inspectable(postscript'.footer)
        <5>1. Inspectable(postscript'.footer) =>
                postscript'.footer.length <= MaxFooter \/ postscript'.footer.length > MaxFooter
          BY <3>1, LimitsAssumption DEF Inspectable
        <5>2. pc' = "rules" => ~(Inspectable(postscript'.footer) /\ postscript'.footer.length <= MaxFooter)
          BY <4>0
        <5> QED
          BY <4>0, <5>1, <5>2, Zenon
      <4>2. pc' \in {"rules", "footer"} /\ size' = size
        BY <1>4 DEF ReadPostscript
      <4> QED
        BY <3>1, <4>1, <4>2 DEF Unjudged, Inspectable, RangeIsReadable, Opaque
    <3>4. OpaqueUnread'
      BY <1>4, <2>2, <3>1, MissingAssumption DEF ReadPostscript, Parsed, OpaqueUnread, Inspectable
    <3> QED
      BY <1>4, <2>2, <3>2, <3>3, <3>4 DEF ReadPostscript, OpaqueNotMalformed, FooterExplained
  <2>4. CASE errors' = errors \cup {"invalid postscript"} /\ pc' = "rules" /\ UNCHANGED <<postscript, footer_skipped>>
    BY <1>4, <2>2, <2>4 DEF ReadPostscript, Parsed, Unjudged, OpaqueUnread, OpaqueNotMalformed, FooterExplained
  <2> QED
    BY <1>4, <2>3, <2>4 DEF ReadPostscript
<1>5. CASE ReadFooter
  <2>1. footer' # Missing \/ footer_error'
    BY <1>5, MissingAssumption DEF ReadFooter
  <2>2. ~(postscript # Missing /\ postscript.footer # Missing /\ Opaque(postscript.footer))
    BY <1>5 DEF ReadFooter, OpaqueUnread
  <2> QED
    BY <1>5, <2>1, <2>2 DEF ReadFooter, Parsed, Unjudged, OpaqueUnread, OpaqueNotMalformed, FooterExplained
<1>6. CASE ReadFails
  BY <1>6 DEF ReadFails, metadata, Parsed, Unjudged, OpaqueUnread, OpaqueNotMalformed, FooterExplained
<1>7. CASE CheckRules
  <2>1. Parsed' /\ Unjudged' /\ OpaqueUnread'
    BY <1>7 DEF CheckRules, metadata, Parsed, Unjudged, OpaqueUnread, Opaque, RangeIsReadable
  <2> QED
    BY <1>7, <2>1, CheckRulesExplains, CheckRulesSparesOpaque
<1>8. CASE Shrink
  BY <1>8 DEF Shrink, metadata, Parsed, Unjudged, OpaqueUnread, OpaqueNotMalformed, FooterExplained
<1>9. CASE UNCHANGED vars
  BY <1>9 DEF vars, metadata, Parsed, Unjudged, OpaqueUnread, OpaqueNotMalformed, FooterExplained,
              Opaque, RangeIsReadable
<1> QED
  BY <1>1, <1>2, <1>3, <1>4, <1>5, <1>6, <1>7, <1>8, <1>9 DEF Next

\* AL301, AL302, AL304 and AL306 together explain every footer that the inspector did
\* not parse, for every file.
THEOREM FooterExplainedCorrect == Spec => []FooterExplained
<1>1. JudgedInv => FooterExplained
  BY DEF JudgedInv
<1> QED
  BY ReadsInit, ReadsNext, JudgedInit, JudgedNext, <1>1, PTL DEF Spec

\* A compressed or encrypted footer is never read and never reported as malformed, for
\* every file.
THEOREM OpaqueNotMalformedCorrect == Spec => []OpaqueNotMalformed
<1>1. JudgedInv => OpaqueNotMalformed
  BY DEF JudgedInv
<1> QED
  BY ReadsInit, ReadsNext, JudgedInit, JudgedNext, <1>1, PTL DEF Spec

-----------------------------------------------------------------------------
LEMMA TypeInit == Init => TypeOK
BY DEF Init, TypeOK, Optional

LEMMA TypeNext == TypeOK /\ [Next]_vars => TypeOK'
<1> SUFFICES ASSUME TypeOK, [Next]_vars PROVE TypeOK'
  OBVIOUS
<1>1. CASE TooSmall
  BY <1>1 DEF TooSmall, TypeOK
<1>2. CASE ReadHead
  BY <1>2 DEF ReadHead, TypeOK
<1>3. CASE ReadEof
  <2>1. eof' \in Eof /\ eof'.length \in Nat /\ size \in Nat
    BY <1>3, LengthAssumption, SizesAreNat DEF ReadEof, Eof, TypeOK
  <2>2. postscript_start' \in Optional(Nat)
    BY <1>3, <2>1 DEF ReadEof, Start, EofSize, Optional
  <2>3. /\ pc' \in {"rules", "postscript"}
        /\ UNCHANGED <<size, disk, head, postscript, footer, footer_error, footer_skipped>>
    BY <1>3 DEF ReadEof
  <2> QED
    BY <2>1, <2>2, <2>3 DEF TypeOK, Optional
<1>4. CASE ReadPostscript
  <2>1. postscript' \in Optional(Postscripts)
    BY <1>4 DEF ReadPostscript, TypeOK, Optional
  <2>2. footer_skipped' \in BOOLEAN
    <3>1. footer_skipped' = footer_skipped
            \/ footer_skipped' = (Inspectable(postscript'.footer)
                                   /\ postscript'.footer.length > MaxFooter)
      BY <1>4 DEF ReadPostscript
    <3> QED
      BY <3>1, Zenon DEF TypeOK
  <2>3. /\ pc' \in {"rules", "footer"}
        /\ UNCHANGED <<size, disk, head, eof, postscript_start, footer, footer_error>>
    BY <1>4 DEF ReadPostscript
  <2> QED
    BY <1>4, <2>1, <2>2, <2>3 DEF TypeOK
<1>5. CASE ReadFooter
  <2>1. footer' \in Optional(Footers)
    BY <1>5 DEF ReadFooter, TypeOK, Optional
  <2> QED
    BY <1>5, <2>1 DEF ReadFooter, TypeOK
<1>6. CASE ReadFails
  BY <1>6 DEF ReadFails, metadata, TypeOK
<1>7. CASE CheckRules
  BY <1>7 DEF CheckRules, metadata, TypeOK
<1>8. CASE Shrink
  BY <1>8 DEF Shrink, metadata, TypeOK
<1>9. CASE UNCHANGED vars
  BY <1>9 DEF vars, metadata, TypeOK
<1> QED
  BY <1>1, <1>2, <1>3, <1>4, <1>5, <1>6, <1>7, <1>8, <1>9 DEF Next

\* Every field of the inspected metadata has its type, for every file.
THEOREM TypeCorrect == Spec => []TypeOK
BY TypeInit, TypeNext, PTL DEF Spec

-----------------------------------------------------------------------------
(* What the reports of the rules say.                                      *)

ErrorFree(set) == \A d \in set : d.severity # "error"

LEMMA ErrorFreeUnion ==
    ASSUME NEW a, NEW b
    PROVE  ErrorFree(a \cup b) <=> ErrorFree(a) /\ ErrorFree(b)
BY DEF ErrorFree

LEMMA ErrorFreeError ==
    ASSUME NEW rule, NEW whats, NEW about
    PROVE  ErrorFree(Error(rule, whats, about)) <=> whats = {}
<1>1. ASSUME NEW w \in whats PROVE ~ErrorFree(Error(rule, whats, about))
  <2> DEFINE d == [rule |-> rule, severity |-> "error", what |-> w, about |-> about]
  <2>1. d \in Error(rule, whats, about)
    BY DEF Error, Report
  <2>2. d.severity = "error"
    OBVIOUS
  <2> QED
    BY <2>1, <2>2 DEF ErrorFree
<1>2. whats = {} => ErrorFree(Error(rule, whats, about))
  BY DEF ErrorFree, Error, Report
<1> QED
  BY <1>1, <1>2

LEMMA ErrorFreeErrors ==
    ASSUME NEW rule, NEW issues
    PROVE  ErrorFree(Errors(rule, issues)) <=> \A i \in DOMAIN issues : issues[i] = {}
<1>1. ErrorFree(Errors(rule, issues))
        <=> \A i \in DOMAIN issues : ErrorFree(Error(rule, issues[i], i))
  BY DEF ErrorFree, Errors
<1> QED
  BY <1>1, ErrorFreeError

LEMMA ErrorFreeInfo ==
    ASSUME NEW rule, NEW whats
    PROVE  ErrorFree(Info(rule, whats))
BY DEF ErrorFree, Info, Report

LEMMA IfEmpty ==
    ASSUME NEW condition, NEW error
    PROVE  If(condition, error) = {} <=> ~condition
BY DEF If

-----------------------------------------------------------------------------
(* The issues of one locator, key, identifier or scheme.                   *)

LEMMA AlignedIsMultiple ==
    ASSUME NEW x \in Nat, NEW d \in Int, d > 0
    PROVE  x % d = 0 <=> \E k \in 0..x : x = k * d
<1>1. ASSUME x % d = 0 PROVE \E k \in 0..x : x = k * d
  <2>1. x \div d \in 0..x
    OBVIOUS
  <2>2. x = (x \div d) * d
    BY <1>1
  <2> QED
    BY <2>1, <2>2
<1>2. ASSUME NEW k \in 0..x, x = k * d PROVE x % d = 0
  BY <1>2
<1> QED
  BY <1>1, <1>2

\* segment_issues finds none exactly in what lies between the magic and the boundary, at
\* a multiple of its alignment; its checked_add loses nothing.
LEMMA IssuesUnlessPlaced ==
    ASSUME NEW s, s.offset \in Nat, s.length \in Nat, s.alignment \in Nat,
           NEW boundary \in 0..(Word - 1)
    PROVE  SegmentIssues(s, boundary) = {} <=> Placed(s, boundary)
<1>1. SegmentIssues(s, boundary) = {} <=>
        /\ ~(s.offset < 4)
        /\ ~(s.offset + s.length >= Word \/ s.offset + s.length > boundary)
        /\ ~(s.alignment >= WordBits)
        /\ ~(s.alignment < WordBits /\ s.offset % 2 ^ s.alignment # 0)
  BY IfEmpty DEF SegmentIssues
<1>2. Word \in Int
  BY WordAssumption DEF Word
<1>3. ~(s.offset + s.length >= Word \/ s.offset + s.length > boundary)
        <=> s.length <= boundary - s.offset
  BY <1>2
<1>4. ASSUME s.alignment < WordBits
      PROVE  s.offset % 2 ^ s.alignment = 0
               <=> \E k \in 0..s.offset : s.offset = k * 2 ^ s.alignment
  <2>1. 2 ^ s.alignment \in Int /\ 2 ^ s.alignment > 0
    BY <1>4, PowersAssumption, WordAssumption
  <2> QED
    BY <2>1, AlignedIsMultiple
<1>5. s.offset \in 4..boundary /\ s.length <= boundary - s.offset
        <=> ~(s.offset < 4) /\ s.length <= boundary - s.offset
  OBVIOUS
<1>6. s.alignment < WordBits <=> ~(s.alignment >= WordBits)
  BY WordAssumption
<1> QED
  BY <1>1, <1>3, <1>4, <1>5, <1>6 DEF Placed

\* A value that none before it equals, for every position.
LEMMA NoneBefore ==
    ASSUME NEW n \in Nat, NEW f
    PROVE  (\A i \in 1..n : ~\E j \in 1..(i - 1) : f[j] = f[i])
             <=> \A i, j \in 1..n : f[i] = f[j] => i = j
<1>1. ASSUME \A i \in 1..n : ~\E j \in 1..(i - 1) : f[j] = f[i],
             NEW i \in 1..n, NEW j \in 1..n, f[i] = f[j]
      PROVE  i = j
  <2>1. i \notin 1..(j - 1) /\ j \notin 1..(i - 1)
    BY <1>1
  <2> QED
    BY <2>1
<1>2. ASSUME \A i, j \in 1..n : f[i] = f[j] => i = j,
             NEW i \in 1..n, NEW j \in 1..(i - 1), f[j] = f[i]
      PROVE  FALSE
  <2>1. j \in 1..n
    OBVIOUS
  <2> QED
    BY <1>2, <2>1
<1> QED
  BY <1>1, <1>2

LEMMA SchemeIssueUnlessKnown ==
    ASSUME NEW scheme \in Optional(Nat)
    PROVE  SchemeIssue(scheme) = {} <=> scheme \in Optional(0..3)
<1>1. SchemeIssue(scheme) = {} <=> ~(scheme # Missing /\ scheme > 3)
  BY IfEmpty DEF SchemeIssue
<1> QED
  BY <1>1, MissingAssumption DEF Optional

-----------------------------------------------------------------------------
\* A nonempty set of natural numbers has a least element.
NatLess == {p \in Nat \X Nat : p[1] < p[2]}

LEMMA NatLessWellFounded == IsWellFoundedOn(NatLess, Nat)
BY NatLessThanWellFounded DEF OpToRel, NatLess

LEMMA LeastElement ==
    ASSUME NEW T, T \subseteq Nat, T # {}
    PROVE  \E x \in T : \A y \in T : x <= y
<1>1. PICK x \in T : \A y \in T : ~(<<y, x>> \in NatLess)
  BY NatLessWellFounded, WFMin
<1>2. ASSUME NEW y \in T PROVE x <= y
  <2>1. ~(y < x)
    BY <1>1 DEF NatLess
  <2> QED
    BY <2>1
<1> QED
  BY <1>2

\* Neighbours in order make a sequence in order.
LEMMA NeighboursOrdered ==
    ASSUME NEW n \in Nat, NEW f, \A i \in 1..n : f[i] \in Nat,
           \A i \in 1..n : i > 1 => f[i - 1] <= f[i],
           NEW i \in 1..n, NEW j \in 1..n, i < j
    PROVE  f[i] <= f[j]
<1> DEFINE T == {k \in 1..n : i < k /\ f[k] < f[i]}
<1> SUFFICES ASSUME T # {} PROVE FALSE
  OBVIOUS
<1>1. T \subseteq Nat
  OBVIOUS
<1>2. PICK k \in T : \A l \in T : k <= l
  <2> HIDE DEF T
  <2> QED
    BY <1>1, LeastElement
<1>3. k \in 1..n /\ i < k /\ f[k] < f[i]
  OBVIOUS
<1>4. k - 1 \in 1..n /\ f[k - 1] <= f[k]
  BY <1>3
<1>5. k - 1 \notin T
  <2>1. k - 1 < k
    BY <1>3
  <2> QED
    BY <1>2, <1>3, <2>1
<1>6. CASE k - 1 = i
  BY <1>3, <1>4, <1>6
<1>7. CASE k - 1 # i
  <2>1. i < k - 1
    BY <1>3, <1>7
  <2>2. ~(f[k - 1] < f[i])
    BY <1>4, <1>5, <2>1
  <2>3. f[k - 1] \in Nat /\ f[k] \in Nat /\ f[i] \in Nat
    BY <1>3, <1>4
  <2> QED
    BY <1>3, <1>4, <2>2, <2>3
<1> QED
  BY <1>6, <1>7

-----------------------------------------------------------------------------
(* The verdict of each rule.                                               *)

\* How far the envelope was found right, and where the postscript is.
Enveloped ==
    /\ pc = "eof" => size >= 12 /\ (errors = {} <=> head)
    /\ pc = "postscript" \/ postscript # Missing =>
         /\ size >= 12 /\ eof \in Eof
         /\ postscript_start = size - EofSize - eof.length /\ postscript_start >= 4
    /\ pc = "postscript" =>
         (errors = {} <=> head /\ eof.magic /\ eof.version = Version /\ eof.length <= MaxPostscript)
    /\ pc \in {"footer", "rules", "linted"} => (errors = {} <=> SoundEnvelope)
    /\ footer # Missing => postscript # Missing

\* What the verdict may rely on once the postscript is there.
Judged == TypeOK /\ Enveloped /\ postscript # Missing

LEMMA Boundaries ==
    ASSUME Judged
    PROVE  /\ postscript \in Postscript
           /\ size \in 0..(Word - 1)
           /\ postscript_start = size - EofSize - eof.length
           /\ postscript_start \in 0..(Word - 1)
<1>1. postscript \in Postscript
  BY ParsedAssumption DEF Judged, TypeOK, Optional
<1>2. size \in 0..(Word - 1)
  BY SizesAssumption DEF Judged, TypeOK
<1>3. eof.length \in Nat
  BY LengthAssumption DEF Judged, Enveloped, Eof
<1>4. Word \in Int
  BY WordAssumption DEF Word
<1> QED
  BY <1>1, <1>2, <1>3, <1>4 DEF Judged, Enveloped, EofSize

LEMMA SegmentFields ==
    ASSUME NEW s \in Segment
    PROVE  s.offset \in Nat /\ s.length \in Nat /\ s.alignment \in Nat
             /\ s.scheme \in Optional(Nat)
BY DEF Segment, Optional

LEMMA PartSegment ==
    ASSUME Judged, NEW p \in PresentParts
    PROVE  postscript[p] \in Segment
<1>1. postscript[p] # Missing /\ p \in Parts
  BY DEF PresentParts
<1>2. postscript[p] \in Optional(Segment)
  BY <1>1, Boundaries DEF Postscript, Parts
<1> QED
  BY <1>1, <1>2 DEF Optional

LEMMA ElementTyped ==
    ASSUME NEW S, NEW s \in Seq(S)
    PROVE  /\ Len(s) \in Nat /\ DOMAIN s = 1..Len(s)
           /\ \A i \in 1..Len(s) : s[i] \in S
OBVIOUS

LEMMA JudgePostscriptSegments ==
    ASSUME Judged
    PROVE  ErrorFree(InvalidPostscriptSegments) <=>
             /\ {"layout", "footer"} \subseteq PresentParts
             /\ \A p \in PresentParts : Placed(postscript[p], size - EofSize - eof.length)
<1> DEFINE required == [p \in {"layout", "footer"} |-> If(postscript[p] = Missing, "missing")]
           placed == [p \in PresentParts |-> SegmentIssues(postscript[p], postscript_start)]
<1>1. ErrorFree(Errors("AL302", required)) <=> {"layout", "footer"} \subseteq PresentParts
  <2>1. ErrorFree(Errors("AL302", required))
          <=> \A p \in {"layout", "footer"} : If(postscript[p] = Missing, "missing") = {}
    BY ErrorFreeErrors
  <2> QED
    BY <2>1, IfEmpty DEF PresentParts, Parts
<1>2. ErrorFree(Errors("AL302", placed))
        <=> \A p \in PresentParts : Placed(postscript[p], size - EofSize - eof.length)
  <2>1. ErrorFree(Errors("AL302", placed))
          <=> \A p \in PresentParts : SegmentIssues(postscript[p], postscript_start) = {}
    BY ErrorFreeErrors
  <2>2. ASSUME NEW p \in PresentParts
        PROVE  SegmentIssues(postscript[p], postscript_start) = {}
                 <=> Placed(postscript[p], size - EofSize - eof.length)
    <3>1. postscript[p].offset \in Nat /\ postscript[p].length \in Nat
            /\ postscript[p].alignment \in Nat
      BY PartSegment, SegmentFields
    <3> QED
      BY <3>1, Boundaries, IssuesUnlessPlaced
  <2> QED
    BY <2>1, <2>2
<1>3. InvalidPostscriptSegments = Errors("AL302", required) \cup Errors("AL302", placed)
  BY Zenon DEF InvalidPostscriptSegments
<1> QED
  BY <1>1, <1>2, <1>3, ErrorFreeUnion

LEMMA JudgeKey ==
    ASSUME NEW n \in Nat, NEW entries, \A i \in 1..n : entries[i].key \in Optional(Keys)
    PROVE  (\A i \in 1..n : KeyIssue(entries, i) = {}) <=>
             \A i \in 1..n : /\ entries[i].key # Missing
                              /\ KeyBytes[entries[i].key] \in 1..MaxKeyBytes
                              /\ \A j \in 1..n : entries[i].key = entries[j].key => i = j
<1> DEFINE key == [i \in 1..n |-> entries[i].key]
           valid(i) == key[i] # Missing /\ KeyBytes[key[i]] \in 1..MaxKeyBytes
<1>1. ASSUME NEW i \in 1..n
      PROVE  KeyIssue(entries, i) = {} <=> valid(i) /\ ~\E j \in 1..(i - 1) : key[j] = key[i]
  <2>1. \A j \in 1..(i - 1) : j \in 1..n
    OBVIOUS
  <2>2. key[i] # Missing => KeyBytes[key[i]] \in Nat
    BY KeysAssumption DEF Optional
  <2>3. valid(i) <=> key[i] # Missing /\ KeyBytes[key[i]] # 0 /\ ~(KeyBytes[key[i]] > MaxKeyBytes)
    BY <2>2, LimitsAssumption
  <2>4. (\E j \in 1..(i - 1) : entries[j].key = entries[i].key)
          <=> \E j \in 1..(i - 1) : key[j] = key[i]
    BY <2>1
  <2>5. If(\E j \in 1..(i - 1) : entries[j].key = entries[i].key, "key duplicated") = {}
          <=> ~\E j \in 1..(i - 1) : key[j] = key[i]
    BY <2>4, IfEmpty
  <2> HIDE DEF valid
  <2> QED
    BY <2>3, <2>5 DEF KeyIssue
<1>2. (\A i \in 1..n : ~\E j \in 1..(i - 1) : key[j] = key[i])
        <=> \A i, j \in 1..n : key[i] = key[j] => i = j
  <2> HIDE DEF key
  <2> QED
    BY NoneBefore
<1>3. (\A i \in 1..n : KeyIssue(entries, i) = {})
        <=> (\A i \in 1..n : valid(i)) /\ \A i, j \in 1..n : key[i] = key[j] => i = j
  <2> HIDE DEF key, valid
  <2> QED
    BY <1>1, <1>2
<1> QED
  BY <1>3

LEMMA JudgeUserMetadata ==
    ASSUME Judged
    PROVE  ErrorFree(InvalidUserMetadata) <=>
             LET entries == postscript.metadata IN
             /\ Len(entries) <= MaxEntries
             /\ Distinct([i \in DOMAIN entries |-> entries[i].key])
             /\ \A i \in DOMAIN entries :
                  /\ entries[i].key # Missing /\ KeyBytes[entries[i].key] \in 1..MaxKeyBytes
                  /\ entries[i].segment # Missing /\ Placed(entries[i].segment, size)
<1> DEFINE entries == postscript.metadata
           n == Len(entries)
           issues == [i \in DOMAIN entries |->
                        KeyIssue(entries, i) \cup EntrySegmentIssues(entries[i].segment)]
<1>1. entries \in Seq([key: Optional(Keys), segment: Optional(Segment)])
  BY Boundaries DEF Postscript
<1>2. n \in Nat /\ DOMAIN entries = 1..n
  BY <1>1
<1>3. \A i \in 1..n : entries[i] \in [key: Optional(Keys), segment: Optional(Segment)]
  <2> HIDE DEF entries
  <2> QED
    BY <1>1, ElementTyped
<1>4. \A i \in 1..n : entries[i].key \in Optional(Keys) /\ entries[i].segment \in Optional(Segment)
  BY <1>3
<1>5. ErrorFree(Error("AL303", If(n > MaxEntries, "too many entries"), 0)) <=> n <= MaxEntries
  <2>1. ErrorFree(Error("AL303", If(n > MaxEntries, "too many entries"), 0)) <=> ~(n > MaxEntries)
    BY ErrorFreeError, IfEmpty
  <2>2. ~(n > MaxEntries) <=> n <= MaxEntries
    BY <1>2, LimitsAssumption
  <2> HIDE DEF n
  <2> QED
    BY <2>1, <2>2
<1>6. ASSUME NEW i \in 1..n
      PROVE  EntrySegmentIssues(entries[i].segment) = {}
               <=> entries[i].segment # Missing /\ Placed(entries[i].segment, size)
  <2>1. CASE entries[i].segment = Missing
    BY <2>1 DEF EntrySegmentIssues
  <2>2. CASE entries[i].segment # Missing
    <3>1. entries[i].segment \in Segment
      BY <1>4, <2>2 DEF Optional
    <3> QED
      BY <2>2, <3>1, SegmentFields, Boundaries, IssuesUnlessPlaced DEF EntrySegmentIssues
  <2> QED
    BY <2>1, <2>2
<1>7. ErrorFree(Errors("AL303", issues)) <=>
        /\ \A i \in 1..n : KeyIssue(entries, i) = {}
        /\ \A i \in 1..n : EntrySegmentIssues(entries[i].segment) = {}
  <2>1. ErrorFree(Errors("AL303", issues)) <=> \A i \in DOMAIN issues : issues[i] = {}
    BY ErrorFreeErrors
  <2> QED
    BY <1>2, <2>1
<1>8. (\A i \in 1..n : KeyIssue(entries, i) = {}) <=>
        \A i \in 1..n : /\ entries[i].key # Missing
                         /\ KeyBytes[entries[i].key] \in 1..MaxKeyBytes
                         /\ \A j \in 1..n : entries[i].key = entries[j].key => i = j
  <2> HIDE DEF n, entries
  <2> QED
    BY <1>2, <1>4, JudgeKey
<1>9. Distinct([i \in DOMAIN entries |-> entries[i].key])
        <=> \A i, j \in 1..n : entries[i].key = entries[j].key => i = j
  BY <1>2 DEF Distinct
<1>10. ErrorFree(InvalidUserMetadata)
         <=> /\ ErrorFree(Error("AL303", If(n > MaxEntries, "too many entries"), 0))
             /\ ErrorFree(Errors("AL303", issues))
  <2>1. InvalidUserMetadata =
          Error("AL303", If(n > MaxEntries, "too many entries"), 0) \cup Errors("AL303", issues)
    BY Zenon DEF InvalidUserMetadata
  <2> QED
    BY <2>1, ErrorFreeUnion
<1> HIDE DEF n, issues
<1> QED
  BY <1>2, <1>5, <1>6, <1>7, <1>8, <1>9, <1>10 DEF n

LEMMA JudgeFooterSegments ==
    ASSUME Judged, footer # Missing, NEW specs, specs = footer.segments
    PROVE  ErrorFree(FooterSegmentIssues(specs)) <=>
             /\ specs # Missing
             /\ \A i, j \in DOMAIN specs : i < j => specs[i].offset <= specs[j].offset
             /\ \A i \in DOMAIN specs : Placed(specs[i], size)
<1> DEFINE S == [offset: 0..(Word - 1), length: Nat, alignment: Nat]
           issues == [i \in DOMAIN specs |->
                        If(Unordered(specs, i), "unordered") \cup SegmentIssues(specs[i], size)]
<1>1. CASE specs = Missing
  <2>1. ~ErrorFree(Error("AL304", {"registry missing"}, 0))
    BY ErrorFreeError
  <2> QED
    BY <1>1, <2>1 DEF FooterSegmentIssues
<1>2. CASE specs # Missing
  <2>1. specs \in Seq(S)
    <3>1. footer \in Footer
      BY ParsedAssumption DEF Judged, TypeOK, Optional
    <3> QED
      BY <1>2, <3>1 DEF Footer, Optional
  <2> DEFINE n == Len(specs)
  <2>2. n \in Nat /\ DOMAIN specs = 1..n /\ \A i \in 1..n : specs[i] \in S
    <3> HIDE DEF S
    <3> QED
      BY <2>1, ElementTyped
  <2>3. ASSUME NEW i \in 1..n
        PROVE  specs[i].offset \in Nat /\ specs[i].length \in Nat /\ specs[i].alignment \in Nat
    <3>1. specs[i] \in S
      BY <2>2
    <3> QED
      BY <3>1
  <2> HIDE DEF n, S
  <2>4. ErrorFree(Errors("AL304", issues)) <=>
          /\ \A i \in 1..n : ~Unordered(specs, i)
          /\ \A i \in 1..n : Placed(specs[i], size)
    <3>1. ErrorFree(Errors("AL304", issues)) <=> \A i \in DOMAIN issues : issues[i] = {}
      BY ErrorFreeErrors
    <3>2. ASSUME NEW i \in 1..n
          PROVE  issues[i] = {} <=> ~Unordered(specs, i) /\ Placed(specs[i], size)
      <4>1. If(Unordered(specs, i), "unordered") = {} <=> ~Unordered(specs, i)
        BY IfEmpty
      <4>2. SegmentIssues(specs[i], size) = {} <=> Placed(specs[i], size)
        BY <2>3, Boundaries, IssuesUnlessPlaced
      <4> QED
        BY <2>2, <4>1, <4>2
    <3> QED
      BY <2>2, <3>1, <3>2
  <2>5. (\A i \in 1..n : ~Unordered(specs, i))
          <=> \A i, j \in 1..n : i < j => specs[i].offset <= specs[j].offset
    <3> DEFINE f == [i \in 1..n |-> specs[i].offset]
    <3>0. \A i \in 1..n : f[i] \in Nat
      BY <2>3
    <3>1. ASSUME \A i \in 1..n : ~Unordered(specs, i), NEW i \in 1..n, NEW j \in 1..n, i < j
          PROVE  specs[i].offset <= specs[j].offset
      <4>1. ASSUME NEW k \in 1..n, k > 1 PROVE f[k - 1] <= f[k]
        <5>1. ~(specs[k].offset < specs[k - 1].offset)
          BY <3>1, <4>1 DEF Unordered
        <5>2. k - 1 \in 1..n
          BY <2>2, <4>1
        <5> QED
          BY <2>3, <5>1, <5>2
      <4>2. f[i] <= f[j]
        <5> HIDE DEF f
        <5> QED
          BY <2>2, <3>0, <3>1, <4>1, NeighboursOrdered
      <4> QED
        BY <4>2
    <3>2. ASSUME \A i, j \in 1..n : i < j => specs[i].offset <= specs[j].offset,
                 NEW i \in 1..n
          PROVE  ~Unordered(specs, i)
      <4>1. ASSUME i > 1 PROVE specs[i - 1].offset <= specs[i].offset
        <5>1. i - 1 \in 1..n /\ i - 1 < i
          BY <2>2, <4>1
        <5> QED
          BY <3>2, <5>1
      <4>2. i > 1 => specs[i - 1].offset \in Nat /\ specs[i].offset \in Nat
        <5>1. i > 1 => i - 1 \in 1..n
          BY <2>2
        <5> QED
          BY <2>3, <5>1
      <4> QED
        BY <4>1, <4>2 DEF Unordered
    <3> QED
      BY <3>1, <3>2
  <2>6. FooterSegmentIssues(specs) = Errors("AL304", issues)
    BY <1>2, Zenon DEF FooterSegmentIssues
  <2> HIDE DEF issues
  <2> QED
    BY <1>2, <2>2, <2>4, <2>5, <2>6
<1> QED
  BY <1>1, <1>2

LEMMA JudgeIdentifiers ==
    ASSUME NEW ids \in Seq(Optional(STRING))
    PROVE  ErrorFree(Errors("AL305", [i \in DOMAIN ids |-> IdentifierIssue(ids, i)])) <=>
             Distinct(ids) /\ \A i \in DOMAIN ids : ids[i] \notin {Missing, ""}
<1> DEFINE n == Len(ids)
           valid(i) == ids[i] \notin {Missing, ""}
<1>1. n \in Nat /\ DOMAIN ids = 1..n
  BY ElementTyped
<1>2. ErrorFree(Errors("AL305", [i \in DOMAIN ids |-> IdentifierIssue(ids, i)]))
        <=> \A i \in 1..n : IdentifierIssue(ids, i) = {}
  BY <1>1, ErrorFreeErrors
<1>3. ASSUME NEW i \in 1..n
      PROVE  IdentifierIssue(ids, i) = {} <=> valid(i) /\ ~\E j \in 1..(i - 1) : ids[j] = ids[i]
  BY IfEmpty DEF IdentifierIssue
<1>4. (\A i \in 1..n : ~\E j \in 1..(i - 1) : ids[j] = ids[i])
        <=> \A i, j \in 1..n : ids[i] = ids[j] => i = j
  BY <1>1, NoneBefore
<1> HIDE DEF n, valid
<1>5. (\A i \in 1..n : IdentifierIssue(ids, i) = {})
        <=> (\A i \in 1..n : valid(i)) /\ \A i, j \in 1..n : ids[i] = ids[j] => i = j
  BY <1>3, <1>4
<1> QED
  BY <1>1, <1>2, <1>5 DEF Distinct, valid

LEMMA JudgeRegistrySchemes ==
    ASSUME NEW schemes \in Seq(Nat)
    PROVE  ErrorFree(RegistrySchemes(schemes)) <=>
             Len(schemes) <= MaxSchemes /\ \A i \in DOMAIN schemes : schemes[i] \in 0..3
<1> DEFINE many == If(Len(schemes) > MaxSchemes, "too many schemes")
           issues == [i \in DOMAIN schemes |-> SchemeIssue(schemes[i])]
<1>1. /\ Len(schemes) \in Nat
      /\ \A i \in DOMAIN schemes : schemes[i] \in Nat
  BY ElementTyped
<1>2. ErrorFree(Error("AL306", many, 0)) <=> Len(schemes) <= MaxSchemes
  <2>1. many = {} <=> ~(Len(schemes) > MaxSchemes)
    BY IfEmpty
  <2>2. ~(Len(schemes) > MaxSchemes) <=> Len(schemes) <= MaxSchemes
    BY <1>1, LimitsAssumption
  <2> HIDE DEF many
  <2> QED
    BY <2>1, <2>2, ErrorFreeError
<1>3. ErrorFree(Errors("AL306", issues)) <=> \A i \in DOMAIN schemes : schemes[i] \in 0..3
  <2>1. ErrorFree(Errors("AL306", issues)) <=> \A i \in DOMAIN schemes : SchemeIssue(schemes[i]) = {}
    BY ErrorFreeErrors
  <2>2. ASSUME NEW i \in DOMAIN schemes
        PROVE  SchemeIssue(schemes[i]) = {} <=> schemes[i] \in 0..3
    <3>1. schemes[i] \in Optional(Nat) /\ schemes[i] # Missing
      BY <1>1, MissingAssumption DEF Optional
    <3> QED
      BY <3>1, SchemeIssueUnlessKnown DEF Optional
  <2> QED
    BY <2>1, <2>2
<1>4. RegistrySchemes(schemes) =
        Error("AL306", many, 0) \cup Errors("AL306", issues)
  BY Zenon DEF RegistrySchemes
<1> HIDE DEF many, issues
<1> QED
  BY <1>2, <1>3, <1>4, ErrorFreeUnion

LEMMA JudgeCompression ==
    ASSUME Judged
    PROVE  ErrorFree(IncompatibleCompression) <=>
             /\ \A p \in PresentParts : postscript[p].scheme \in Optional(0..3)
             /\ footer # Missing => ErrorFree(RegistrySchemes(footer.schemes))
<1> DEFINE opaque == If(postscript.footer # Missing /\ footer = Missing /\ Opaque(postscript.footer),
                        "footer opaque")
           registry == IF footer = Missing THEN {} ELSE RegistrySchemes(footer.schemes)
<1>1. ErrorFree(PartSchemes) <=> \A p \in PresentParts : postscript[p].scheme \in Optional(0..3)
  <2>1. ErrorFree(PartSchemes) <=> \A p \in PresentParts : SchemeIssue(postscript[p].scheme) = {}
    BY ErrorFreeErrors DEF PartSchemes
  <2>2. ASSUME NEW p \in PresentParts
        PROVE  SchemeIssue(postscript[p].scheme) = {} <=> postscript[p].scheme \in Optional(0..3)
    BY PartSegment, SegmentFields, SchemeIssueUnlessKnown
  <2> QED
    BY <2>1, <2>2
<1>2. ErrorFree(Info("AL306", opaque))
  BY ErrorFreeInfo
<1>3. ErrorFree(registry) <=> (footer # Missing => ErrorFree(RegistrySchemes(footer.schemes)))
  BY DEF ErrorFree
<1>4. IncompatibleCompression = PartSchemes \cup Info("AL306", opaque) \cup registry
  BY Zenon DEF IncompatibleCompression
<1> HIDE DEF opaque, registry
<1> QED
  BY <1>1, <1>2, <1>3, <1>4, ErrorFreeUnion

LEMMA CheckRulesJudges ==
    ASSUME TypeOK, Enveloped, CheckRules
    PROVE  Verdict'
<1> SUFFICES ErrorFree(diagnostics') <=>
               /\ SoundEnvelope
               /\ SoundPostscript
               /\ ~footer_error
               /\ footer # Missing => SoundFooter
  <2>1. UNCHANGED <<size, metadata>> /\ pc' = "linted"
    BY DEF CheckRules
  <2>2. /\ SoundEnvelope' <=> SoundEnvelope
        /\ SoundPostscript' <=> SoundPostscript
        /\ SoundFooter' <=> SoundFooter
    BY <2>1, Zenon DEF metadata, SoundEnvelope, SoundPostscript, SoundFooter, PresentParts
  <2> QED
    BY <2>1, <2>2 DEF Verdict, metadata, ErrorFree
<1> DEFINE rules == IF postscript = Missing THEN {} ELSE PostscriptRules
           registries == IF footer = Missing THEN {} ELSE InvalidRegistries
<1>1. diagnostics' = InvalidContainer \cup InvalidFooterSegments \cup rules \cup registries
  BY DEF CheckRules
<1>2. ErrorFree(InvalidContainer) <=> SoundEnvelope
  <2>1. ErrorFree(InvalidContainer) <=> errors = {}
    BY ErrorFreeError DEF InvalidContainer
  <2> QED
    BY <2>1 DEF CheckRules, Enveloped
<1>3. CASE ~SoundEnvelope
  BY <1>1, <1>2, <1>3 DEF ErrorFree
<1>4. CASE SoundEnvelope
  <2>1. Judged
    BY <1>4 DEF SoundEnvelope, Judged
  <2>2. postscript # Missing
    BY <2>1 DEF Judged
  <2>3. ErrorFree(InvalidFooterSegments) <=>
          /\ ~footer_error
          /\ footer # Missing => ErrorFree(FooterSegmentIssues(footer.segments))
    <3> DEFINE invalid == Error("AL304", If(footer_error, "invalid footer"), 0)
               skipped == Info("AL304", If(footer_skipped, "footer skipped"))
               content == IF footer = Missing THEN {} ELSE FooterSegmentIssues(footer.segments)
    <3>1. ErrorFree(invalid) <=> ~footer_error
      BY ErrorFreeError, IfEmpty
    <3>2. ErrorFree(skipped)
      BY ErrorFreeInfo
    <3>3. ErrorFree(content) <=> (footer # Missing => ErrorFree(FooterSegmentIssues(footer.segments)))
      BY DEF ErrorFree
    <3>4. InvalidFooterSegments = invalid \cup skipped \cup content
      BY Zenon DEF InvalidFooterSegments
    <3> HIDE DEF invalid, skipped, content
    <3> QED
      BY <3>1, <3>2, <3>3, <3>4, ErrorFreeUnion
  <2>4. ErrorFree(rules) <=>
          /\ SoundPostscript
          /\ footer # Missing => ErrorFree(RegistrySchemes(footer.schemes))
    <3>1. ErrorFree(MissingOptimizationMetadata)
      BY ErrorFreeInfo DEF MissingOptimizationMetadata
    <3>2. ErrorFree(rules) <=> /\ ErrorFree(InvalidPostscriptSegments)
                               /\ ErrorFree(InvalidUserMetadata)
                               /\ ErrorFree(IncompatibleCompression)
      <4>1. rules = InvalidPostscriptSegments \cup InvalidUserMetadata
                      \cup IncompatibleCompression \cup MissingOptimizationMetadata
        BY <2>2 DEF PostscriptRules
      <4> HIDE DEF rules
      <4> QED
        BY <3>1, <4>1, ErrorFreeUnion
    <3> HIDE DEF rules
    <3> QED
      BY <2>1, <3>2, JudgePostscriptSegments, JudgeUserMetadata, JudgeCompression DEF SoundPostscript
  <2>5. ErrorFree(registries) <=>
          (footer # Missing =>
             \A ids \in {footer.arrays, footer.layouts} :
               Distinct(ids) /\ \A i \in DOMAIN ids : ids[i] \notin {Missing, ""})
    <3>1. CASE footer = Missing
      BY <3>1 DEF ErrorFree
    <3>2. CASE footer # Missing
      <4>1. footer \in Footer
        BY <3>2, ParsedAssumption DEF TypeOK, Optional
      <4>2. footer.arrays \in Seq(Optional(STRING)) /\ footer.layouts \in Seq(Optional(STRING))
        BY <4>1 DEF Footer
      <4> DEFINE arrays == Errors("AL305", [i \in DOMAIN footer.arrays |-> IdentifierIssue(footer.arrays, i)])
                 layouts == Errors("AL305", [i \in DOMAIN footer.layouts |-> IdentifierIssue(footer.layouts, i)])
      <4>3. /\ ErrorFree(arrays) <=> Distinct(footer.arrays)
                   /\ \A i \in DOMAIN footer.arrays : footer.arrays[i] \notin {Missing, ""}
            /\ ErrorFree(layouts) <=> Distinct(footer.layouts)
                   /\ \A i \in DOMAIN footer.layouts : footer.layouts[i] \notin {Missing, ""}
        BY <4>2, JudgeIdentifiers
      <4>4. registries = arrays \cup layouts
        BY <3>2, Zenon DEF InvalidRegistries
      <4> HIDE DEF arrays, layouts, registries
      <4> QED
        BY <3>2, <4>3, <4>4, ErrorFreeUnion
    <3> QED
      BY <3>1, <3>2
  <2>6. footer # Missing =>
          (SoundFooter <=>
             /\ ErrorFree(FooterSegmentIssues(footer.segments))
             /\ ErrorFree(RegistrySchemes(footer.schemes))
             /\ \A ids \in {footer.arrays, footer.layouts} :
                  Distinct(ids) /\ \A i \in DOMAIN ids : ids[i] \notin {Missing, ""})
    <3> SUFFICES ASSUME footer # Missing
                 PROVE  SoundFooter <=>
             /\ ErrorFree(FooterSegmentIssues(footer.segments))
             /\ ErrorFree(RegistrySchemes(footer.schemes))
             /\ \A ids \in {footer.arrays, footer.layouts} :
                  Distinct(ids) /\ \A i \in DOMAIN ids : ids[i] \notin {Missing, ""}
      OBVIOUS
    <3>1. footer.schemes \in Seq(Nat)
      BY ParsedAssumption DEF TypeOK, Optional, Footer
    <3>2. ErrorFree(RegistrySchemes(footer.schemes)) <=>
            Len(footer.schemes) <= MaxSchemes
              /\ \A i \in DOMAIN footer.schemes : footer.schemes[i] \in 0..3
      BY <3>1, JudgeRegistrySchemes
    <3>3. ErrorFree(FooterSegmentIssues(footer.segments)) <=>
             /\ footer.segments # Missing
             /\ \A i, j \in DOMAIN footer.segments :
                  i < j => footer.segments[i].offset <= footer.segments[j].offset
             /\ \A i \in DOMAIN footer.segments : Placed(footer.segments[i], size)
      BY <2>1, JudgeFooterSegments
    <3> QED
      BY <3>2, <3>3, Zenon DEF SoundFooter
  <2>7. ErrorFree(diagnostics') <=>
          /\ ErrorFree(InvalidContainer) /\ ErrorFree(InvalidFooterSegments)
          /\ ErrorFree(rules) /\ ErrorFree(registries)
    <3> HIDE DEF rules, registries
    <3> QED
      BY <1>1, ErrorFreeUnion
  <2> HIDE DEF rules, registries
  <2> QED
    BY <1>2, <1>4, <2>3, <2>4, <2>5, <2>6, <2>7, Zenon
<1> QED
  BY <1>3, <1>4

VerdictInv == Enveloped /\ Verdict

LEMMA VerdictInit == Init => VerdictInv
BY DEF Init, VerdictInv, Enveloped, Verdict

LEMMA VerdictNext == TypeOK /\ ReadsInv /\ JudgedInv /\ VerdictInv /\ [Next]_vars => VerdictInv'
<1> SUFFICES ASSUME TypeOK, ReadsInv, JudgedInv, VerdictInv, [Next]_vars PROVE VerdictInv'
  OBVIOUS
<1> USE DEF VerdictInv
<1>0. /\ pc \in {"head", "eof", "postscript"} => postscript = Missing /\ footer = Missing
      /\ size \in Nat
  BY SizesAreNat DEF JudgedInv, Parsed, TypeOK
<1>1. CASE TooSmall
  BY <1>0, <1>1 DEF TooSmall, Enveloped, Verdict, SoundEnvelope
<1>2. CASE ReadHead
  BY <1>0, <1>2 DEF ReadHead, Enveloped, Verdict, If
<1>3. CASE ReadEof
  <2>1. eof' \in Eof /\ eof'.length \in Nat
    BY <1>3, LengthAssumption DEF ReadEof, Eof
  <2>2. /\ pc = "eof" /\ pc' \in {"rules", "postscript"}
        /\ UNCHANGED <<size, disk, head, postscript, footer, footer_error, footer_skipped>>
        /\ postscript_start' = Start(eof') /\ errors' = errors \cup EofErrors(eof')
    BY <1>3 DEF ReadEof
  <2>3. CASE pc' = "postscript"
    <3>1. /\ postscript_start' # Missing /\ ~(postscript_start' < 4)
          /\ postscript_start' = size - EofSize - eof'.length
      BY <1>3, <2>1, <2>2, <2>3 DEF ReadEof, Start
    <3>2. EofErrors(eof') = {} <=> eof'.magic /\ eof'.version = Version /\ ~(eof'.length > MaxPostscript)
      BY <2>2, <3>1, IfEmpty DEF EofErrors
    <3>3. errors' = {} <=> head' /\ eof'.magic /\ eof'.version = Version /\ eof'.length <= MaxPostscript
      BY <2>1, <2>2, <3>2, LimitsAssumption DEF Enveloped
    <3>4. postscript_start' >= 4
      BY <1>0, <2>1, <3>1 DEF EofSize
    <3> QED
      BY <1>0, <2>1, <2>2, <2>3, <3>1, <3>3, <3>4 DEF Enveloped, Verdict
  <2>4. CASE pc' = "rules"
    <3>1. errors' # {}
      BY <1>3, <2>4 DEF ReadEof, EofErrors, If
    <3> QED
      BY <1>0, <2>2, <2>4, <3>1 DEF Enveloped, Verdict, SoundEnvelope
  <2> QED
    BY <2>2, <2>3, <2>4
<1>4. CASE ReadPostscript
  <2>1. /\ pc = "postscript" /\ pc' \in {"rules", "footer"}
        /\ UNCHANGED <<size, disk, head, eof, postscript_start, footer, footer_error, diagnostics>>
    BY <1>4 DEF ReadPostscript
  <2>2. CASE postscript' \in Postscripts /\ UNCHANGED errors
    <3>1. postscript' # Missing
      BY <2>2, MissingAssumption
    <3>2. 4 + eof.length + EofSize <= size
      <4>1. eof.length \in Nat
        BY <2>1, LengthAssumption DEF Enveloped, Eof
      <4> QED
        BY <1>0, <2>1, <4>1 DEF Enveloped, EofSize
    <3> QED
      BY <1>0, <2>1, <2>2, <3>1, <3>2 DEF Enveloped, Verdict, SoundEnvelope
  <2>3. CASE errors' = errors \cup {"invalid postscript"} /\ UNCHANGED postscript
    BY <1>0, <2>1, <2>3 DEF Enveloped, Verdict, SoundEnvelope
  <2> QED
    BY <1>4, <2>2, <2>3 DEF ReadPostscript
<1>5. CASE ReadFooter
  <2>1. postscript # Missing
    BY <1>5, MissingAssumption DEF ReadFooter, ReadsInv, Located
  <2> QED
    BY <1>5, <2>1 DEF ReadFooter, Enveloped, Verdict, SoundEnvelope
<1>6. CASE ReadFails
  BY <1>6 DEF ReadFails, metadata, Enveloped, Verdict
<1>7. CASE CheckRules
  <2>1. Enveloped'
    BY <1>7 DEF CheckRules, metadata, Enveloped, SoundEnvelope
  <2> QED
    BY <1>7, <2>1, CheckRulesJudges
<1>8. CASE Shrink
  BY <1>8 DEF Shrink, metadata, Enveloped, Verdict, SoundEnvelope
<1>9. CASE UNCHANGED vars
  <2>1. Enveloped'
    BY <1>9 DEF vars, metadata, Enveloped, SoundEnvelope
  <2>2. /\ SoundEnvelope' <=> SoundEnvelope
        /\ SoundPostscript' <=> SoundPostscript
        /\ SoundFooter' <=> SoundFooter
    BY <1>9, Zenon DEF vars, metadata, SoundEnvelope, SoundPostscript, SoundFooter, PresentParts
  <2> QED
    BY <1>9, <2>1, <2>2 DEF vars, metadata, Verdict
<1> QED
  BY <1>1, <1>2, <1>3, <1>4, <1>5, <1>6, <1>7, <1>8, <1>9 DEF Next

\* AL301 to AL306 report an error exactly for a file that is not sound, for every file:
\* what the rules compute entry by entry, with checked additions, is the declarative
\* meaning of a Vortex container.
THEOREM VerdictCorrect == Spec => []Verdict
<1>1. VerdictInv => Verdict
  BY DEF VerdictInv
<1> QED
  BY TypeInit, TypeNext, ReadsInit, ReadsNext, JudgedInit, JudgedNext, VerdictInit, VerdictNext,
     <1>1, PTL DEF Spec

=============================================================================

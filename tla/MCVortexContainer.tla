------------------------- MODULE MCVortexContainer -------------------------
(* Words of six bits, files of up to 40 bytes, and locators that are right *)
(* or wrong in each way the rules tell apart.                              *)
EXTENDS VortexContainer

MCFileSizes == {11, 12, 32, 40}
MCPostscriptLengths == {0, 8, 18, 22}

At(offset, length, alignment) ==
    [offset |-> offset, length |-> length, alignment |-> alignment,
     scheme |-> Missing, encrypted |-> FALSE]

Good == At(8, 4, 2)
MCFooterSegments ==
    {Missing, Good, At(8, 0, 2), At(8, 16, 3), At(24, 12, 3), At(60, 8, 2),
     [Good EXCEPT !.scheme = 0], [Good EXCEPT !.scheme = 9], [Good EXCEPT !.encrypted = TRUE],
     [At(60, 8, 2) EXCEPT !.encrypted = TRUE]}

Entry(key, segment) == [key |-> key, segment |-> segment]

MCMetadata ==
    {<<>>,
     <<Entry("a", Good), Entry("b", At(36, 4, 2))>>,
     <<Entry("a", Good), Entry("b", Good), Entry("a", Missing)>>,
     <<Entry("empty", Good), Entry(Missing, At(60, 8, 2))>>,
     <<Entry("long", Good), Entry("b", Good)>>,
     <<Entry("a", Good), Entry("b", Good), Entry("c", Good), Entry("d", Good)>>}

MCPostscripts ==
    [dtype: {Good, Missing, At(9, 2, 1)}, layout: {Good, Missing, At(60, 8, 0)},
     statistics: {At(4, 4, 6), Missing}, footer: MCFooterSegments, metadata: MCMetadata]

Spec3(offset, length) == [offset |-> offset, length |-> length, alignment |-> 0]

MCFooters ==
    [segments: {Missing, <<>>, <<Spec3(4, 4), Spec3(4, 8), Spec3(12, 4)>>,
                <<Spec3(4, 4), Spec3(12, 4), Spec3(8, 4)>>, <<Spec3(60, 8)>>},
     arrays: {<<"x", "y">>, <<"x", "", "x">>}, layouts: {<<"x">>, <<Missing>>},
     schemes: {<<0, 3>>, <<4>>, <<1, 1, 1>>}]

MCKeyBytes == [a |-> 1, b |-> 1, c |-> 1, d |-> 1, empty |-> 0, long |-> 5]
=============================================================================

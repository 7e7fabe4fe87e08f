------------------------ MODULE MCStreamingDictation ------------------------
(* A plain speech, one that repeats itself and one with a courtesy.        *)
EXTENDS StreamingDictation

SomeSpeeches == {<<"a", "b", "c", "d", "e">>, <<"e", "e", "f">>, <<"thanks", "g">>}
=============================================================================

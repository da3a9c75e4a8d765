----------------------------- MODULE Algorithms -----------------------------
(***************************************************************************)
(* The pure algorithms side by side.  Each behaviour asks one of them: to  *)
(* edit, heal or patch a text, to patch or describe a JSON document, to    *)
(* create or read an archive, to page or cut output, to choose a model,   *)
(* or to say how a test run went.                                          *)
(***************************************************************************)
EXTENDS TextTools, JsonDoc, Containers, PagingTools, ModelChoice, TestReports

Init == TextInit \/ JsonInit \/ ContainersInit \/ PagingInit \/ ChoiceInit \/ TestsInit
Next == TextNext \/ JsonNext \/ ContainersNext \/ PagingNext \/ ChoiceNext \/ TestsNext
Spec == Init /\ [][Next]_asked

-----------------------------------------------------------------------------
(* An edit, a patch, and the healing of line endings after a rewrite,      *)
(* change what they are asked to and no other text or ending.              *)
(* (edit.ts:110-452, file-update.ts:60-230, text-eol.ts:79-222)            *)
TextsInPlace == EditsInPlace /\ PatchesInPlace /\ HealsEndingsOnly

(* A JSON document is patched as the standard says, where the code follows *)
(* it, and a comparison, a search, a schema or an outline describes it.    *)
(* (json/core.ts:196-694)                                                  *)
JsonAsStandard == PatchesAsStandard /\ DescribesDocument

(* A reader who follows the pages gets everything, once and in order, and  *)
(* a cut output says how much of it is missing.                            *)
(* (read.ts:84-381, truncate.ts:75-171, head-tail-buffer.ts:41-110)        *)
PagesComplete == ReadingOnGetsAll /\ CutIsAccounted
=============================================================================

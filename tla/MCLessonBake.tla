---------------------------- MODULE MCLessonBake ----------------------------
(***************************************************************************)
(* A lesson of four slots in two phases: text-questions, a match-up with   *)
(* two replacements, a slot with none, and one with a replacement the      *)
(* provider is asked for.  Two hosts stand in for each other, one of them  *)
(* asked in JSON mode; the reviewer has one attempt, as in the code.       *)
(***************************************************************************)
EXTENDS LessonBake, TLC

TwoPhases == 1 :> 1 @@ 2 :> 1 @@ 3 :> 2 @@ 4 :> 2
SomeSpares == 1 :> <<>> @@ 2 :> <<"built", "asked">> @@ 3 :> <<>> @@ 4 :> <<"asked">>
EachOther == "google-ais" :> "openrouter" @@ "openrouter" :> "google-ais"
FewAttempts == "google-ais" :> 2 @@ "openrouter" :> 1 @@ "reviewer" :> 1
=============================================================================

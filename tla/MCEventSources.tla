--------------------------- MODULE MCEventSources ---------------------------
(* Small instances of EventSources for TLC.                                *)
EXTENDS EventSources, TLC

\* The logs of a container are followed again and again by two sessions, the second one
\* of the old API; the first one also asks for a source with an argument that is refused.
SharedIdents == 1..4
SharedApp == <<"a", "b", "b", "a">>
SharedKey == <<"logs", "logs", "logs", "bad">>
SharedVerdict == ("logs" :> "valid") @@ ("bad" :> "invalid")

\* Two sessions share a source; one has an instance that failed before its task began.
FairIdents == 1..4
FairApp == <<"a", "b", "b", "a">>
FairKey == <<"tail", "tail", "tail", "raw">>
FairVerdict == ("tail" :> "valid") @@ ("raw" :> "raises")

\* One subscription.
One == 1..1
OneApp == <<"a">>
OneKey == <<"tail">>
OneVerdict == "tail" :> "valid"

=============================================================================

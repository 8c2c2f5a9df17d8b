--------------------------- MODULE MCSurveyUpload ---------------------------
(* Small instances of SurveyUpload. *)
EXTENDS SurveyUpload, TLC

MCSessionOf == [r \in Recordings |-> CHOOSE s \in Sessions : TRUE]
HandlerSymmetry == Permutations(Handlers)

=============================================================================

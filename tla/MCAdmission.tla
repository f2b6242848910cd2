---------------------------- MODULE MCAdmission ----------------------------
(* Small instances of Admission.                                            *)
EXTENDS Admission, TLC

CONSTANTS turn, other, patient, document, job, essay

\* Two chat turns that recur, a patient /v1 answer, a chat document, a patient
\* /v1 document, a pre-admitted /v1 long answer; one seat of each lane.
Everybody == {turn, other, patient, document, job, essay}
LanesOf == [r \in Everybody |->
            IF r \in {document, job} THEN "long" ELSE IF r = essay THEN "long_output" ELSE "normal"]
Origins == [r \in Everybody |-> IF r \in {turn, other, document} THEN "chat" ELSE "v1"]
PatientOnes == {patient, job, essay}
Essays == {essay}
Turns == {turn, other}
Seats == [l \in Lane |-> 1]
=============================================================================

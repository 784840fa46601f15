------------------------------ MODULE MCSwarm -------------------------------
(***************************************************************************)
(* The swarm of examples/claims-processing: an entry node, two branches, a *)
(* fan-in node and the approval gate.                                      *)
(***************************************************************************)
EXTENDS Swarm

CONSTANTS ingest, fraud, coverage, decision, approval, e1, e2, claim1, claim2, policy

ClaimsNodes == <<ingest, fraud, coverage, decision, approval>>

ClaimsDependsOn ==
  [n \in Range(ClaimsNodes) |->
     CASE n \in {fraud, coverage} -> <<ingest>>
       [] n = decision -> <<fraud, coverage>>
       [] n = approval -> <<decision>>
       [] OTHER -> <<>>]

\* Claims on one policy, each payload with a claim_id and a policy_id field.
TwoIdFields == [e \in Events |-> IF e = e1 THEN {claim1, policy} ELSE {claim2, policy}]

\* The example has the shape the theorems about the swarm ask for.
ASSUME ClaimsShape == EntryDAG
=============================================================================

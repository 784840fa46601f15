----------------------------- MODULE MCEnvelope -----------------------------
(***************************************************************************)
(* Every payload with the fields the code looks at and two *_id fields.    *)
(***************************************************************************)
EXTENDS Envelope

SuffixFields == {"claim_id", "policy_id"}
=============================================================================

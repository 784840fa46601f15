------------------------------ MODULE Envelope ------------------------------
(***************************************************************************)
(* The message format between nodes: how ConsumeClaim turns the bytes of a *)
(* record into an envelope (parseOrWrapEnvelope), how a payload from       *)
(* outside the swarm gets its correlation ID (newCorrelationID), and how   *)
(* publish encodes the envelope that the next node parses.  A record may   *)
(* be delivered again when the node crashes before its offset is committed.*)
(*                                                                         *)
(* A record is a JSON object given by its fields, or other content.  What  *)
(* matters of a field is whether it is absent, a non-empty string, the     *)
(* empty string, an object or anything else.                               *)
(***************************************************************************)
EXTENDS Integers

CONSTANTS
  Ids,            \* non-empty strings found in payloads
  SuffixKeys,     \* field names ending in _id, other than correlation_id
  NodeName,       \* the name this node publishes under
  Absent, Empty, Obj, Other,
  MaxDeliveries   \* bound on the deliveries of one record

VARIABLES
  raw,         \* the record in the input topic
  deliveries,  \* how often it was delivered
  env,         \* the envelope of the current delivery, or none
  first,       \* the correlation ID of the first delivery
  next         \* what the downstream node makes of the published record

vars == <<raw, deliveries, env, first, next>>

Fields == {"correlation_id", "id", "source", "data"} \cup SuffixKeys
Record == [json : {TRUE}, fields : [Fields -> Ids \cup {Absent, Empty, Obj, Other}]]
Bytes  == [json |-> FALSE, fields |-> [f \in Fields |-> Absent]]

\* The random ID minted for a delivery, and all non-empty strings.
RandomID(d) == <<"random", d>>
Strings     == Ids \cup {NodeName} \cup {RandomID(d) : d \in 1..MaxDeliveries}

ASSUME EnvelopeAssumption ==
  /\ Strings \cap {Absent, Empty, Obj, Other} = {}
  /\ SuffixKeys \cap {"correlation_id", "id", "source", "data"} = {}
  /\ MaxDeliveries \in Nat \ {0}

None == [corr |-> Absent, source |-> Absent]
Env  == [corr : Strings, source : Strings \cup {Empty}]

\* The record decodes into the envelope struct and both required fields are set.
IsEnvelope(r) ==
  /\ r.json
  /\ r.fields["correlation_id"] \in Strings
  /\ r.fields["source"] \in Strings \cup {Absent, Empty}
  /\ r.fields["data"] = Obj

\* Mutant of NewCorrelationID: every string field ending in _id counts the same.
AnyCorrelationID(r, d) ==
  LET found == {r.fields[k] : k \in SuffixKeys \cup {"correlation_id", "id"}} \cap Strings
  IN  IF found # {} THEN found ELSE {RandomID(d)}

\* Mutant of NewCorrelationID: an explicit ID may be the empty string.
EmptyCorrelationID(r, d) ==
  IF r.fields["correlation_id"] \in Strings \cup {Empty} THEN {r.fields["correlation_id"]}
  ELSE IF r.fields["id"] \in Strings \cup {Empty} THEN {r.fields["id"]}
  ELSE {RandomID(d)}

\* The IDs newCorrelationID may return: an explicit one, else any *_id field in
\* the order the map happens to be walked, else a random one.
NewCorrelationID(r, d) ==
  LET suffixed == {r.fields[k] : k \in SuffixKeys} \cap Strings
  IN  IF r.fields["correlation_id"] \in Strings THEN {r.fields["correlation_id"]}
      ELSE IF r.fields["id"] \in Strings THEN {r.fields["id"]}
      ELSE IF suffixed # {} THEN suffixed
      ELSE {RandomID(d)}

\* The envelopes parseOrWrapEnvelope may return.
ParseOrWrap(r, d) ==
  IF IsEnvelope(r)
  THEN {[corr   |-> r.fields["correlation_id"],
         source |-> IF r.fields["source"] = Absent THEN Empty ELSE r.fields["source"]]}
  ELSE {[corr |-> c, source |-> Empty] : c \in NewCorrelationID(r, d)}

\* Mutant of Encoded: empty data is left out of the message.
EncodedOmitEmpty(c) ==
  [json |-> TRUE, fields |-> [f \in Fields |-> CASE f = "correlation_id" -> c
                                                 [] f = "source" -> NodeName
                                                 [] OTHER -> Absent]]

\* The record publish sends.
Encoded(c) ==
  [json |-> TRUE, fields |-> [f \in Fields |-> CASE f = "correlation_id" -> c
                                                 [] f = "source" -> NodeName
                                                 [] f = "data" -> Obj
                                                 [] OTHER -> Absent]]

TypeOK ==
  /\ raw \in Record \cup {Bytes}
  /\ deliveries \in 0..MaxDeliveries
  /\ env \in Env \cup {None}
  /\ first \in Strings \cup {Absent}
  /\ next \in Env \cup {None}

Init ==
  /\ raw \in Record \cup {Bytes}
  /\ deliveries = 0
  /\ env = None
  /\ first = Absent
  /\ next = None

\* ConsumeClaim takes the record: for the first time, or again after a crash.
Deliver ==
  /\ deliveries < MaxDeliveries
  /\ deliveries' = deliveries + 1
  /\ env' \in ParseOrWrap(raw, deliveries')
  /\ first' = IF first = Absent THEN env'.corr ELSE first
  /\ next' = None
  /\ UNCHANGED raw

\* publish, and the downstream node's parse of what was sent.
Publish ==
  /\ env # None
  /\ next = None
  /\ next' \in ParseOrWrap(Encoded(env.corr), deliveries)
  /\ UNCHANGED <<raw, deliveries, env, first>>

Next == Deliver \/ Publish
Spec == Init /\ [][Next]_vars
-----------------------------------------------------------------------------
\* SurvivesHop: the downstream node recognises what this node publishes: it sees
\* the same correlation ID and this node as the source, and never wraps the
\* message anew, whatever the payload was that entered the swarm.
SurvivesHop == next # None => next = [corr |-> env.corr, source |-> NodeName]

\* ExplicitIdIsStable: a payload with a correlation_id or id of its own has the
\* same correlation ID each time it is delivered.
ExplicitIdIsStable ==
  env # None /\ {raw.fields["correlation_id"], raw.fields["id"]} \cap Ids # {} => env.corr = first
=============================================================================

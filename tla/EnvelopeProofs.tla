--------------------------- MODULE EnvelopeProofs ---------------------------
(***************************************************************************)
(* What holds of the message format for every set of IDs and field names   *)
(* and any number of redeliveries.                                         *)
(*                                                                         *)
(* EnvelopeInv adds to the properties what links a delivery to the first   *)
(* one: before it there is no first ID, and from then on an explicit ID of *)
(* the payload is both the first ID and the current one.                   *)
(***************************************************************************)
EXTENDS Envelope, TLAPS

\* The ID the payload brings: correlation_id where it is a string, else id.
Explicit ==
  IF raw.fields["correlation_id"] \in Ids THEN raw.fields["correlation_id"] ELSE raw.fields["id"]

HasExplicit == {raw.fields["correlation_id"], raw.fields["id"]} \cap Ids # {}

\* FirstIsExplicit: no delivery, no envelope and no ID; afterwards the payload's own
\* ID, if it has one, is the ID of the first and of the current delivery.
FirstIsExplicit ==
  /\ first = Absent <=> env = None
  /\ env # None /\ HasExplicit => env.corr = Explicit /\ first = Explicit

EnvelopeInv == TypeOK /\ FirstIsExplicit /\ SurvivesHop

-----------------------------------------------------------------------------
(***************************************************************************)
(* newCorrelationID and parseOrWrapEnvelope.                               *)
(***************************************************************************)

\* newCorrelationID never returns the empty string: what it returns is an ID.
LEMMA NewIdIsAString ==
  ASSUME NEW r, NEW d \in 1..MaxDeliveries
  PROVE  NewCorrelationID(r, d) \subseteq Strings
BY DEF NewCorrelationID, Strings

\* Whatever the payload, the result is an envelope with a correlation ID.
LEMMA ParseGivesEnvelope ==
  ASSUME NEW r, NEW d \in 1..MaxDeliveries
  PROVE  ParseOrWrap(r, d) \subseteq Env
<1> SUFFICES ASSUME NEW e \in ParseOrWrap(r, d) PROVE e \in Env
  OBVIOUS
<1>1. CASE IsEnvelope(r)
  BY <1>1 DEF ParseOrWrap, IsEnvelope, Env
<1>2. CASE ~IsEnvelope(r)
  BY <1>2, NewIdIsAString DEF ParseOrWrap, Env
<1> QED
  BY <1>1, <1>2

\* An envelope is never the missing one.
LEMMA EnvIsNotNone ==
  ASSUME NEW e \in Env
  PROVE  e.corr \in Strings /\ e.corr # Absent /\ e # None
BY EnvelopeAssumption DEF Env, None

\* What publish encodes is an envelope for the next node, which therefore keeps the
\* ID and sees this node as the source.
LEMMA HopKeepsId ==
  ASSUME NEW c \in Strings, NEW d
  PROVE  ParseOrWrap(Encoded(c), d) = {[corr |-> c, source |-> NodeName]}
<1> DEFINE r == Encoded(c)
<1>1. /\ r.json
      /\ r.fields["correlation_id"] = c
      /\ r.fields["source"] = NodeName
      /\ r.fields["data"] = Obj
  BY DEF Encoded, Fields
<1>2. NodeName \in Strings /\ NodeName # Absent
  BY EnvelopeAssumption DEF Strings
<1>3. IsEnvelope(r)
  BY <1>1, <1>2 DEF IsEnvelope
<1> HIDE DEF r
<1>4. ParseOrWrap(r, d) = {[corr |-> c, source |-> NodeName]}
  BY <1>1, <1>2, <1>3 DEF ParseOrWrap
<1> QED
  BY <1>4 DEF r

\* An explicit ID decides the outcome: neither the *_id fields nor the random ID
\* are looked at, whether the payload is an envelope already or is wrapped.
LEMMA ExplicitWins ==
  ASSUME raw \in Record \cup {Bytes}, HasExplicit, NEW d, NEW e \in ParseOrWrap(raw, d)
  PROVE  e.corr = Explicit
<1> DEFINE c == raw.fields["correlation_id"]
           i == raw.fields["id"]
<1>1. c \in Ids \cup {Absent, Empty, Obj, Other} /\ i \in Ids \cup {Absent, Empty, Obj, Other}
  <2>1. raw.fields \in [Fields -> Ids \cup {Absent, Empty, Obj, Other}]
    <3>1. CASE raw \in Record
      BY <3>1 DEF Record
    <3>2. CASE raw = Bytes
      BY <3>2 DEF Bytes
    <3> QED
      BY <3>1, <3>2
  <2> QED
    BY <2>1 DEF Fields
<1>2. (c \in Strings <=> c \in Ids) /\ (i \in Strings <=> i \in Ids)
  BY <1>1, EnvelopeAssumption DEF Strings
<1>3. c \in Ids \/ i \in Ids
  BY DEF HasExplicit
<1>4. NewCorrelationID(raw, d) = {Explicit}
  BY <1>2, <1>3 DEF NewCorrelationID, Explicit
<1>5. CASE IsEnvelope(raw)
  BY <1>2, <1>5 DEF IsEnvelope, ParseOrWrap, Explicit
<1>6. CASE ~IsEnvelope(raw)
  BY <1>4, <1>6 DEF ParseOrWrap
<1> QED
  BY <1>5, <1>6

-----------------------------------------------------------------------------
(***************************************************************************)
(* The invariant.                                                          *)
(***************************************************************************)

\* Before the first delivery there is neither an envelope nor an ID.
LEMMA EnvelopeInit == Init => EnvelopeInv
BY EnvelopeAssumption DEF Init, EnvelopeInv, TypeOK, FirstIsExplicit, SurvivesHop, None

\* A delivery, the first or a later one.
LEMMA DeliverKeeps == EnvelopeInv /\ Deliver => EnvelopeInv'
<1> SUFFICES ASSUME EnvelopeInv, Deliver PROVE EnvelopeInv'
  OBVIOUS
<1>1. deliveries' \in 1..MaxDeliveries /\ raw' = raw /\ next' = None
  BY EnvelopeAssumption DEF Deliver, EnvelopeInv, TypeOK
<1>2. env' \in ParseOrWrap(raw, deliveries')
  BY DEF Deliver
<1>3. env' \in Env
  BY <1>1, <1>2, ParseGivesEnvelope
<1>4. env'.corr \in Strings /\ env'.corr # Absent /\ env' # None
  BY <1>3, EnvIsNotNone
<1>5. first' = IF first = Absent THEN env'.corr ELSE first
  BY DEF Deliver
<1>6. TypeOK'
  BY <1>1, <1>3, <1>4, <1>5 DEF TypeOK, EnvelopeInv
<1>7. FirstIsExplicit'
  <2>1. first' # Absent
    BY <1>4, <1>5
  <2>2. Explicit' = Explicit /\ (HasExplicit' <=> HasExplicit)
    BY <1>1 DEF Explicit, HasExplicit
  <2>3. ASSUME HasExplicit PROVE env'.corr = Explicit
    BY <2>3, <1>2, ExplicitWins DEF EnvelopeInv, TypeOK
  <2>4. ASSUME HasExplicit PROVE first' = Explicit
    BY <2>3, <2>4, <1>5 DEF EnvelopeInv, FirstIsExplicit
  <2> QED
    BY <2>1, <2>2, <2>3, <2>4, <1>4 DEF FirstIsExplicit, None
<1>8. SurvivesHop'
  BY <1>1 DEF SurvivesHop, None
<1> QED
  BY <1>6, <1>7, <1>8 DEF EnvelopeInv

\* A publish, and the parse downstream.
LEMMA PublishKeeps == EnvelopeInv /\ Publish => EnvelopeInv'
<1> SUFFICES ASSUME EnvelopeInv, Publish PROVE EnvelopeInv'
  OBVIOUS
<1>1. env \in Env /\ UNCHANGED <<raw, deliveries, env, first>>
  BY DEF Publish, EnvelopeInv, TypeOK
<1>2. env.corr \in Strings
  BY <1>1, EnvIsNotNone
<1>3. next' = [corr |-> env.corr, source |-> NodeName]
  BY <1>2, HopKeepsId DEF Publish
<1>4. TypeOK'
  BY <1>1, <1>2, <1>3 DEF TypeOK, EnvelopeInv, Env, Strings
<1>5. FirstIsExplicit'
  BY <1>1 DEF FirstIsExplicit, EnvelopeInv, HasExplicit, Explicit, None
<1>6. SurvivesHop'
  BY <1>1, <1>3 DEF SurvivesHop
<1> QED
  BY <1>4, <1>5, <1>6 DEF EnvelopeInv

\* The inductive invariant holds throughout.
LEMMA EnvelopeAlways == Spec => []EnvelopeInv
<1>1. EnvelopeInv /\ UNCHANGED vars => EnvelopeInv'
  BY DEF EnvelopeInv, TypeOK, FirstIsExplicit, SurvivesHop, HasExplicit, Explicit, None, vars
<1>2. EnvelopeInv /\ [Next]_vars => EnvelopeInv'
  BY <1>1, DeliverKeeps, PublishKeeps DEF Next
<1> QED
  BY <1>2, EnvelopeInit, PTL DEF Spec

-----------------------------------------------------------------------------
\* TypeOK of Envelope: every record, JSON or not, becomes an envelope with a
\* non-empty correlation ID (parseOrWrapEnvelope has no error path).
THEOREM EnvelopeTypeCorrect == Spec => []TypeOK
BY EnvelopeAlways, PTL DEF EnvelopeInv

\* SurvivesHop: what publish sends is recognised downstream with the same ID, for
\* every payload that entered and every ID it was given.
THEOREM EveryHopKeepsTheId == Spec => []SurvivesHop
BY EnvelopeAlways, PTL DEF EnvelopeInv

\* ExplicitIdIsStable: newCorrelationID gives a payload with an ID of its own the
\* same one at every delivery, however often a crash has it delivered again.
THEOREM ExplicitIdsAreStable == Spec => []ExplicitIdIsStable
<1>1. EnvelopeInv => ExplicitIdIsStable
  BY DEF EnvelopeInv, FirstIsExplicit, ExplicitIdIsStable, HasExplicit
<1> QED
  BY <1>1, EnvelopeAlways, PTL
=============================================================================

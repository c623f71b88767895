------------------------------- MODULE Decoder -------------------------------
(***************************************************************************)
(* The strict decoder (internal/policy/decode.go): what Decode takes of the *)
(* input of an audit, and the document it makes of it.                     *)
(*                                                                         *)
(* An input is its size and the JSON values it holds; "broken" is where the *)
(* syntax ends.  An object is the sequence of its members, as written; other *)
(* values are atoms of the field they are written for: what they are read   *)
(* as, and the keys of each object inside them, as an array of workloads or *)
(* rules has (the objects of its entries, of their labels and selectors).   *)
(***************************************************************************)
EXTENDS Naturals, SequencesExt

CONSTANTS
  FieldOf,         \* the field encoding/json fills from a key, or "unknown"
  Absent,          \* the zero value of a text
  MaxInputBytes    \* 2 MiB

TopField == {"schema", "local", "stacks", "services", "workloads", "policy"}
PolicyField == {"default", "rules"}

ZeroConfig ==
  [schema |-> Absent, local |-> Absent, stacks |-> << >>, services |-> << >>,
   workloads |-> << >>, default |-> Absent, rules |-> << >>]

(* The document and its policy, and the keys of every object of the value.   *)
Objects(value) ==
  IF value.kind = "object"
  THEN {value} \cup {v \in {m.value : m \in ToSet(value.members)} : v.kind = "object"}
  ELSE {}

Keys(object) == [i \in DOMAIN object.members |-> object.members[i].key]

AtomsOf(object) == {v \in {m.value : m \in ToSet(object.members)} : v.kind = "atom"}

KeyLists(value) ==
  {Keys(object) : object \in Objects(value)}
    \cup UNION {atom.inside : atom \in UNION {AtomsOf(object) : object \in Objects(value)}}

\* Mutant of Scanned: the scan does not go into arrays.
ScannedButArrays(value) ==
  value.kind # "broken" /\ \A object \in Objects(value) : IsInjective(Keys(object))

(* rejectDuplicateFields, on the first value: keys are compared as written. *)
Scanned(value) ==
  value.kind # "broken" /\ \A keys \in KeyLists(value) : IsInjective(keys)

(* encoding/json with DisallowUnknownFields: a key is a field's in whatever *)
(* case it is written, and a later member overwrites an earlier one.        *)
Fits(members, fields) ==
  \A i \in DOMAIN members :
    LET field == FieldOf[members[i].key]
        value == members[i].value
    IN field \in fields /\ (IF field = "policy" THEN value.kind = "object"
                            ELSE value.kind = "atom" /\ value.of = field)

Given(members, field) == {i \in DOMAIN members : FieldOf[members[i].key] = field}

Decodable(value) ==
  IF value.kind # "object" THEN FALSE
  ELSE IF Fits(value.members, TopField)
  THEN \A i \in Given(value.members, "policy") : Fits(value.members[i].value.members, PolicyField)
  ELSE FALSE

(* What a field is left with; each "policy" is read into the same Policy.   *)
LastGiven(members, field) == members[Max(Given(members, field))].value

Decoded(value) ==
  [field \in DOMAIN ZeroConfig |->
     LET given == {i \in Given(value.members, "policy") :
                     Given(value.members[i].value.members, field) # {}}
     IN IF field \in PolicyField
        THEN IF given = {} THEN ZeroConfig[field]
             ELSE LastGiven(value.members[Max(given)].value.members, field).is
        ELSE IF Given(value.members, field) = {} THEN ZeroConfig[field]
             ELSE LastGiven(value.members, field).is]

(* Decode: one value, and nothing behind it.                               *)
InputAccepted(text) ==
  /\ text.size <= MaxInputBytes
  /\ Len(text.values) = 1
  /\ Scanned(text.values[1])
  /\ Decodable(text.values[1])
=============================================================================

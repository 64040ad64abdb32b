---------------------------- MODULE DocumentTypes ----------------------------
(***************************************************************************)
(* Which document types the platform accepts into its registry             *)
(* (document-registry.validation.ts).  A string that is blank or missing   *)
(* is "", and a path is the sequence of its segments, <<>> when it has     *)
(* none.  A limit is a number, Absent, or something that is no number.     *)
(***************************************************************************)
EXTENDS Integers, Sequences

CONSTANT Absent

Usable(s) == s # ""
HasSegments(path) == path # <<>>

Finite(n) == n = Absent \/ n \in Int
Size(n) == n = Absent \/ n \in Nat

ValidLimits(v) ==
    v # Absent =>
        /\ Finite(v.max) /\ Finite(v.min)
        /\ Size(v.maxLength) /\ Size(v.minLength) /\ Size(v.scale)
        /\ v.pattern = Absent \/ Usable(v.pattern)

ValidField(f) ==
    /\ Usable(f.id) /\ Usable(f.label) /\ HasSegments(f.path)
    /\ f.inputType \in {"code-list", "date", "number", "text"}
    /\ f.required \in {"true", "false", "missing"}
    /\ f.codeListKey = Absent \/ Usable(f.codeListKey)
    /\ ValidLimits(f.validation)

ValidSection(s) ==
    /\ Usable(s.id) /\ Usable(s.label) /\ HasSegments(s.path)
    /\ s.repeatable \in {"true", "false"}
    /\ s.fields # <<>> /\ \A i \in DOMAIN s.fields : ValidField(s.fields[i])

ValidDocumentType(file) ==
    /\ Usable(file.type) /\ Usable(file.label)
    /\ file.version \in Nat \ {0}
    /\ file.sections # <<>> /\ \A i \in DOMAIN file.sections : ValidSection(file.sections[i])
=============================================================================

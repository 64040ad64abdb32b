------------------------- MODULE MCCorrectionSessions -------------------------
(***************************************************************************)
(* Corrections, three machines side by side: a behaviour is of the calls   *)
(* on one session, of the payload of one session, or of the registry of    *)
(* document types; the variables of the others rest.                       *)
(***************************************************************************)
EXTENDS CorrectionSessions, TLC

CONSTANTS Absent, Junk

VARIABLES
    subject,                                                            \* which of the three
    config, source, draft, base, audit, view, fresh, last, commands,    \* CorrectionDocuments
    directory, registry, cache, requests, lookup                        \* DocumentRegistry

payloadVars == <<config, source, draft, base, audit, view, fresh, last, commands>>
typeVars == <<directory, registry, cache, requests, lookup>>
mcVars == <<subject, vars, payloadVars, typeVars>>

Symmetry == Permutations(Callers) \cup Permutations(Users)

-----------------------------------------------------------------------------
(* Document types: an invoice header, repeated lines whose fields are named *)
(* from the section or from the row, a list of tags, a reference by index; *)
(* and types that the platform refuses.                                    *)

F(id, path) ==
    [id |-> id, label |-> "label", path |-> path, inputType |-> "text", required |-> "missing",
     codeListKey |-> Absent, validation |-> Absent]

Section(id, path, repeatable, fields) ==
    [id |-> id, label |-> "label", path |-> path, repeatable |-> repeatable, fields |-> fields]

Number == F("invoice_number", <<"header", "number">>)
Header == Section("header", <<"header">>, "false", <<Number, F("supplier", <<"header", "party", "name">>)>>)
Lines == Section("lines", <<"lines">>, "true", <<F("amount", <<"lines", "amount">>), F("note", <<"note">>)>>)
Tags == Section("tags", <<"tags">>, "true", <<F("tag", <<"tags">>)>>)
References == Section("refs", <<"refs">>, "false", <<F("first", <<"refs", "0">>)>>)
Short == [Header EXCEPT !.fields = <<Number>>]

Limits(min, scale, pattern) ==
    [max |-> Absent, min |-> min, maxLength |-> 9, minLength |-> Absent, scale |-> scale,
     pattern |-> pattern]

Refused ==
    {[Short EXCEPT !.repeatable = "missing"], [Short EXCEPT !.fields = <<>>],
     [Short EXCEPT !.path = <<>>], [Short EXCEPT !.id = ""],
     [Short EXCEPT !.fields[1].path = <<>>], [Short EXCEPT !.fields[1].inputType = "colour"],
     [Short EXCEPT !.fields[1].codeListKey = ""],
     [Short EXCEPT !.fields[1].validation = Limits(0, -1, "pattern")],
     [Short EXCEPT !.fields[1].validation = Limits(Junk, 2, "pattern")],
     [Short EXCEPT !.fields[1].validation = Limits(0, 2, "")]}

MCConfigs ==
    {<<Header, Lines>>, <<Short, References>>, <<Tags>>} \cup {<<s>> : s \in Refused}
    \cup {<<[Short EXCEPT !.fields[1].validation = Limits(0, 2, "pattern")]>>}

(* Payloads: the older, flat shape, both shapes at once, null and missing  *)
(* ancestors, rows with an id, a lineId, the same id, or no names.         *)
Text(x) == <<"text", x>>
Object(f) == <<"object", f>>
Array(s) == <<"array", s>>

MCDocuments ==
    {Object("number" :> Text("1")),
     Object("invoice_number" :> Text("2") @@ "header" :> Text("old")),
     Object("header" :> Object("number" :> Text("1")) @@ "number" :> Text("2")),
     Object("header" :> Object("party" :> <<"null">>)),
     Object("header" :> Array(<<>>)),
     Object("name" :> Text("n") @@
            "lines" :> Array(<<Object("id" :> Text("a") @@ "amount" :> Text("1")),
                               Object("lineId" :> Text("b"))>>)),
     Object("lines" :> Array(<<Object("id" :> Text("a") @@ "amount" :> Text("1")),
                               Object("id" :> Text("a"))>>)),
     Object("refs" :> Array(<<>>) @@ "tags" :> Array(<<Text("u"), Object("id" :> Text("v"))>>))}

D == INSTANCE CorrectionDocuments
       WITH Configs <- MCConfigs, Documents <- MCDocuments,
            NewValues <- {<<"null">>, Text("x")}, MaxCommands <- 2

File(type, version, sections) ==
    [type |-> type, label |-> "label", version |-> version, sections |-> sections]

MCDirectories ==
    {<<File("invoice", 1, <<Short>>)>>,
     <<File("invoice", 2, <<Short>>), File("order", 1, <<Header, Lines>>)>>,
     <<File("invoice", 2, <<Short>>), File("invoice", 1, <<Short>>)>>,
     <<File("order", 0, <<Short>>)>>, <<>>}

G == INSTANCE DocumentRegistry
       WITH Directories <- MCDirectories, Calls <- Callers, call <- lookup, MaxRequests <- 3

-----------------------------------------------------------------------------
NoPayload ==
    /\ config = <<>> /\ source = <<>> /\ draft = <<>> /\ base = <<>> /\ audit = <<>>
    /\ view = {} /\ fresh = FALSE /\ last = <<>> /\ commands = 0
NoTypes ==
    /\ directory = <<>> /\ registry = <<>> /\ cache = <<>> /\ requests = <<>> /\ lookup = <<>>

MCInit ==
    /\ Init
    /\ \/ subject = "session" /\ NoPayload /\ NoTypes
       \/ subject = "payload" /\ D!Open /\ NoTypes
       \/ subject = "types" /\ NoPayload /\ G!RegistryInit

MCNext ==
    /\ UNCHANGED subject
    /\ \/ subject = "session" /\ Next /\ UNCHANGED <<payloadVars, typeVars>>
       \/ subject = "payload" /\ D!DocumentNext /\ UNCHANGED <<vars, typeVars>>
       \/ subject = "types" /\ G!RegistryNext /\ UNCHANGED <<vars, payloadVars>>

MCSpec == MCInit /\ [][MCNext]_mcVars

\* A draft is its base with exactly the edits the audit tells of, as
\* CorrectionDocuments states it.
EditsAreAudited == subject = "payload" => D!EditsAreExact /\ D!AuditIsTheHistory

\* Every type that the registry serves is one a payload can be read and edited by, and
\* all calls of one process share it.
TypesAreUsable ==
    /\ subject = "payload" => D!ShownIsEditable /\ D!ReadingSettles
    /\ subject = "types" => G!RegistryIsShared
=============================================================================

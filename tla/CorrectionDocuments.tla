------------------------- MODULE CorrectionDocuments -------------------------
(***************************************************************************)
(* What the gateway does to the payload of a correction session: payloads  *)
(* of the flat, older shape are rewritten to the shape of the document's   *)
(* type, the fields of the type are shown with their values, and edits of  *)
(* shown fields are merged into the draft, with an audit of each change.   *)
(* CorrectionSessions tells which of these calls are let through; here     *)
(* they come one after the other.                                          *)
(*                                                                         *)
(* A payload is a tree: <<"text", s>>, <<"null">>, <<"object", f>> with f  *)
(* from names to trees, or <<"array", s>>.  A path is the sequence of its  *)
(* segments, and a segment that is all digits is written "0", "1".         *)
(***************************************************************************)
EXTENDS DocumentTypes, SequencesExt, TLC

CONSTANTS
    Configs,      \* the sections of document types, the ones the platform refuses too
    Documents,    \* the payloads of the external store
    NewValues,    \* what users type
    MaxCommands   \* bound on submissions and saves

VARIABLES
    config,   \* the registry's configuration of the document's type
    source,   \* the source snapshot of the session
    draft,    \* its draft
    base,     \* the draft that the audit starts from: opened, or saved as a whole
    audit,    \* the audit entries since
    view,     \* the fields that the user is shown
    fresh,    \* no command has been answered since
    last,     \* the last submission: the fields shown, the edits, whether it was accepted
    commands

documentVars == <<config, source, draft, base, audit, view, fresh, last, commands>>

Undefined == <<"undefined">>
Null == <<"null">>
Rejected == <<"rejected">>   \* a BadRequestException

IsRecord(tree) == tree[1] = "object"
IsArray(tree) == tree[1] = "array"
Container(tree) == IsRecord(tree) \/ IsArray(tree)

ArrayIndex == "0" :> 1 @@ "1" :> 2 @@ "2" :> 3
IsArrayIndex(token) == token \in DOMAIN ArrayIndex

\* `current[token]`
Child(tree, token) ==
    IF IsArray(tree)
      THEN IF ArrayIndex[token] \in DOMAIN tree[2] THEN tree[2][ArrayIndex[token]] ELSE Undefined
      ELSE IF token \in DOMAIN tree[2] THEN tree[2][token] ELSE Undefined

RECURSIVE GetValueAtPath(_, _), SetValueAtPath(_, _, _)

GetValueAtPath(tree, path) ==
    IF path = <<>> THEN tree
    ELSE IF IsArray(tree) /\ ~IsArrayIndex(Head(path)) THEN Rejected
    ELSE IF ~Container(tree) THEN Undefined
    ELSE GetValueAtPath(Child(tree, Head(path)), Tail(path))

\* `current[token] = value`; an array is written at most one past its end.
Put(tree, token, value) ==
    IF IsArray(tree)
      THEN <<"array", [i \in 1..(IF ArrayIndex[token] > Len(tree[2]) THEN ArrayIndex[token]
                                 ELSE Len(tree[2])) |->
                         IF i = ArrayIndex[token] THEN value
                         ELSE IF i \in DOMAIN tree[2] THEN tree[2][i] ELSE Undefined]>>
      ELSE <<"object", (token :> value) @@ tree[2]>>

\* What a missing, null or scalar ancestor is replaced with: it depends on the next segment.
Parent(existing, next) ==
    IF Container(existing) THEN existing
    ELSE IF IsArrayIndex(next) THEN <<"array", <<>>>> ELSE <<"object", <<>>>>

SetValueAtPath(tree, path, value) ==
    IF path = <<>> \/ ~Container(tree) \/ (IsArray(tree) /\ ~IsArrayIndex(Head(path)))
      THEN Rejected
    ELSE IF Len(path) = 1 THEN Put(tree, Head(path), value)
    ELSE LET child == SetValueAtPath(Parent(Child(tree, Head(path)), path[2]), Tail(path), value)
         IN  IF child = Rejected THEN Rejected ELSE Put(tree, Head(path), child)

-----------------------------------------------------------------------------
(* The fields of a document. *)

\* resolveRowKey: the row's id, its lineId, its index.
ResolveRowKey(row, index) ==
    LET named == {k \in {"id", "lineId"} :
                    IsRecord(row) /\ k \in DOMAIN row[2] /\ row[2][k][1] = "text"
                    /\ row[2][k][2] # ""}
    IN  IF "id" \in named THEN row[2]["id"][2]
        ELSE IF "lineId" \in named THEN row[2]["lineId"][2] ELSE index

\* buildRepeatableFieldPath: a field's path may be the section's, extend it, or be
\* relative to the row.
BuildRepeatableFieldPath(section, field, index) ==
    Append(section.path, index) \o
        (IF IsPrefix(section.path, field.path)
           THEN SubSeq(field.path, Len(section.path) + 1, Len(field.path))
           ELSE field.path)

Targets(section, payload) ==
    LET rows == GetValueAtPath(payload, section.path)
        index(i) == CHOOSE token \in DOMAIN ArrayIndex : ArrayIndex[token] = i
        fieldsOfRow(i) ==
            [j \in DOMAIN section.fields |->
               [fieldId |-> <<section.id, ResolveRowKey(rows[2][i], index(i)), section.fields[j].id>>,
                path |-> BuildRepeatableFieldPath(section, section.fields[j], index(i))]]
    IN  IF section.repeatable = "false"
          THEN [j \in DOMAIN section.fields |->
                  [fieldId |-> <<section.id, section.fields[j].id>>,
                   path |-> section.fields[j].path]]
        ELSE IF ~IsArray(rows) THEN <<>>
        ELSE FlattenSeq([i \in DOMAIN rows[2] |-> fieldsOfRow(i)])

\* listConfiguredFieldTargets
ListConfiguredFieldTargets(payload) ==
    FlattenSeq([i \in DOMAIN config |-> Targets(config[i], payload)])

\* findLegacyFieldValue: under the last segment of the path, else under the field's id.
FindLegacyFieldValue(payload, field) ==
    LET named == Child(payload, Last(field.path))
    IN  IF named # Undefined THEN named ELSE Child(payload, field.id)

\* A bug for comparison: a cleared field counts as a missing one.
WhenNothingIsThere(payload, field) ==
    LET value == GetValueAtPath(payload, field.path)
        legacy == FindLegacyFieldValue(payload, field)
    IN  IF payload = Rejected \/ value = Rejected THEN Rejected
        ELSE IF value \notin {Undefined, Null} \/ legacy = Undefined THEN payload
        ELSE SetValueAtPath(payload, field.path, legacy)

WhenMissing(payload, field) ==
    LET value == GetValueAtPath(payload, field.path)
        legacy == FindLegacyFieldValue(payload, field)
    IN  IF payload = Rejected \/ value = Rejected THEN Rejected
        ELSE IF value # Undefined \/ legacy = Undefined THEN payload
        ELSE SetValueAtPath(payload, field.path, legacy)

\* normalizePayloadForDocumentType: the fields of the sections that do not repeat, in order.
NormalizePayload(payload) ==
    FoldLeft(LAMBDA tree, section :
                IF section.repeatable = "true" THEN tree ELSE FoldLeft(WhenMissing, tree, section.fields),
             payload, config)

-----------------------------------------------------------------------------
(* A session is read: what getCorrectionDocument shows of it. *)

ToNullable(value) == IF value = Undefined THEN Null ELSE value

\* flattenFields; the source is looked up under the path that the field has in the draft.
FlattenFields(shown, original) ==
    {[id |-> t.fieldId, path |-> t.path,
      originalValue |-> ToNullable(GetValueAtPath(original, t.path)),
      value |-> ToNullable(GetValueAtPath(shown, t.path))] :
        t \in ToSet(ListConfiguredFieldTargets(shown))}

-----------------------------------------------------------------------------
(* applyEdits *)

\* Two targets with one id or path: the later one is in the map.
TargetOf(targets, edit) ==
    LET byId == {i \in DOMAIN targets : targets[i].fieldId = edit.fieldId}
        byPath == {i \in DOMAIN targets : targets[i].path = edit.path}
        latest(S) == targets[CHOOSE i \in S : \A j \in S : j <= i]
    IN  CASE byId # {} -> latest(byId)
          [] byId = {} /\ byPath # {} -> latest(byPath)
          [] OTHER -> [fieldId |-> Rejected, path |-> Rejected]

ApplyEdit(targets, merged, edit) ==
    LET target == TargetOf(targets, edit)
        previous == GetValueAtPath(merged.draft, target.path)
    IN  IF merged.draft = Rejected \/ target.path # edit.path THEN [merged EXCEPT !.draft = Rejected]
        ELSE IF previous = edit.value THEN merged
        ELSE [draft |-> SetValueAtPath(merged.draft, target.path, edit.value),
              audit |-> Append(merged.audit,
                               [path |-> target.path, previousValue |-> ToNullable(previous),
                                newValue |-> edit.value])]

ApplyEdits(start, edits) ==
    LET targets == ListConfiguredFieldTargets(start)
    IN  FoldLeft(LAMBDA merged, edit : ApplyEdit(targets, merged, edit),
                 [draft |-> start, audit |-> <<>>], edits)

Nothing == [shown |-> {}, edits |-> <<>>, accepted |-> FALSE]

\* openSession: the source and the draft start as the same snapshot.
Open ==
    /\ config \in {c \in Configs : \A i \in DOMAIN c : ValidSection(c[i])}
    /\ \E payload \in Documents :
         /\ NormalizePayload(payload) # Rejected
         /\ source = NormalizePayload(payload)
    /\ draft = source /\ base = source
    /\ audit = <<>> /\ view = {} /\ fresh = FALSE /\ last = Nothing /\ commands = 0

\* getCorrectionDocument: the draft is normalised again whenever it is read.
GetCorrectionDocument ==
    /\ ~fresh
    /\ \E shown \in {NormalizePayload(draft)}, original \in {NormalizePayload(source)} :
         /\ shown # Rejected /\ original # Rejected
         /\ view' = FlattenFields(shown, original)
    /\ fresh' = TRUE
    /\ UNCHANGED <<config, source, draft, base, audit, last, commands>>

\* Edits of shown fields, and edits that name a field by its path alone or mix up two.
Edit(id, path, v) == [fieldId |-> id, path |-> path, value |-> v]
ShownEdits == {Edit(f.id, f.path, v) : f \in view, v \in NewValues}
Unknown == Edit(<<"stale">>, <<"gone">>, Null)
OddEdits == {Unknown} \cup {Edit(<<"stale">>, f.path, Null) : f \in view}
            \cup {Edit(p[1].id, p[2].path, Null) : p \in {p \in view \X view : p[1] # p[2]}}

\* submitCorrections, of the version that is shown: one edit that cannot be placed
\* refuses them all.
SubmitCorrections(edits) ==
    /\ commands < MaxCommands
    /\ \E start \in {NormalizePayload(draft)} : \E merged \in {ApplyEdits(start, edits)} :
         /\ start # Rejected
         /\ IF merged.draft = Rejected THEN UNCHANGED <<draft, audit>>
            ELSE draft' = merged.draft /\ audit' = audit \o merged.audit
         /\ last' = [shown |-> view, edits |-> edits, accepted |-> merged.draft # Rejected]
    /\ fresh' = FALSE
    /\ commands' = commands + 1
    /\ UNCHANGED <<config, source, base, view>>

\* saveDraft: the client replaces the draft as a whole; no audit is kept of it.
SaveDraft(payload) ==
    /\ commands < MaxCommands /\ fresh
    /\ NormalizePayload(payload) # Rejected
    /\ draft' = NormalizePayload(payload)
    /\ base' = draft' /\ audit' = <<>> /\ fresh' = FALSE /\ last' = Nothing
    /\ commands' = commands + 1
    /\ UNCHANGED <<config, source, view>>

DocumentNext ==
    \/ GetCorrectionDocument
    \/ fresh /\ \E e \in ShownEdits \cup OddEdits : SubmitCorrections(<<e>>)
    \/ fresh /\ \E e \in ShownEdits, f \in ShownEdits \cup {Unknown} : SubmitCorrections(<<e, f>>)
    \/ \E payload \in Documents : SaveDraft(payload)

DocumentSpec == Open /\ [][DocumentNext]_documentVars

-----------------------------------------------------------------------------
(* Properties *)

\* One path within the other: the fields of such a type are parts of each other.
Overlap(p, q) == IsPrefix(p, q) \/ IsPrefix(q, p)

\* What is read back of a submission: the fields it named have what was typed last, the
\* others what they had, and a refused submission changed none.  The draft has been
\* normalised again by then: a field that was cleared stays cleared.
EditsAreExact ==
    fresh /\ last # Nothing =>
        \A f \in last.shown, g \in view :
            LET named == {i \in DOMAIN last.edits : last.edits[i].path = f.path}
                touched == \E i \in DOMAIN last.edits : Overlap(last.edits[i].path, f.path)
            IN  f.path = g.path =>
                /\ last.accepted /\ named # {} =>
                      \E i \in named : (\A j \in named : j <= i) /\ g.value = last.edits[i].value
                /\ ~last.accepted \/ ~touched => g.value = f.value

\* The audit is the history: each entry found the value it calls the previous one, and
\* all of them lead from the draft the audit starts with to the values shown.
AuditIsTheHistory ==
    fresh =>
        \E history \in {[n \in 0..Len(audit) |->
                FoldLeft(LAMBDA tree, entry : SetValueAtPath(tree, entry.path, entry.newValue),
                         base, SubSeq(audit, 1, n))]} :
            /\ \A n \in DOMAIN audit :
                 ToNullable(GetValueAtPath(history[n - 1], audit[n].path))
                     = audit[n].previousValue
            /\ \A f \in view :
                 ToNullable(GetValueAtPath(history[Len(audit)], f.path)) = f.value

\* What is shown can be edited, whatever shape the payload has and whichever of its
\* ancestors are missing, as long as no two rows go by one name.
ShownIsEditable ==
    fresh =>
        \A f \in view :
            (\A g \in view : g.id = f.id => g = f) =>
                ApplyEdits(draft, <<[fieldId |-> f.id, path |-> f.path,
                                     value |-> <<"text", "new">>]>>).draft # Rejected

\* A session that was opened can be read again, and reading changes nothing of it.
ReadingSettles == NormalizePayload(draft) = draft /\ NormalizePayload(source) = source
=============================================================================

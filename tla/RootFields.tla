----------------------------- MODULE RootFields -----------------------------
(***************************************************************************)
(* How the gateway finds the root fields of a GraphQL document before the  *)
(* engine has validated it (root-field-inspection.ts): a worklist over the *)
(* selections of the operation and of the fragments it spreads.  The       *)
(* request protection charges the DECLARED roots; the session policy asks  *)
(* whether an EXECUTED root is an activity of the user.                    *)
(*                                                                         *)
(* The document is a function from blocks (the operation, the fragments,   *)
(* one inline fragment) to their selections, so a spread may name a        *)
(* fragment that spreads it back, or one that does not exist.              *)
(***************************************************************************)
EXTENDS Naturals, Sequences, FiniteSets

CONSTANTS
    Operations,  \* the selection sets the operation is chosen from
    Fragments,   \* the functions from blocks to selections it is completed with
    Inputs       \* the request's variables: what it says of $v, and the default

VARIABLES
    document,    \* the parsed document
    given,       \* the request's variables, and "none" when they are not asked for
    worklist,    \* the selections still to be looked at, the next one last
    visited,     \* the fragments already expanded
    roots,       \* the fields found
    verdict      \* "working", "found" or "thrown"

rootVars == <<document, given, worklist, visited, roots, verdict>>

Blocks == DOMAIN document

\* `variables`: the value of $v, an own property or a Boolean default.
Variable ==
    IF given.supplied # "absent" THEN given.supplied ELSE given.default

\* getDirectiveValues on `if: Boolean!`: an absent, null or non-Boolean value throws.
Condition(argument) ==
    IF argument = "$v" THEN Variable ELSE argument

Boolean(argument) == Condition(argument) \in {"true", "false"}

Filtered == given.mode = "executed"

\* @skip is looked at first; a selection it removes never reads its @include.
SkipThrows(s) == s.skip # "none" /\ ~Boolean(s.skip)

Skipped(s) == s.skip # "none" /\ Condition(s.skip) = "true"

Throws(s) ==
    \/ SkipThrows(s)
    \/ ~Skipped(s) /\ s.include # "none" /\ ~Boolean(s.include)

ShouldExecute(s) ==
    ~Skipped(s) /\ ~(s.include # "none" /\ Condition(s.include) = "false")

-----------------------------------------------------------------------------
\* pushSelections: from the last to the first, so that they are popped in order.
PushSelections(list, block) ==
    list \o [i \in 1..Len(document[block]) |->
                document[block][Len(document[block]) + 1 - i]]

Top == worklist[Len(worklist)]
Rest == SubSeq(worklist, 1, Len(worklist) - 1)

\* Variables that are not an object are refused before anything is collected.
Refuse ==
    /\ verdict = "working" /\ Filtered /\ given.supplied = "notAnObject"
    /\ verdict' = "thrown"
    /\ UNCHANGED <<document, given, worklist, visited, roots>>

MayLook ==
    verdict = "working" /\ worklist # <<>>
    /\ ~(Filtered /\ given.supplied = "notAnObject")

Throw ==
    /\ MayLook /\ Filtered /\ Throws(Top)
    /\ verdict' = "thrown"
    /\ UNCHANGED <<document, given, worklist, visited, roots>>

Permitted == Filtered => ~Throws(Top) /\ ShouldExecute(Top)

\* A bug for comparison: a fragment counts as visited before its directives are read.
MarksSkippedSpreads ==
    /\ MayLook /\ Filtered /\ ~Throws(Top) /\ ~ShouldExecute(Top)
    /\ worklist' = Rest
    /\ visited' = IF Top.kind = "spread" THEN visited \cup {Top.name} ELSE visited
    /\ UNCHANGED <<document, given, roots, verdict>>

Skip ==
    /\ MayLook /\ Filtered /\ ~Throws(Top) /\ ~ShouldExecute(Top)
    /\ worklist' = Rest
    /\ UNCHANGED <<document, given, visited, roots, verdict>>

Field ==
    /\ MayLook /\ Permitted /\ Top.kind = "field"
    /\ roots' = Append(roots, Top.name)
    /\ worklist' = Rest
    /\ UNCHANGED <<document, given, visited, verdict>>

Inline ==
    /\ MayLook /\ Permitted /\ Top.kind = "inline"
    /\ worklist' = PushSelections(Rest, Top.name)
    /\ UNCHANGED <<document, given, visited, roots, verdict>>

\* A bug for comparison: cycles are not noticed.
SpreadsAgain ==
    /\ MayLook /\ Permitted /\ Top.kind = "spread" /\ Len(worklist) < 6
    /\ worklist' = IF Top.name \in Blocks THEN PushSelections(Rest, Top.name) ELSE Rest
    /\ UNCHANGED <<document, given, visited, roots, verdict>>

Spread ==
    /\ MayLook /\ Permitted /\ Top.kind = "spread"
    /\ IF Top.name \in Blocks \ visited
         THEN /\ visited' = visited \cup {Top.name}
              /\ worklist' = PushSelections(Rest, Top.name)
         ELSE worklist' = Rest /\ UNCHANGED visited
    /\ UNCHANGED <<document, given, roots, verdict>>

Finish ==
    /\ verdict = "working" /\ worklist = <<>>
    /\ verdict' = "found"
    /\ UNCHANGED <<document, given, worklist, visited, roots>>

RootInit ==
    /\ \E o \in Operations, f \in Fragments :
          document = [b \in DOMAIN f \cup {"operation"} |-> IF b = "operation" THEN o ELSE f[b]]
    /\ given \in Inputs
    /\ worklist = PushSelections(<<>>, "operation")
    /\ visited = {} /\ roots = <<>> /\ verdict = "working"

RootNext == Refuse \/ Throw \/ Skip \/ Field \/ Inline \/ Spread \/ Finish

RootSpec == RootInit /\ [][RootNext]_rootVars /\ WF_rootVars(RootNext)

-----------------------------------------------------------------------------
(* What the GraphQL engine runs: the fields of the blocks that a chain of  *)
(* selections it executes leads to.                                        *)

Runs(s) == Filtered => ~Throws(s) /\ ShouldExecute(s)

Elements(list) == {list[i] : i \in DOMAIN list}

SelectionsOf(block) == Elements(document[block])

Leads(S) ==
    {b \in Blocks : \E from \in S : \E s \in SelectionsOf(from) :
        s.kind # "field" /\ s.name = b /\ Runs(s)}

\* The least set of blocks that has the operation and whatever its blocks lead to.
Reached ==
    {b \in Blocks : \A S \in SUBSET Blocks : "operation" \in S /\ Leads(S) \subseteq S => b \in S}

ExecutedFields ==
    {s.name : s \in {t \in UNION {SelectionsOf(b) : b \in Reached} : t.kind = "field" /\ Runs(t)}}

\* What was found is what the engine executes: no activity of the user is missed,
\* none is invented by a skipped selection, and no declared root escapes the
\* limiter, whatever fragments are shared, skipped once, cyclic or missing.
FoundIsExecuted ==
    verdict = "found" => Elements(roots) = ExecutedFields

\* The inspection precedes validation and must end on every document.
InspectionEnds == <>(verdict # "working")

-----------------------------------------------------------------------------
(* Why: of the blocks the inspection has been to, whatever is executed has *)
(* been found, leads to another of them, or is still on the worklist.      *)

Handled(s, been) ==
    Runs(s) => IF s.kind = "field" THEN s.name \in Elements(roots)
               ELSE s.name \in Blocks => s.name \in been

HasBeenTo(been) ==
    /\ "operation" \in been /\ visited \subseteq been
    /\ \A b \in been : \A s \in SelectionsOf(b) : s \in Elements(worklist) \/ Handled(s, been)

WorklistIsSound ==
    /\ \E been \in SUBSET Reached : HasBeenTo(been)
    /\ \A s \in Elements(worklist) : \E b \in Reached : s \in SelectionsOf(b)
    /\ Elements(roots) \subseteq ExecutedFields
    /\ verdict = "found" => worklist = <<>>
=============================================================================

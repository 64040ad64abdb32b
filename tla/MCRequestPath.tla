---------------------------- MODULE MCRequestPath ----------------------------
(***************************************************************************)
(* What the gateway does with a request, three machines side by side: a    *)
(* behaviour is of the request path, of the inspection of a document's     *)
(* root fields or of the JSON scalar; the variables of the others rest.    *)
(***************************************************************************)
EXTENDS CookiePath

VARIABLES
    subject,                                                  \* which of the three
    document, given, worklist, visited, found, inspection,    \* RootFields
    text, stored                                              \* LooseJson

inspectionVars == <<document, given, worklist, visited, found, inspection>>
mcVars == <<subject, pathVars, inspectionVars, text, stored>>

-----------------------------------------------------------------------------
(* Documents of a few selections; the fragments share, skip or spread each *)
(* other, once in a cycle.                                                 *)

Selection(kind, name, skip, include) ==
    [kind |-> kind, name |-> name, skip |-> skip, include |-> include]
Plain(kind, name) == Selection(kind, name, "none", "none")

Choices ==
    {Selection(c[1], c[2], d[1], d[2]) :
        c \in {<<"field", "a">>, <<"inline", "I">>, <<"spread", "F">>, <<"spread", "G">>,
               <<"spread", "Missing">>},
        d \in {<<"none", "none">>, <<"$v", "none">>, <<"none", "$v">>}}

MCOperations == UNION {[1..n -> Choices] : n \in 1..2}

MCFragments ==
    [F : {<<Selection("field", "b", "none", "$v")>>,
          <<Plain("spread", "G"), Plain("field", "a")>>,
          <<Selection("spread", "G", "$v", "none"), Plain("spread", "F"), Plain("spread", "G")>>},
     G : {<<Plain("field", "c")>>, <<Plain("spread", "F")>>},
     I : {<<Selection("field", "d", "true", "text"), Selection("field", "e", "false", "none")>>,
          <<Plain("spread", "F")>>}]

MCInputs ==
    {[mode |-> "declared", supplied |-> "absent", default |-> "none"],
     [mode |-> "executed", supplied |-> "notAnObject", default |-> "true"]}
    \cup [mode : {"executed"}, supplied : {"true", "false", "text"}, default : {"none"}]
    \cup [mode : {"executed"}, supplied : {"absent"}, default : {"none", "true"}]

R == INSTANCE RootFields
       WITH roots <- found, verdict <- inspection,
            Operations <- MCOperations, Fragments <- MCFragments, Inputs <- MCInputs

-----------------------------------------------------------------------------
(* Texts of up to four tokens, objects of one member with junk in it, and  *)
(* payloads of nested lists and objects written in each style.             *)

Token(t, v) == [t |-> t, v |-> v]

Alphabet ==
    {Token(m, m) : m \in {"{", "}", "[", "]", ",", ":"}}
    \cup {Token("word", "on"), Token("word", "no"), Token("word", "null"), Token("number", "12"),
          Token("sign", "-"), Token("variable", "$x"),
          Token("double", <<Token("number", "12")>>), Token("single", <<Token("word", "on")>>)}

Loose ==
    UNION {[1..n -> Alphabet] : n \in 0..4}
    \cup {<<Token("{", "{"), key, Token(":", ":"), x, y, z>> :
            key \in {Token("word", "on"), Token("double", <<Token("number", "12")>>)},
            x, y, z \in Alphabet}

Scalars ==
    {<<"null">>, <<"true">>, <<"number", "12">>, <<"string", <<>>>>,
     <<"string", <<Token("number", "12")>>>>, <<"string", <<Token("word", "on")>>>>}

Name(k) == <<Token("word", k)>>

Shallow ==
    Scalars
    \cup {<<"list", s>> : s \in UNION {[1..n -> Scalars] : n \in 0..2}}
    \cup {<<"object", f>> : f \in UNION {[S -> Scalars] : S \in SUBSET {Name("id"), Name("no")}}}

Payloads ==
    Shallow \cup {<<"list", <<v>>>> : v \in Shallow}
    \cup {<<"object", Name("id") :> v @@ Name("no") :> w>> : v \in Shallow, w \in Scalars}

J(Given) == INSTANCE LooseJson WITH sent <- text, Texts <- Given

MCTexts ==
    {[route |-> "variable", style |-> "none", text |-> t, payload |-> <<>>] : t \in Loose}
    \cup {[route |-> "variable", style |-> s, text |-> J({})!Written(s, p), payload |-> p] :
            s \in {"json", "graphql", "hand"}, p \in Payloads \ {<<"string", <<>>>>}}
    \cup {[route |-> "query", style |-> "graphql", text |-> J({})!Written("graphql", p),
           payload |-> p] : p \in Payloads}

L == INSTANCE LooseJson WITH sent <- text, Texts <- MCTexts

-----------------------------------------------------------------------------
NoInspection ==
    /\ document = <<>> /\ given = <<>> /\ worklist = <<>> /\ visited = {} /\ found = <<>>
    /\ inspection = "none"
NoText == text = <<>> /\ stored = <<>>
NoRequestPath == CarriedInit /\ live = {} /\ cookie = None

MCInit ==
    \/ subject = "request" /\ CarriedInit /\ NoInspection /\ NoText
    \/ subject = "roots" /\ NoRequestPath /\ R!RootInit /\ NoText
    \/ subject = "json" /\ NoRequestPath /\ NoInspection /\ L!JsonInit

MCNext ==
    /\ UNCHANGED subject
    /\ \/ subject = "request" /\ CarriedNext /\ UNCHANGED <<inspectionVars, text, stored>>
       \/ subject = "roots" /\ R!RootNext /\ UNCHANGED <<pathVars, text, stored>>
       \/ subject = "json" /\ L!JsonNext /\ UNCHANGED <<pathVars, inspectionVars>>

MCSpec ==
    /\ MCInit /\ [][MCNext]_mcVars
    /\ WF_vars(Executes) /\ WF_vars(\E c \in calls : TimesOut(c))
    /\ WF_inspectionVars(R!RootNext)

\* What the session policy and the request protection are told of a document is
\* what the engine does with it.
RootsAreTheEngines == subject = "roots" => R!FoundIsExecuted

\* A request is answered, whatever the platform does; and every document is read to its
\* end, though it has not been validated.
RequestsEnd ==
    stage = "received" \/ subject = "roots"
        ~> stage = "answered" \/ (subject = "roots" /\ inspection # "working")

\* What the gateway makes of a text is what the client wrote: the JSON scalar stores the
\* payload as it was meant, and the root fields found are those of the document.
InputIsRead == (subject = "json" => L!PayloadIsKept) /\ RootsAreTheEngines
=============================================================================

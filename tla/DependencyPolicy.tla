--------------------------- MODULE DependencyPolicy ---------------------------
(***************************************************************************)
(* The dependency gate: scripts/dependencies/check-policy.mjs over the     *)
(* manifests, the lockfile and npm's configuration, and audit-policy.mjs   *)
(* over a report of npm audit with its one reviewed exception.             *)
(*                                                                         *)
(* The repository starts as one that both accept, and then anything in it, *)
(* or in the report, changes.  The gate keeps no state of its own.         *)
(*                                                                         *)
(* A spec or a resolved source is known by its kind, a lockfile path by    *)
(* the package it ends in and whether it is the top-level copy.            *)
(***************************************************************************)
EXTENDS Naturals, Sequences, FiniteSets

CONSTANTS
    expectedParents,  \* of each package of the reviewed chain; "braces" has none
    MaxEdits          \* bound on changes

ASSUME GateAssumption ==
    /\ "braces" \in DOMAIN expectedParents /\ "reviewed" \notin DOMAIN expectedParents
    /\ \A n \in DOMAIN expectedParents : expectedParents[n] \subseteq DOMAIN expectedParents

VARIABLES
    report,      \* [vulnerabilities, counts]: what npm audit answers
    lock,        \* package-lock.json: path to package
    allowScripts,\* decisions by <<name, version>> or <<name>>
    npmrc,       \* lines of the project's .npmrc
    effective,   \* what npm config get answers
    workspaces,  \* patterns of the root manifest
    manifests,   \* of each directory that has one
    expired,     \* the exception's date has passed
    edits

gateVars ==
    <<report, lock, allowScripts, npmrc, effective, workspaces, manifests, expired, edits>>

Severities == {"info", "low", "moderate", "high", "critical"}
Elements(s) == {s[i] : i \in DOMAIN s}
Top(name) == [name |-> name, copy |-> "top"]

-----------------------------------------------------------------------------
(* audit-policy.mjs *)

Listed(severities) ==
    {n \in DOMAIN report.vulnerabilities : report.vulnerabilities[n].severity \in severities}

HighNames == Listed({"high", "critical"})

CountsAgree ==
    /\ \A s \in Severities : report.counts[s] = Cardinality(Listed({s}))
    /\ report.counts["total"] = Cardinality(DOMAIN report.vulnerabilities)

Confined(n) ==
    /\ report.vulnerabilities[n].nodes = <<Top(n)>>
    /\ Top(n) \in DOMAIN lock /\ lock[Top(n)].dev

PathIsReviewed(n) ==
    LET via == report.vulnerabilities[n].via IN
    IF n = "braces" THEN via = <<"reviewed">>
    ELSE /\ via # <<>>
         /\ Len(via) = Cardinality(expectedParents[n])
         /\ Elements(via) = expectedParents[n]

\* What a reported package is vulnerable through.
Via(n) == Elements(report.vulnerabilities[n].via)

\* reachesBraces: every path ends at braces, and none runs in a circle, so that
\* the package is in each set that has braces and whatever leads into the set only.
ReachesBraces(n) ==
    \A S \in SUBSET ({"braces"} \union DOMAIN report.vulnerabilities) :
       (/\ "braces" \in S
        /\ \A p \in DOMAIN report.vulnerabilities :
              Via(p) # {} /\ Via(p) \subseteq S \intersect DOMAIN expectedParents => p \in S)
       => n \in S

EvaluateAuditReport ==
    /\ ~expired
    /\ Top("braces") \in DOMAIN lock
    /\ lock[Top("braces")].version = "reviewed" /\ lock[Top("braces")].dev
    /\ CountsAgree
    /\ HighNames = DOMAIN expectedParents
    /\ \A n \in HighNames :
          /\ report.vulnerabilities[n].severity = "high"
          /\ Confined(n) /\ PathIsReviewed(n) /\ ReachesBraces(n)

-----------------------------------------------------------------------------
(* check-policy.mjs *)

ReadNpmConfig(key) ==
    LET set == {i \in DOMAIN npmrc : npmrc[i].key = key} IN
    IF set = {} THEN "missing" ELSE npmrc[CHOOSE i \in set : \A j \in set : j <= i].value

\* Project settings, of which "allow" stands for the required ones; the others
\* must only not be switched on.
ValidateNpmPolicy ==
    /\ \A i \in DOMAIN npmrc : npmrc[i].key # "malformed"
    /\ ReadNpmConfig("allow") = "none" /\ ReadNpmConfig("ignore-scripts") # "true"

ValidateEffectiveNpmPolicy == effective = [allow |-> "none", scripts |-> "false"]

ClassifyDisallowedSpec(name, spec, names) ==
    \/ spec \in {"file", "url", "git", "directory", "shorthand"}
    \/ spec = "workspace" /\ name \notin names

\* apps/* stands for the directories below that have a manifest; a plain
\* pattern must have one.
Expanded(p) ==
    p.dirs \intersect DOMAIN manifests
PatternsAreKnown ==
    \A p \in Elements(workspaces) : p.star \/ p.dirs \subseteq DOMAIN manifests
CollectManifestPaths == UNION {Expanded(p) : p \in Elements(workspaces)}

WorkspaceNames == {manifests[d].name : d \in CollectManifestPaths}

ValidateManifestSources ==
    \A d \in CollectManifestPaths \union {"root"} :
       \A dep \in DOMAIN manifests[d].specs :
          ~ClassifyDisallowedSpec(dep, manifests[d].specs[dep], WorkspaceNames)

ValidateLockfileSources ==
    \A path \in DOMAIN lock :
       LET package == lock[path] IN
       IF package.link THEN package.resolved \in CollectManifestPaths
       ELSE package.resolved \in {"none", "registry"}

\* A bug for comparison: an approval need not name a version.
CoveredUnpinned(name, version) ==
    <<name, version>> \in DOMAIN allowScripts \/ <<name>> \in DOMAIN allowScripts

\* An exact decision is looked up first; a decision for all versions may only
\* be a denial.
IsInstallScriptCovered(name, version) ==
    IF <<name, version>> \in DOMAIN allowScripts
    THEN allowScripts[<<name, version>>] # "malformed"
    ELSE <<name>> \in DOMAIN allowScripts /\ allowScripts[<<name>>] = "denied"

\* The package is known by the last part of its path.
ValidateInstallScripts ==
    \A path \in DOMAIN lock :
       lock[path].script => IsInstallScriptCovered(path.name, lock[path].version)

CheckPolicy ==
    /\ ValidateNpmPolicy /\ ValidateEffectiveNpmPolicy
    /\ PatternsAreKnown /\ ValidateManifestSources
    /\ ValidateLockfileSources /\ ValidateInstallScripts

-----------------------------------------------------------------------------
(* The repository. *)

Vulnerability(n) ==
    [severity |-> "high", nodes |-> <<Top(n)>>,
     via |-> IF n = "braces" THEN <<"reviewed">>
             ELSE CHOOSE s \in [1..Cardinality(expectedParents[n]) -> expectedParents[n]] :
                     Elements(s) = expectedParents[n]]

NameOf(d) ==
    CASE d = "root" -> "root" [] d = "apps/web" -> "web" [] d = "apps/new" -> "new"
      [] d = "mocks/store" -> "store"

Package(version) ==
    [version |-> version, dev |-> TRUE, script |-> FALSE, resolved |-> "registry", link |-> FALSE]

Packages ==
    {Package(""), [Package("") EXCEPT !.dev = FALSE], [Package("") EXCEPT !.script = TRUE]}
    \union {[Package("") EXCEPT !.resolved = r] : r \in {"none", "git", "elsewhere"}}
    \union {[Package("") EXCEPT !.resolved = r, !.link = TRUE] : r \in {"apps/web", "apps/gone"}}

GateInit ==
    /\ report = [vulnerabilities |-> [n \in DOMAIN expectedParents |-> Vulnerability(n)],
                 counts |-> [s \in Severities \union {"total"} |->
                               IF s \in {"high", "total"} THEN Cardinality(DOMAIN expectedParents)
                               ELSE 0]]
    /\ lock = [path \in {Top(n) : n \in DOMAIN expectedParents \union {"native", "@web"}} |->
                 CASE path.name = "native" -> [Package("v1") EXCEPT !.script = TRUE]
                   [] path.name = "@web" -> [Package("none") EXCEPT !.link = TRUE, !.resolved = "apps/web"]
                   [] OTHER -> Package("reviewed")]
    /\ allowScripts = [key \in {<<"native", "v1">>} |-> "approved"]
    /\ npmrc = <<[key |-> "allow", value |-> "none"]>>
    /\ effective = [allow |-> "none", scripts |-> "false"]
    /\ workspaces = <<[star |-> TRUE, dirs |-> {"apps/web", "apps/new"}],
                      [star |-> FALSE, dirs |-> {"mocks/store"}]>>
    /\ manifests = [d \in {"root", "apps/web", "mocks/store"} |->
                      [name |-> NameOf(d),
                       specs |-> [dep \in {"native", "web"} |->
                                    IF dep = "native" THEN "version" ELSE "workspace"]]]
    /\ expired = FALSE /\ edits = 0

\* f with x in its domain, or without it.
Set(f, x, value) == [y \in DOMAIN f \union {x} |-> IF y = x THEN value ELSE f[y]]
Without(f, x) == [y \in DOMAIN f \ {x} |-> f[y]]

Counted(vulnerabilities) ==
    [vulnerabilities |-> vulnerabilities,
     counts |-> [s \in Severities \union {"total"} |->
                   Cardinality({n \in DOMAIN vulnerabilities :
                                  s = "total" \/ vulnerabilities[n].severity = s})]]

\* npm audit answers differently: advisories are published, raised or withdrawn,
\* packages are fixed or depend on each other in another way.
AuditChanges ==
    /\ LET names == DOMAIN expectedParents \union {"other"}
           paths == {<<>>, <<"reviewed">>, <<"another">>} \union (names \X {"reviewed"})
                    \union {<<n>> : n \in names} IN
       \/ \E n \in DOMAIN report.vulnerabilities :
             report' = Counted(Without(report.vulnerabilities, n))
       \/ \E n \in names, s \in {"low", "high", "critical"}, via \in paths, copy \in {"top", "nested"} :
             report' = Counted(Set(report.vulnerabilities, n,
                          [severity |-> s, via |-> via,
                           nodes |-> <<[name |-> n, copy |-> copy]>>]))
       \/ \E s \in Severities : report' = [report EXCEPT !.counts[s] = @ + 1]
    /\ UNCHANGED <<lock, allowScripts, npmrc, effective, workspaces, manifests, expired>>

LockChanges ==
    /\ \E name \in {"native", "braces", "@web", "new"}, copy \in {"top", "nested"},
          version \in {"v1", "v2"}, package \in Packages :
          lock' = Set(lock, [name |-> name, copy |-> copy], [package EXCEPT !.version = version])
    /\ UNCHANGED <<report, allowScripts, npmrc, effective, workspaces, manifests, expired>>

DecisionsChange ==
    /\ \/ \E key \in {<<"native", "v1">>, <<"native", "v2">>, <<"native">>, <<"new">>},
             decision \in {"approved", "denied", "malformed"} :
             allowScripts' = Set(allowScripts, key, decision)
       \/ allowScripts' = Without(allowScripts, <<"native", "v1">>)
    /\ UNCHANGED <<report, lock, npmrc, effective, workspaces, manifests, expired>>

ConfigurationChanges ==
    /\ \/ \E key \in {"allow", "ignore-scripts", "malformed"}, value \in {"none", "true"} :
             /\ npmrc' \in {Append(npmrc, [key |-> key, value |-> value]),
                            <<[key |-> key, value |-> value]>> \o npmrc}
             /\ UNCHANGED effective
       \/ /\ effective' \in [allow : {"none", "all", "unavailable"}, scripts : {"true", "false"}]
          /\ UNCHANGED npmrc
    /\ UNCHANGED <<report, lock, allowScripts, workspaces, manifests, expired>>

ManifestsChange ==
    /\ \/ \E d \in {"apps/web", "mocks/store"} : manifests' = Without(manifests, d)
       \/ \E d \in {"root", "apps/web", "apps/new"}, dep \in {"native", "web", "store"},
             spec \in {"version", "workspace", "file", "url", "git", "directory", "shorthand"} :
             manifests' = Set(manifests, d, [name |-> NameOf(d), specs |-> [n \in {dep} |-> spec]])
    /\ UNCHANGED <<report, lock, allowScripts, npmrc, effective, workspaces, expired>>

TimePasses ==
    /\ expired' = TRUE
    /\ UNCHANGED <<report, lock, allowScripts, npmrc, effective, workspaces, manifests>>

GateNext ==
    /\ edits < MaxEdits /\ edits' = edits + 1
    /\ \/ AuditChanges \/ LockChanges \/ DecisionsChange
       \/ ConfigurationChanges \/ ManifestsChange \/ TimePasses

GateSpec == GateInit /\ [][GateNext]_gateVars
-----------------------------------------------------------------------------
(* Properties *)

\* The advisories a vulnerable package is affected by: what lies at the ends when
\* its paths are followed, all that is in each set which has the package and, with
\* a package that is reported, what that one is vulnerable through.
Advisories(n) ==
    LET names == DOMAIN report.vulnerabilities
        all == {n} \union UNION {Via(p) : p \in names}
        Followed(S) == n \in S /\ \A p \in S \intersect names : Via(p) \subseteq S
    IN  {a \in all \ names : \A S \in SUBSET all : Followed(S) => a \in S}

\* What npm would run at install: an exact decision, else one for all versions.
Runs(path) ==
    /\ lock[path].script
    /\ LET exact == <<path.name, lock[path].version>> IN
       IF exact \in DOMAIN allowScripts THEN allowScripts[exact] = "approved"
       ELSE <<path.name>> \in DOMAIN allowScripts /\ allowScripts[<<path.name>>] = "approved"

\* What the gate lets through is what was reviewed.  A report that passes has
\* no high or critical package that any advisory but the reviewed one reaches,
\* and none that production installs; a repository that passes installs from
\* the registry and its own workspaces only, and runs no install script but
\* of a version that was approved (evaluateAuditReport, check-policy).
GateIsNarrow ==
    /\ EvaluateAuditReport =>
          \A n \in Listed({"high", "critical"}) :
             /\ Advisories(n) = {"reviewed"}
             /\ \A node \in Elements(report.vulnerabilities[n].nodes) :
                   node \in DOMAIN lock /\ lock[node].dev
    /\ CheckPolicy =>
          /\ \A path \in DOMAIN lock :
                /\ lock[path].link => lock[path].resolved \in DOMAIN manifests
                /\ ~lock[path].link => lock[path].resolved \notin {"git", "elsewhere"}
                /\ Runs(path) => <<path.name, lock[path].version>> \in DOMAIN allowScripts
          /\ \A d \in CollectManifestPaths, dep \in {"native", "web", "store"} :
                dep \in DOMAIN manifests[d].specs /\ manifests[d].specs[dep] = "workspace"
                   => \E e \in DOMAIN manifests : manifests[e].name = dep

-----------------------------------------------------------------------------
\* Why it holds: the review is about packages, and no advisory is one of them.
NamesAreKnown ==
    /\ report = [vulnerabilities |-> report.vulnerabilities, counts |-> report.counts]
    /\ DOMAIN report.vulnerabilities \subseteq DOMAIN expectedParents \union {"other"}
=============================================================================

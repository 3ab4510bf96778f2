--------------------------- MODULE MCConfigGuard ---------------------------
(***************************************************************************)
(* An instance of ConfigGuard: changes of one area of the configuration at *)
(* a time, between every two of the variants of that area, and changes of  *)
(* several areas at once.                                                  *)
(***************************************************************************)
EXTENDS ConfigGuard, TLC

Persona(id, kind) ==
    [id |-> id, kind |-> kind, immutable |-> FALSE, wellFormed |-> TRUE, verified |-> TRUE,
     requiredWhen |-> "none", volunteerOn |-> "facts", priority |-> 1, tokens |-> 2, calls |-> 1,
     maxFindings |-> 1, overlays |-> TRUE, prompt |-> "present", capability |-> "review",
     minContext |-> 2]

guard    == [Persona("config-guard", "agent") EXCEPT
                !.immutable = TRUE, !.requiredWhen = "facts", !.overlays = FALSE, !.calls = 0]
security == [Persona("security", "agent") EXCEPT !.requiredWhen = "assessed"]
logic    == Persona("logic", "agent")
triage   == [Persona("triage", "triage") EXCEPT !.overlays = FALSE, !.calls = 0]
house    == [Persona("house", "agent") EXCEPT !.requiredWhen = "facts"]

Shipped == {guard, security, logic, triage}

Standard ==
    [failOn |-> Nit, skipClasses |-> {"deps", "docs"}, docsGlobs |-> {"md"},
     models |-> <<>>, personas |-> <<>>]

\* config.yaml: the bindings are needed by every head that is to load.
Plain ==
    [failOn |-> Unset, skipClasses |-> {}, docsGlobs |-> {}, models |-> ("review" :> 4), personas |-> <<>>]

GateConfigs ==
    {[Plain EXCEPT !.failOn = f, !.skipClasses = s, !.docsGlobs = g] :
        f \in {Unset, Nit, Error, Unranked},
        s \in {{}, {"docs"}, {"docs", "test"}, {"test"}},
        g \in {{}, {"md"}, {"md", "txt"}}}

Budget(tokens, calls) == [tokens |-> tokens, calls |-> calls]

Overrides ==
    {[NoOverride EXCEPT !.enabled = e, !.budget = b, !.overlay = o] :
        e \in {Unset, TRUE, FALSE},
        b \in {Unset, Budget(1, 0), Budget(2, 0), Budget(2, 1)},
        o \in {Unset, "short", "other"}}
    \cup {[NoOverride EXCEPT !.budget = Budget(3, 0)], [NoOverride EXCEPT !.budget = Budget(1, 2)], [NoOverride EXCEPT !.overlay = "long"],
          [NoOverride EXCEPT !.maxFindings = 9], [NoOverride EXCEPT !.priority = 2]}

OverrideConfigs ==
    {[Plain EXCEPT !.personas = (id :> override)] : id \in {"security"}, override \in Overrides}
    \cup {[Plain EXCEPT !.failOn = Nit, !.personas = ("security" :> [NoOverride EXCEPT !.budget = Budget(1, 0)])]}
    \cup {[Plain EXCEPT !.personas = (id :> override)] :
            id \in {"logic", "config-guard", "triage", "nobody"},
            override \in {[NoOverride EXCEPT !.enabled = FALSE], [NoOverride EXCEPT !.overlay = "short"],
                          [NoOverride EXCEPT !.budget = Budget(1, 0)], NoOverride}}

OtherConfigs ==
    {Absent, Broken, Plain, [Plain EXCEPT !.models = <<>>], [Plain EXCEPT !.models = ("review" :> 1)],
     [Plain EXCEPT !.models = ("review" :> 0)]}

Documents ==
    {Absent, Broken, house, logic,
     [house EXCEPT !.requiredWhen = "none"],
     [house EXCEPT !.requiredWhen = "broken"],
     [house EXCEPT !.verified = FALSE],
     [house EXCEPT !.immutable = TRUE],
     [house EXCEPT !.tokens = 5],
     [house EXCEPT !.prompt = "missing"],
     [house EXCEPT !.minContext = Broken],
     [house EXCEPT !.kind = "triage"],
     [security EXCEPT !.requiredWhen = "facts"],
     [security EXCEPT !.requiredWhen = "none", !.prompt = "none"],
     [guard EXCEPT !.immutable = FALSE, !.requiredWhen = "none"]}

NoFiles == [p \in Path |-> Absent]

Trees ==
    {[NoFiles EXCEPT ![1] = d] : d \in Documents}
    \cup {[p \in Path |-> IF p = 1 THEN house ELSE d] :
            d \in {house, [house EXCEPT !.requiredWhen = "none"], [logic EXCEPT !.tokens = 1],
                   [triage EXCEPT !.tokens = 1]}}

Checkout(config, tree, permissions) ==
    [config |-> config, personas |-> tree, permissions |-> permissions]

OfConfigs(configs) == {Checkout(config, NoFiles, NoBlock) : config \in configs}
OfTrees   == {Checkout(Plain, tree, NoBlock) : tree \in Trees}
OfWorkflow == {Checkout(Plain, NoFiles, permissions) : permissions \in {Absent, NoBlock, "read", "write"}}

\* Changes of several files at once.
OfSeveral ==
    {Checkout([Plain EXCEPT !.failOn = f, !.personas = overrides], tree, permissions) :
        f \in {Nit, Error},
        overrides \in {<<>>, "house" :> [NoOverride EXCEPT !.enabled = FALSE]},
        tree \in {NoFiles, [NoFiles EXCEPT ![1] = house],
                  [NoFiles EXCEPT ![1] = [house EXCEPT !.requiredWhen = "none"]]},
        permissions \in {"read", "write"}}

Areas == {OfConfigs(GateConfigs), OfConfigs(OverrideConfigs \cup {Plain}),
          OfConfigs(OtherConfigs), OfTrees, OfWorkflow, OfSeveral}

ChangesOfOneArea == UNION {area \X area : area \in Areas}

\* A file of each class that the configuration can affect, one that both globs
\* match, and one whose attributes overrule its marker.
Source == [reviewPath |-> FALSE, ciPath |-> FALSE, lockfile |-> FALSE, manifest |-> "none",
           attributes |-> <<>>, marker |-> FALSE, buildPath |-> FALSE, docs |-> {}, testPath |-> FALSE]

Evidence ==
    {Source,
     [Source EXCEPT !.docs = {"md"}],
     [Source EXCEPT !.docs = {"txt"}, !.testPath = TRUE],
     [Source EXCEPT !.lockfile = TRUE],
     [Source EXCEPT !.attributes = <<TRUE, FALSE>>, !.marker = TRUE, !.docs = {"md", "txt"}],
     [Source EXCEPT !.ciPath = TRUE]}
=============================================================================

------------------------------- MODULE Config -------------------------------
(***************************************************************************)
(* Loading a configuration: LoadConfig of proxy/config/config.go as an     *)
(* operator from documents to configurations.                              *)
(*                                                                         *)
(* A document is what yaml.v3 delivers.  A text is a sequence of tokens: a *)
(* macro reference ${name}, a literal, an assigned port or a comment line. *)
(* Model IDs come in their sorted order.                                   *)
(***************************************************************************)
EXTENDS Integers, Sequences, FiniteSets, SequencesExt, FiniteSetsExt, Functions

CONSTANTS
    ModelOrder,          \* the model IDs a document may use, sorted
    MacroNames,          \* the macro names that match macroNameRegex and are short enough
    Environment          \* the environment variables that are set, to one line

IsSequence(s) == s \in Seq(Range(s))

ASSUME OrderAssumption == IsSequence(ModelOrder) /\ IsInjective(ModelOrder)

Ref(name) == <<"ref", name>>
Lit(value) == <<"lit", value>>
PortLit(n) == <<"port", n>>
Comment(name) == <<"comment", name>>     \* a comment line that mentions a macro
BadURL == Lit("bad url")
DefaultGroup == "(default)"

\* The text fields of a model that macros are substituted in; metadata stands for
\* every text nested in it.
Fields == {"cmd", "cmdStop", "proxy", "checkEndpoint", "stripParams", "metadata"}
PortFields == {"cmd", "cmdStop", "proxy", "metadata"}

Mentions(text, name) == \E i \in DOMAIN text : text[i] = Ref(name)
References(text) ==
    {text[i][2] : i \in {j \in DOMAIN text : text[j][1] \in {"ref", "comment"}}}

\* strings.ReplaceAll(text, "${name}", value)
ReplaceMacro(text, name, value) ==
    FlattenSeq([i \in DOMAIN text |-> IF text[i] = Ref(name) THEN value ELSE <<text[i]>>])

StripComments(text) ==
    FlattenSeq([i \in DOMAIN text |-> IF text[i][1] = "comment" THEN << >> ELSE <<text[i]>>])

validateMacro(m) ==
    /\ m.name \in MacroNames \ {"PORT", "MODEL_ID"}
    /\ ~Mentions(m.value, m.name)

\* Mutant: a model macro comes last, in front of a global one of its name.
AppendMacro(list, entry) == Append(list, entry)

\* A model macro takes the place of the first macro of its name, or comes last.
OverrideMacro(list, entry) ==
    LET same == {i \in DOMAIN list : list[i].name = entry.name}
    IN  IF same = {} THEN Append(list, entry) ELSE [list EXCEPT ![Min(same)] = entry]

ModelID(id) == [name |-> "MODEL_ID", value |-> <<Lit(id)>>]

mergedMacros(doc, id) ==
    LET own == doc.models[id].macros
        merge[i \in 0 .. Len(own)] ==
            IF i = 0 THEN <<ModelID(id)>> \o doc.macros
            ELSE OverrideMacro(merge[i - 1], own[i])
    IN  merge[Len(own)]

\* One pass over the macros, from the last to the first.
SubstituteMacros(text, macros) ==
    LET last(i) == macros[Len(macros) + 1 - i]
        pass[i \in 0 .. Len(macros)] ==
            IF i = 0 THEN text ELSE ReplaceMacro(pass[i - 1], last(i).name, last(i).value)
    IN  pass[Len(macros)]

Uncommented(doc, id, f) ==
    LET text == doc.models[id].fields[f]
    IN  IF f \in {"cmd", "cmdStop"} THEN StripComments(text) ELSE text

\* The fields of a model before its port is known.
Substituted(doc, id) ==
    [f \in Fields |-> SubstituteMacros(Uncommented(doc, id, f), mergedMacros(doc, id))]

UsesPort(doc, id) == Mentions(Substituted(doc, id)["cmd"], "PORT")

\* Mutant: the next port is not advanced past a model that uses one.
FirstPort(doc, id) == doc.startPort

\* nextPort when the loop over the sorted model IDs reaches id.
NextPort(doc, id) ==
    doc.startPort + Cardinality({j \in 1 .. Len(ModelOrder) :
        /\ j < CHOOSE i \in DOMAIN ModelOrder : ModelOrder[i] = id
        /\ ModelOrder[j] \in DOMAIN doc.models
        /\ UsesPort(doc, ModelOrder[j])})

LoadModel(doc, id) ==
    LET fields == Substituted(doc, id) IN
    IF UsesPort(doc, id)
    THEN [f \in Fields |-> IF f \in PortFields
                           THEN ReplaceMacro(fields[f], "PORT", <<PortLit(NextPort(doc, id))>>)
                           ELSE fields[f]]
    ELSE fields

\* No macro is left, but for ${PID} in cmdStop, which is replaced when it runs.
modelLoads(doc, id) ==
    LET fields == LoadModel(doc, id) IN
    /\ \A i \in DOMAIN doc.models[id].macros : validateMacro(doc.models[id].macros[i])
    /\ \A f \in Fields : References(fields[f]) \subseteq (IF f = "cmdStop" THEN {"PID"} ELSE {})
    /\ \A i \in DOMAIN fields["proxy"] : fields["proxy"][i] # BadURL

Aliases(doc, id) == Range(doc.models[id].aliases)

aliasesLoad(doc) ==
    /\ \A id \in DOMAIN doc.models : IsInjective(doc.models[id].aliases)
    /\ \A id, jd \in DOMAIN doc.models : id # jd => Aliases(doc, id) \cap Aliases(doc, jd) = {}

\* A model's own name wins over an alias.
RealModelName(doc, search) ==
    IF search \in DOMAIN doc.models THEN {search}
    ELSE {id \in DOMAIN doc.models : search \in Aliases(doc, id)}

\* The models no group of the document names form the default group, which
\* replaces a group of that name.
AddDefaultGroupToConfig(doc) ==
    LET grouped == UNION {Range(doc.groups[g]) : g \in DOMAIN doc.groups}
        ungrouped == FlattenSeq([i \in DOMAIN ModelOrder |->
                        IF ModelOrder[i] \in DOMAIN doc.models \ grouped THEN <<ModelOrder[i]>> ELSE << >>])
    IN  [g \in DOMAIN doc.groups \cup {DefaultGroup} |->
            IF g = DefaultGroup THEN ungrouped ELSE doc.groups[g]]

groupsLoad(groups) ==
    /\ \A g \in DOMAIN groups : IsInjective(groups[g])
    /\ \A g, h \in DOMAIN groups : g # h => Range(groups[g]) \cap Range(groups[h]) = {}

ratesLoad(rates) ==
    \A r \in rates : /\ r.model # ""
                     /\ r.inputPer1k >= 0 /\ r.outputPer1k >= 0 /\ r.maxOutputTokens > 0

\* A peer's texts take the global macros only.
peerLoads(doc, peer) ==
    /\ peer.models # {} /\ peer.modalities \subseteq peer.models
    /\ \A i \in DOMAIN peer.texts : References(SubstituteMacros(peer.texts[i], doc.macros)) = {}

\* LoadConfig returns no error.
Loads(doc) ==
    /\ doc.env \subseteq Environment
    /\ doc.startPort >= 1
    /\ doc.logToStdout \in {"proxy", "upstream", "both", "none"}
    /\ aliasesLoad(doc)
    /\ \A i \in DOMAIN doc.macros : validateMacro(doc.macros[i])
    /\ \A id \in DOMAIN doc.models : modelLoads(doc, id)
    /\ groupsLoad(AddDefaultGroupToConfig(doc))
    /\ \A i \in DOMAIN doc.apiKeys : doc.apiKeys[i] \notin {"", "with space"}
    /\ ratesLoad(doc.creditRates)
    /\ \A p \in doc.peers : peerLoads(doc, p)

\* The configuration LoadConfig returns for a document that loads.
Loaded(doc) ==
    [models  |-> [id \in DOMAIN doc.models |-> LoadModel(doc, id)],
     groups  |-> AddDefaultGroupToConfig(doc),
     preload |-> FlattenSeq([i \in DOMAIN doc.preload |->
                               SetToSeq(RealModelName(doc, doc.preload[i]))])]

\* What yaml.v3 can deliver: sequences, of tokens that are not yet a port.
TextsOf(doc, id) ==
    Range(doc.models[id].fields)
        \cup {macro.value : macro \in Range(doc.macros) \cup Range(doc.models[id].macros)}

IsDocument(doc) ==
    /\ doc.startPort \in Int /\ IsSequence(doc.macros)
    /\ DOMAIN doc.models \subseteq Range(ModelOrder)
    /\ \A id \in DOMAIN doc.models :
          /\ DOMAIN doc.models[id].fields = Fields /\ IsSequence(doc.models[id].macros)
          /\ \A text \in TextsOf(doc, id) :
                IsSequence(text) /\ \A i \in DOMAIN text : text[i][1] # "port"
-----------------------------------------------------------------------------
(***************************************************************************)
(* What the documentation promises of a loaded configuration, defined      *)
(* without the order in which the loader works.                            *)
(***************************************************************************)
Names(macros) == {macro.name : macro \in macros}

\* The macros of a model: its own ones override the global ones.
InForce(doc, id) ==
    LET own == Range(doc.models[id].macros)
    IN  {ModelID(id)} \cup own \cup {macro \in Range(doc.macros) : macro.name \notin Names(own)}

\* The text with every reference to a macro replaced by the macro's value.
Expanded(macros, text) ==
    FlattenSeq([i \in DOMAIN text |->
        IF \E macro \in macros : text[i] = Ref(macro.name)
        THEN (CHOOSE macro \in macros : text[i] = Ref(macro.name)).value ELSE <<text[i]>>])

\* As deep as macros can nest.
FullExpansion(macros, text) ==
    LET expand[k \in 0 .. Cardinality(macros)] ==
            IF k = 0 THEN text ELSE Expanded(macros, expand[k - 1])
    IN  expand[Cardinality(macros)]

\* The ports that stand in a loaded model's fields.
PortsOf(fields) == {t[2] : t \in {u \in UNION {Range(fields[f]) : f \in Fields} : u[1] = "port"}}

\* Every model belongs to exactly one group, unless the document lists it under
\* "(default)", which is overwritten; and no two models have the same port, nor one
\* model two.
Reachable(doc) ==
    LET loaded == Loaded(doc)
        hidden == IF DefaultGroup \in DOMAIN doc.groups THEN Range(doc.groups[DefaultGroup]) ELSE {}
    IN  \A id \in DOMAIN loaded.models :
            /\ id \notin hidden =>
                  Cardinality({g \in DOMAIN loaded.groups : id \in Range(loaded.groups[g])}) = 1
            /\ Cardinality(PortsOf(loaded.models[id])) <= 1
            /\ \A jd \in DOMAIN loaded.models :
                  id # jd => PortsOf(loaded.models[id]) \cap PortsOf(loaded.models[jd]) = {}

\* The names of macros are valid, and none is taken twice in a list.
MacrosAreSound(doc, id) ==
    \A list \in {doc.macros, doc.models[id].macros} :
        \A i, j \in DOMAIN list :
            validateMacro(list[i]) /\ (list[i].name = list[j].name => i = j)

\* docs/configuration.md: "macros can contain other macros, but they must be
\* defined before they are used".  A model macro takes the place of the global
\* macro it overrides, so it may be too early for what it refers to.
UsedTooEarly(doc, id) ==
    LET macros == mergedMacros(doc, id) IN
    \E i, j \in DOMAIN macros : j >= i /\ macros[j].name \in References(macros[i].value)
=============================================================================

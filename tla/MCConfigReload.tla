--------------------------- MODULE MCConfigReload ---------------------------
(***************************************************************************)
(* TLC instance of the server's main program with the configuration loader.*)
(* The program starts from every document below; each family varies one    *)
(* part of a document and leaves the others as in Base.                    *)
(***************************************************************************)
EXTENDS ServedConfig, TLC

m == "m"
n == "n"
TheOrder == <<m, n>>

Model(cmd, macros) ==
    [fields  |-> [f \in Fields |-> IF f = "cmd" THEN cmd ELSE << >>],
     macros  |-> macros,
     aliases |-> << >>]

Base ==
    [env |-> {}, startPort |-> 2, logToStdout |-> "proxy", macros |-> << >>,
     models |-> (m :> Model(<<Ref("PORT")>>, << >>)),
     groups |-> << >>, preload |-> << >>, apiKeys |-> << >>, creditRates |-> {}, peers |-> {}]

\* Two documents that load and one that does not, for the edits.
Second == [Base EXCEPT !.startPort = 3]
Broken == [Base EXCEPT !.startPort = 0]
TheEdits == {Base, Second, Broken}

\* Macros: up to two global ones and two of the model, in any order, that use each other.
Values == {<<Lit("x")>>, <<Ref("A")>>, <<Lit("x"), Ref("B")>>, <<Ref("PORT"), Ref("MODEL_ID")>>}
MacroLists ==
    LET entry == [name : {"A", "B"}, value : Values]
    IN  {<< >>} \cup {<<e>> : e \in entry}
            \cup {<<e, f>> : e \in entry, f \in entry} 
MacroDocs ==
    {[Base EXCEPT !.macros = g, !.models = (m :> Model(<<Ref("A"), Comment("C")>>, l))] :
        g \in {h \in MacroLists : Cardinality(Names(Range(h))) = Len(h)},
        l \in {h \in MacroLists : Cardinality(Names(Range(h))) = Len(h)}}

\* Ports: two models that use a port in some of their fields.
PortTexts == {<< >>, <<Ref("PORT")>>, <<Lit("x"), Ref("PID")>>}
PortModels ==
    {[Model(c, << >>) EXCEPT !.fields = [@ EXCEPT !["proxy"] = p, !["cmdStop"] = s]] :
        c \in PortTexts, p \in PortTexts \cup {<<BadURL>>}, s \in PortTexts}
PortDocs == {[Base EXCEPT !.models = (m :> x) @@ (n :> y)] : x \in PortModels, y \in PortModels}

\* Groups: two models, listed under up to two groups, one of which may be the default one.
MemberLists == {<< >>, <<m>>, <<n>>, <<m, n>>, <<m, m>>, <<"alias">>}
GroupSets ==
    {<< >>} \cup {(g :> l) : g \in {"g", DefaultGroup}, l \in MemberLists}
        \cup {("g" :> k) @@ (h :> l) : h \in {"h", DefaultGroup}, k \in MemberLists, l \in MemberLists}
GroupDocs ==
    {[Base EXCEPT !.models = (m :> [Model(<<Ref("PORT")>>, << >>) EXCEPT !.aliases = a])
                             @@ (n :> [Model(<<Ref("PORT")>>, << >>) EXCEPT !.aliases = b]),
                  !.groups = g] :
        a \in {<< >>, <<"alias">>, <<n>>}, b \in {<< >>, <<"alias">>}, g \in GroupSets}

Rate(model, max) == [model |-> model, inputPer1k |-> 1, outputPer1k |-> 1, maxOutputTokens |-> max]

\* The remaining checks, one document each.
OtherDocs ==
    {[Base EXCEPT !.env = {"UNSET"}], [Base EXCEPT !.env = {"SET"}],
     [Base EXCEPT !.logToStdout = "file"],
     [Base EXCEPT !.macros = <<[name |-> "PORT", value |-> <<Lit("x")>>]>>],
     [Base EXCEPT !.macros = <<[name |-> "no name!", value |-> <<Lit("x")>>]>>],
     [Base EXCEPT !.macros = <<[name |-> "A", value |-> <<Ref("PID")>>],
                               [name |-> "PID", value |-> <<Lit("x")>>]>>,
                  !.models = (m :> [Model(<<Ref("PORT")>>, << >>)
                                       EXCEPT !.fields = [@ EXCEPT !["cmdStop"] = <<Ref("A")>>]])],
     [Base EXCEPT !.macros = <<[name |-> "A", value |-> <<Lit("x")>>],
                               [name |-> "A", value |-> <<Lit("y")>>]>>,
                  !.models = (m :> Model(<<Ref("A")>>, << >>))],
     [Base EXCEPT !.preload = <<m, "alias", "nobody">>],
     [Base EXCEPT !.apiKeys = <<"key", "">>], [Base EXCEPT !.apiKeys = <<"key">>],
     [Base EXCEPT !.creditRates = {Rate(m, 0)}], [Base EXCEPT !.creditRates = {Rate(m, 1)}],
     [Base EXCEPT !.creditRates = {Rate("", 1)}]}
        \cup {[Base EXCEPT !.macros = <<[name |-> "A", value |-> v]>>,
                           !.peers = {[models |-> {m}, modalities |-> o, texts |-> <<<<Ref("A")>>>>]}] :
                 v \in Values, o \in {{}, {m}, {n}}}

\* Each document with the loader's verdict, so that TLC loads it once.
Judged(docs) == {[doc |-> d, loads |-> Loads(d)] : d \in docs}
Verdict(d) == d.loads
AllDocs == Judged(TheEdits \cup MacroDocs \cup PortDocs \cup GroupDocs \cup OtherDocs)
EditedDocs == Judged(TheEdits)
=============================================================================

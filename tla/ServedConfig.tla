---------------------------- MODULE ServedConfig ----------------------------
(***************************************************************************)
(* The server's main program with the loader of its configuration: the     *)
(* file holds a document, and a load succeeds when LoadConfig returns no   *)
(* error for it.                                                           *)
(***************************************************************************)
EXTENDS ConfigReload, Config

ASSUME ServedAssumption ==
    \A d \in Docs : IsDocument(d.doc) /\ (LoadSucceeds(d) <=> Loads(d.doc))

\* One pass from the last macro to the first yields what the macros mean, with the
\* model's own overriding the global ones: in every document that loads, and in
\* every document whose macros are defined before they are used.  In cmdStop the
\* loader takes a reference that is left to a macro PID for the process ID.
ExpansionIsFull ==
    phase = "boot" =>
        \A id \in DOMAIN file.doc.models, f \in Fields :
            /\ MacrosAreSound(file.doc, id)
            /\ \/ LoadSucceeds(file) /\ (f = "cmdStop" => "PID" \notin Names(InForce(file.doc, id)))
               \/ ~UsedTooEarly(file.doc, id)
            => Substituted(file.doc, id)[f] =
                  FullExpansion(InForce(file.doc, id), Uncommented(file.doc, id, f))

\* Every model of the configuration that is served can be reached: it has its group
\* and a port of its own (AddDefaultGroupToConfig, nextPort).  Overlapping reloads
\* may serve the zero Config of a failed load.
ModelsAreReachable ==
    handler # 0 /\ "reloads" \notin overlap => Reachable(config[handler].doc)
=============================================================================

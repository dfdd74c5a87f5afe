---------------------- MODULE MCDataflowWorkerClient ------------------------
(* The client and its worker for TLC: a short life of a workspace.         *)
EXTENDS DataflowWorkerClient

CONSTANT f1

Op(kind, file, unsaved, admitted) ==
    [kind |-> kind, file |-> file, unsaved |-> unsaved, admitted |-> admitted]

Index == Op("initializeWorkspace", NoFile, FALSE, TRUE)
Query == Op("query", NoFile, FALSE, TRUE)
Configure == Op("configure", NoFile, FALSE, TRUE)
Save(x) == Op("updateFile", x, FALSE, TRUE)
Type(x) == Op("updateFile", x, TRUE, TRUE)
Outgrow(x) == Op("updateFile", x, FALSE, FALSE)
Delete(x) == Op("removeFile", x, FALSE, TRUE)

MCCall == 1..3
MCOps == <<{Index},
           {Index, Query, Type(f1), Delete(f1)},
           {Save(f1), Configure, Outgrow(f1), Delete(f1)}>>

=============================================================================

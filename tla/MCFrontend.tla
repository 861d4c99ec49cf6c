----------------------------- MODULE MCFrontend -----------------------------
(* The service as clients and the application meet it: its configuration   *)
(* and cached documents, the routes of requests, the model its types make, *)
(* and the two metadata documents of a registered model.  Each is          *)
(* independent of the others, so a behaviour has one of them.              *)
EXTENDS MCRouter, MCEntityModel, Service, MetadataDocument, TLC

VARIABLES part

Documents == INSTANCE MCMetadataDocument WITH Models <- {}

MCModels == Documents!MCModels
MCOperations == {[name |-> "Top", set |-> "Products"]}
ReaderSymmetry == Permutations(Readers)

FrontendInit ==
  /\ part \in {"service", "router", "metadata", "model"}
  /\ Init /\ RouterInit /\ MetadataInit /\ ModelInit
ServiceStep == part = "service" /\ Next /\ UNCHANGED <<part, routerVars, metadataVars, modelVars>>
RouterStep == part = "router" /\ RouterNext /\ UNCHANGED <<part, vars, metadataVars, modelVars>>
MetadataStep == part = "metadata" /\ MetadataNext /\ UNCHANGED <<part, vars, routerVars, modelVars>>
ModelStep == part = "model" /\ ModelNext /\ UNCHANGED <<part, vars, routerVars, metadataVars>>
FrontendNext == ServiceStep \/ RouterStep \/ MetadataStep \/ ModelStep
FrontendSpec == FrontendInit /\ [][FrontendNext]_<<part, vars, routerVars, metadataVars, modelVars>>
=============================================================================

------------------------------- MODULE HTTPService -------------------------------
(****************************************************************************)
(* The server's HTTP interface at three depths, one of them at a time: a    *)
(* resource and clients of other versions (Rest), the requests of one       *)
(* resource, the GDM, step by step against its store (GDMService), and what *)
(* such a request makes of the manifests (Manifests).                       *)
(****************************************************************************)
EXTENDS Deployments

CONSTANTS
    Users, Names, Values, Valid, MaxCommands, MaxFaults,            \* of GDMService
    InitialManifests, InitialDefs, Written, ClusterDefaults, Versions, MaxChanges,
    Clients, Schema, Documents, Resources, MaxRequests                   \* of Rest

VARIABLES
    part,
    gdm, rev, client, reply, last, begun, faults,
    ms, defs, updater, changes,
    caps, doc, held, answer, requests

GDM == INSTANCE GDMService
    WITH Clients <- Users, Manifests <- Names, MaxRequests <- MaxCommands
Content == INSTANCE Manifests WITH client <- updater
Resource == INSTANCE Rest WITH reply <- answer, Docs <- Documents

ASSUME GDMAssumption == GDM!ServiceAssumption
ASSUME ContentAssumed == Content!ContentAssumption
ASSUME ResourceAssumption == Resource!SchemaAssumption

gdmVars == <<gdm, rev, client, reply, last, begun, faults>>
contentVars == <<ms, defs, updater, changes>>
resourceVars == <<caps, doc, held, answer, requests>>
vars == <<part, gdmVars, contentVars, resourceVars>>

(* What is not at work stays in one of its initial states.                  *)
Init ==
    /\ part \in {"gdm", "content", "resource"}
    /\ GDM!Init /\ Content!Init /\ Resource!Init
    /\ part # "gdm" => gdm = GDM!Empty
    /\ part # "resource" => caps = {"put"} /\ doc = Resource!Absent

Next ==
    /\ UNCHANGED part
    /\ \/ part = "gdm" /\ GDM!Next /\ UNCHANGED <<contentVars, resourceVars>>
       \/ part = "content" /\ Content!Next /\ UNCHANGED <<gdmVars, resourceVars>>
       \/ part = "resource" /\ Resource!Next /\ UNCHANGED <<gdmVars, contentVars>>

Spec == Init /\ [][Next]_vars

----------------------------------------------------------------------------
(* Properties.                                                              *)

(* What a PUT /manifest replaces is what its client had read, and a stale   *)
(* PUT /gdm is stopped by the check of its files if it has a change of its  *)
(* own to make (handle_manifest.go, handle_gdm.go, router.go).              *)
ReplacesSeen == GDM!ReplacesSeen

(* An update of a deployment changes its version and nothing else that is   *)
(* written (map_state_to_deployments.go).                                   *)
OnlyTheVersion == Content!OnlyTheVersion

(* A client changes what it knows of a document, and keeps the rest         *)
(* (putbackjson.go).                                                        *)
PutbackIsExact == Resource!PutbackIsExact
=============================================================================

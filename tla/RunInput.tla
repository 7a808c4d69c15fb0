------------------------------ MODULE RunInput ------------------------------
(***************************************************************************)
(* What OpenAPIConnectorInput asks for, as run() (app/connector.py) reads  *)
(* it before any activity: the connection, the place of the spec and the   *)
(* credential that opens it.                                               *)
(*                                                                         *)
(* A credential that carries key or role auth is named by the customer's   *)
(* store it opens; any other is "bare". A qualified name is a sequence.    *)
(***************************************************************************)
CONSTANTS None,     \* an absent value
          Stores    \* customers' object stores

ResolvedQN(in) == IF in.connection_usage = "REUSE"
                  THEN in.connection_qualified_name
                  ELSE in.connection

\* "{{connection_qualified_name}}": a manifest template nobody substituted.
Placeholder == <<"{{connection_qualified_name}}">>

ConnectionMissing(in) ==
    \/ ResolvedQN(in) = <<>>
    \/ in.connection_usage = "REUSE" /\ ResolvedQN(in) = Placeholder

\* route_credentials: a pre-built reference wins, then agent_json or
\* credential_guid; agent mode with an empty agent_json is "misrouted".
Routed(in) == IF in.openapi_credential # None THEN in.openapi_credential
                                              ELSE in.agent

InputError(in) ==
    IF ConnectionMissing(in) THEN "ConnectionRequired" ELSE
    CASE in.import_type = "CLOUD" /\ in.location = None
                                             -> "CloudSpecLocationRequired"
      [] in.import_type = "CLOUD" /\ in.location # None
           /\ Routed(in) = "misrouted"        -> "CredentialRouting"
      [] in.import_type = "URL" /\ in.spec_url = None -> "SpecUrlRequired"
      [] in.import_type \notin {"CLOUD", "URL"}       -> "UnknownImportType"
      [] OTHER                                        -> None

\* Mutant: the Connection row is emitted on REUSE too.
ResolvedConnection_AlwaysEmits(in) == [qn        |-> ResolvedQN(in),
                                       emit      |-> TRUE,
                                       assertion |-> in.connection_usage = "REUSE"]

\* Mutant: the Connection row is left to the publish app.
ResolvedConnection_NeverEmits(in) == [qn        |-> ResolvedQN(in),
                                      emit      |-> FALSE,
                                      assertion |-> in.connection_usage = "REUSE"]

ResolvedConnection(in) == [qn        |-> ResolvedQN(in),
                           emit      |-> in.connection_usage # "REUSE",
                           assertion |-> in.connection_usage = "REUSE"]

(***************************************************************************)
(* The credential the download resolves: the routed reference, else the    *)
(* legacy cloud_source GUID. Only one that carries key or role auth opens  *)
(* the customer's store; any other falls back to the tenant's.             *)
(***************************************************************************)
Credential(in) == IF Routed(in) # None THEN Routed(in) ELSE in.cloud_source

StoreRead(in) == IF Credential(in) \in Stores THEN Credential(in) ELSE "tenant"

\* What building the client, or classify_store_failure, makes of a refusal.
StoreErrors == {"ObjectStoreCredential", "CredentialRejected", "AccessDenied",
                "CloudSpecNotFound"}
=============================================================================

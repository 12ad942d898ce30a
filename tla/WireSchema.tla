----------------------------- MODULE WireSchema -----------------------------
(***************************************************************************)
(* The types of A2A v1.0 as src/adapters/a2a/serialize.ts puts them into   *)
(* JSON and reads them back: for each type its fields, for each field the  *)
(* keys it is written under and the keys it is looked for under.           *)
(***************************************************************************)

(***************************************************************************)
(* Fields.  kind is the JSON type that is looked for, "one", "many" or     *)
(* "map" for values of another type.  need: a "must" has a default, a      *)
(* "may" can be undefined, a "shown" too but is written as its default     *)
(* then, a "some" is an array written only if it is not empty, an "all"    *)
(* one that is always written.  key: what it is written under here; camel  *)
(* and snake: what it is looked for under; also: a second key tried where  *)
(* the first ones held nothing of the kind; sent: what a peer of v1.0      *)
(* writes it under in camelCase.                                           *)
(***************************************************************************)
Field(n, s, k, t, need) ==
  [name |-> n, key |-> n, camel |-> n, snake |-> s, also |-> s, sent |-> n,
   kind |-> k, of |-> t, need |-> need]

Must(n, s, k) == Field(n, s, k, "", "must")
May(n, s, k)  == Field(n, s, k, "", "may")
One(n, s, t)  == Field(n, s, "one", t, "must")
Opt(n, s, t)  == Field(n, s, "one", t, "may")
Some(n, s, t) == Field(n, s, "many", t, "some")
All(n, s, t)  == Field(n, s, "many", t, "all")

Under(k, f) == [f EXCEPT !.key = k]
Snaked(f)   == Under(f.snake, f)

Metadata == May("metadata", "metadata", "object")
Id       == Must("id", "id", "string")
TaskId   == Must("taskId", "task_id", "string")

-----------------------------------------------------------------------------
(* Messages and tasks.                                                     *)

TextPart == {Must("text", "text", "string")}
RawPart  == {Must("raw", "raw", "string")}
DataPart == {Must("data", "data", "any")}
\* camel are the keys of the old form.  Nobody looks for mediaType.
FilePart ==
  {[Under("filename", Must("name", "filename", "string")) EXCEPT !.sent = "filename"],
   [Under("media_type", Must("mimeType", "media_type", "string"))
      EXCEPT !.sent = "mediaType"],
   May("bytes", "bytes", "string"),
   [Under("url", Field("uri", "url", "string", "", "shown")) EXCEPT !.sent = "url"]}
FunctionCall     == {Id, Must("name", "name", "string"),
                     Must("args", "args", "object")}
FunctionResponse == {Id, Must("name", "name", "string"),
                     Must("response", "response", "any")}

Message ==
  {Must("role", "role", "role"), Must("messageId", "message_id", "string"),
   May("contextId", "context_id", "string"), May("taskId", "task_id", "string"),
   All("parts", "parts", "Part"), Metadata,
   Some("extensions", "extensions", "string"),
   Some("referenceTaskIds", "reference_task_ids", "string")}

TaskStatus == {Must("state", "state", "state"), Opt("message", "message", "Message"),
               May("timestamp", "timestamp", "string")}

Artifact ==
  {Must("artifactId", "artifact_id", "string"), May("name", "name", "string"),
   May("description", "description", "string"), All("parts", "parts", "Part"),
   Metadata, Some("extensions", "extensions", "string")}

Task ==
  {[Under("id", Must("taskId", "id", "string")) EXCEPT !.also = "task_id"],
   May("contextId", "context_id", "string"), One("status", "status", "TaskStatus"),
   Some("history", "history", "Message"), Some("artifacts", "artifacts", "Artifact"),
   Metadata}

Authentication == {All("schemes", "schemes", "string"),
                   May("credentials", "credentials", "string")}

TaskPushNotificationConfig ==
  {Id, TaskId, Must("url", "url", "string"), May("token", "token", "string"),
   Opt("authentication", "authentication", "Authentication"),
   May("tenant", "tenant", "string")}

SendMessageConfiguration ==
  {Some("acceptedOutputModes", "accepted_output_modes", "string"),
   Opt("taskPushNotificationConfig", "task_push_notification_config",
       "TaskPushNotificationConfig"),
   May("historyLength", "history_length", "number"),
   May("returnImmediately", "return_immediately", "boolean")}

SendMessageRequest ==
  {One("message", "message", "Message"),
   May("notificationUrl", "notification_url", "string"),
   Under("configuration", Opt("sendMessageConfiguration", "configuration",
                              "SendMessageConfiguration")),
   Metadata}

SendMessageResponse == {Opt("task", "task", "Task"), Opt("message", "message", "Message")}

TaskStatusUpdateEvent ==
  {TaskId, Must("contextId", "context_id", "string"),
   One("status", "status", "TaskStatus"), May("final", "final", "boolean"), Metadata}

TaskArtifactUpdateEvent ==
  {TaskId, Must("contextId", "context_id", "string"),
   One("artifact", "artifact", "Artifact"), May("append", "append", "boolean"),
   May("lastChunk", "last_chunk", "boolean"), Metadata}

RpcError == {Must("code", "code", "number"), Must("message", "message", "string")}
JsonRpcResponse == {May("result", "result", "any"), Opt("error", "error", "RpcError")}

-----------------------------------------------------------------------------
(* Requests of the other methods, and their responses.                     *)

\* A "filter" is a state that is known by its lower-case name only.
ListTasksRequest ==
  {May("contextId", "context_id", "string"), May("status", "status", "filter"),
   May("pageSize", "page_size", "number"), May("pageToken", "page_token", "string"),
   May("historyLength", "history_length", "number"),
   May("statusTimestampAfter", "status_timestamp_after", "string"),
   May("includeArtifacts", "include_artifacts", "boolean")}

ListTasksResponse ==
  {All("tasks", "tasks", "Task"), May("nextPageToken", "next_page_token", "string"),
   Must("pageSize", "page_size", "number"), Must("totalSize", "total_size", "number")}

GetTaskRequest         == {Id, May("historyLength", "history_length", "number")}
CancelTaskRequest      == {Id, Metadata}
SubscribeToTaskRequest == {Id}

\* To get one, or to delete it.
PushConfigRequest == {TaskId, Id}

ListPushConfigsRequest ==
  {TaskId, May("pageSize", "page_size", "number"),
   May("pageToken", "page_token", "string")}

ListPushConfigsResponse ==
  {All("configs", "configs", "TaskPushNotificationConfig"),
   May("nextPageToken", "next_page_token", "string")}

GetExtendedAgentCardRequest == {May("tenant", "tenant", "string")}

-----------------------------------------------------------------------------
(* Agent cards.                                                            *)

AgentInterface ==
  {Must("url", "url", "string"), Must("protocolBinding", "protocol_binding", "string"),
   Must("protocolVersion", "protocol_version", "string"),
   May("tenant", "tenant", "string")}

AgentProvider == {Must("url", "url", "string"),
                  Must("organization", "organization", "string")}

AgentExtension ==
  {Must("uri", "uri", "string"), Must("description", "description", "string"),
   Must("required", "required", "boolean"), May("params", "params", "object")}

AgentCapabilities ==
  {May("streaming", "streaming", "boolean"),
   May("pushNotifications", "push_notifications", "boolean"),
   Some("extensions", "extensions", "AgentExtension"),
   May("extendedAgentCard", "extended_agent_card", "boolean")}

AgentSkill ==
  {Id, May("name", "name", "string"), May("description", "description", "string"),
   Some("tags", "tags", "string"), Some("examples", "examples", "string"),
   Some("inputModes", "input_modes", "string"),
   Some("outputModes", "output_modes", "string"),
   Some("securityRequirements", "security_requirements", "SecurityRequirement")}

SecurityRequirement == {Must("schemes", "schemes", "lists")}

Description == May("description", "description", "string")

APIKeySecurityScheme == {Description, Must("location", "location", "string"),
                         Must("name", "name", "string")}
HTTPAuthSecurityScheme ==
  {Description, Must("scheme", "scheme", "string"),
   Snaked(May("bearerFormat", "bearer_format", "string"))}
OAuth2SecurityScheme ==
  {Description, One("flows", "flows", "OAuthFlows"),
   Snaked(May("oauth2MetadataUrl", "oauth2_metadata_url", "string"))}
OpenIdConnectSecurityScheme ==
  {Description, Snaked(Must("openIdConnectUrl", "open_id_connect_url", "string"))}
MutualTlsSecurityScheme == {Description}

OAuthFlows ==
  {Snaked(Opt("authorizationCode", "authorization_code", "AuthorizationCodeFlow")),
   Snaked(Opt("clientCredentials", "client_credentials", "ClientCredentialsFlow")),
   Opt("implicit", "implicit", "ImplicitFlow"),
   Opt("password", "password", "PasswordFlow"),
   Snaked(Opt("deviceCode", "device_code", "DeviceCodeFlow"))}

Scopes           == Must("scopes", "scopes", "object")
RefreshUrl       == Snaked(May("refreshUrl", "refresh_url", "string"))
TokenUrl         == Snaked(Must("tokenUrl", "token_url", "string"))
AuthorizationUrl == Snaked(Must("authorizationUrl", "authorization_url", "string"))

AuthorizationCodeFlow ==
  {AuthorizationUrl, TokenUrl, RefreshUrl, Scopes,
   Snaked(May("pkceRequired", "pkce_required", "boolean"))}
ClientCredentialsFlow == {TokenUrl, RefreshUrl, Scopes}
ImplicitFlow          == {AuthorizationUrl, RefreshUrl, Scopes}
PasswordFlow          == {TokenUrl, RefreshUrl, Scopes}
DeviceCodeFlow ==
  {Snaked(Must("deviceAuthorizationUrl", "device_authorization_url", "string")),
   TokenUrl, RefreshUrl, Scopes}

AgentCard ==
  {Must("name", "name", "string"), Description, Must("url", "url", "string"),
   Must("version", "version", "string"),
   All("supportedInterfaces", "supported_interfaces", "AgentInterface"),
   Opt("provider", "provider", "AgentProvider"),
   May("documentationUrl", "documentation_url", "string"),
   Opt("capabilities", "capabilities", "AgentCapabilities"),
   Snaked(Field("securitySchemes", "security_schemes", "map", "SecurityScheme", "may")),
   Snaked(Some("securityRequirements", "security_requirements", "SecurityRequirement")),
   All("defaultInputModes", "default_input_modes", "string"),
   Some("defaultOutputModes", "default_output_modes", "string"),
   Some("skills", "skills", "AgentSkill"),
   Some("signatures", "signatures", "AgentCardSignature"),
   May("iconUrl", "icon_url", "string")}

AgentCardSignature ==
  {Must("protected", "protected", "string"), Must("signature", "signature", "string"),
   May("header", "header", "object")}

ExtendedAgentCard == {Opt("agentCard", "agent_card", "AgentCard")}
=============================================================================

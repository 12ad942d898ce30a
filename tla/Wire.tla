-------------------------------- MODULE Wire --------------------------------
(***************************************************************************)
(* The wire format of A2A v1.0: a value of one of the types of WireSchema  *)
(* is written by this program or by a peer, and read.  The types nest five *)
(* deep, from a list of tasks to the strings beside a part, and none is    *)
(* inside itself, so five levels of WireLevel write and read them all.     *)
(***************************************************************************)
EXTENDS WireSchema

Records ==
  [TextPart |-> TextPart, RawPart |-> RawPart, DataPart |-> DataPart,
   FilePart |-> FilePart, FunctionCall |-> FunctionCall,
   FunctionResponse |-> FunctionResponse, Message |-> Message,
   TaskStatus |-> TaskStatus, Artifact |-> Artifact, Task |-> Task,
   Authentication |-> Authentication,
   TaskPushNotificationConfig |-> TaskPushNotificationConfig,
   SendMessageConfiguration |-> SendMessageConfiguration,
   SendMessageRequest |-> SendMessageRequest,
   SendMessageResponse |-> SendMessageResponse,
   TaskStatusUpdateEvent |-> TaskStatusUpdateEvent,
   TaskArtifactUpdateEvent |-> TaskArtifactUpdateEvent,
   RpcError |-> RpcError, JsonRpcResponse |-> JsonRpcResponse,
   ListTasksRequest |-> ListTasksRequest, ListTasksResponse |-> ListTasksResponse,
   GetTaskRequest |-> GetTaskRequest, CancelTaskRequest |-> CancelTaskRequest,
   SubscribeToTaskRequest |-> SubscribeToTaskRequest,
   PushConfigRequest |-> PushConfigRequest,
   ListPushConfigsRequest |-> ListPushConfigsRequest,
   ListPushConfigsResponse |-> ListPushConfigsResponse,
   GetExtendedAgentCardRequest |-> GetExtendedAgentCardRequest,
   AgentInterface |-> AgentInterface, AgentProvider |-> AgentProvider,
   AgentExtension |-> AgentExtension, AgentCapabilities |-> AgentCapabilities,
   AgentSkill |-> AgentSkill, SecurityRequirement |-> SecurityRequirement,
   APIKeySecurityScheme |-> APIKeySecurityScheme,
   HTTPAuthSecurityScheme |-> HTTPAuthSecurityScheme,
   OAuth2SecurityScheme |-> OAuth2SecurityScheme,
   OpenIdConnectSecurityScheme |-> OpenIdConnectSecurityScheme,
   MutualTlsSecurityScheme |-> MutualTlsSecurityScheme, OAuthFlows |-> OAuthFlows,
   AuthorizationCodeFlow |-> AuthorizationCodeFlow,
   ClientCredentialsFlow |-> ClientCredentialsFlow, ImplicitFlow |-> ImplicitFlow,
   PasswordFlow |-> PasswordFlow, DeviceCodeFlow |-> DeviceCodeFlow,
   AgentCard |-> AgentCard, AgentCardSignature |-> AgentCardSignature,
   ExtendedAgentCard |-> ExtendedAgentCard]

\* A variant: its tag, the key it is written under, the keys it is recognised
\* by, the one a peer writes it under in snake_case, what must be found there,
\* its type, and whether the key holds all of it or is one of its own.
Variant(tag, key, camel, snake, sent, is, t, wrapped) ==
  [tag |-> tag, key |-> key, camel |-> camel, snake |-> snake, sent |-> sent,
   is |-> is, of |-> t, wrapped |-> wrapped]

\* Whatever is there.
Anything == {"string", "number", "boolean", "object", "list", "lists", "any",
             "null", "junk"}

\* In the order they are looked for.
PartVariants ==
  LET Keyed(k, is, tag, t) == Variant(tag, k, k, k, k, is, t, FALSE)
      Function(tag, sent, t) == Variant(tag, tag, tag, tag, sent, {"object"}, t, TRUE)
  IN <<Keyed("text", {"string"}, "text", "TextPart"),
       Keyed("raw", {"string"}, "raw", "RawPart"),
       Variant("file", "file", "url", "url", "url", {"string"}, "FilePart", FALSE),
       Keyed("data", {"any", "null"}, "data", "DataPart"),
       Function("functionCall", "function_call", "FunctionCall"),
       Function("functionResponse", "function_response", "FunctionResponse")>>

StreamVariants ==
  LET V(tag, snake, t) == Variant(tag, tag, tag, snake, snake, Anything, t, TRUE) IN
  <<V("task", "task", "Task"), V("message", "message", "Message"),
    V("statusUpdate", "status_update", "TaskStatusUpdateEvent"),
    V("artifactUpdate", "artifact_update", "TaskArtifactUpdateEvent"),
    V("jsonRpcResponse", "json_rpc_response", "JsonRpcResponse")>>

SchemeVariants ==
  LET V(tag, camel, snake, t) ==
        Variant(tag, snake, camel, snake, snake, Anything, t, TRUE) IN
  <<V("apiKey", "apiKeySecurityScheme", "api_key_security_scheme",
      "APIKeySecurityScheme"),
    V("http", "httpAuthSecurityScheme", "http_auth_security_scheme",
      "HTTPAuthSecurityScheme"),
    V("oauth2", "oauth2SecurityScheme", "oauth2_security_scheme",
      "OAuth2SecurityScheme"),
    V("openIdConnect", "openIdConnectSecurityScheme",
      "open_id_connect_security_scheme", "OpenIdConnectSecurityScheme"),
    V("mutualTls", "mutualTlsSecurityScheme", "mtls_security_scheme",
      "MutualTlsSecurityScheme")>>

Unions == [Part |-> PartVariants, StreamResponse |-> StreamVariants,
           SecurityScheme |-> SchemeVariants]

Types == DOMAIN Records \cup DOMAIN Unions

-----------------------------------------------------------------------------
(* The levels.  Innermost are strings, which are written as they are.      *)

StringToWire(t, x, spelling) == x
StringFromWire(t, raw) == raw
StringAsRead(t, x, spelling) == x
IsString(t, x) ==
  /\ t = "string"
  /\ x \in {[is |-> "string", v |-> "default"], [is |-> "string", v |-> "given"]}

Level1 == INSTANCE WireLevel WITH
  ToInner <- StringToWire, FromInner <- StringFromWire, InnerAsRead <- StringAsRead, InnerValue <- IsString
Level2 == INSTANCE WireLevel WITH
  ToInner <- Level1!ToWire, FromInner <- Level1!FromWire,
  InnerAsRead <- Level1!AsRead, InnerValue <- Level1!IsValue
Level3 == INSTANCE WireLevel WITH
  ToInner <- Level2!ToWire, FromInner <- Level2!FromWire,
  InnerAsRead <- Level2!AsRead, InnerValue <- Level2!IsValue
Level4 == INSTANCE WireLevel WITH
  ToInner <- Level3!ToWire, FromInner <- Level3!FromWire,
  InnerAsRead <- Level3!AsRead, InnerValue <- Level3!IsValue
Format == INSTANCE WireLevel WITH
  ToInner <- Level4!ToWire, FromInner <- Level4!FromWire,
  InnerAsRead <- Level4!AsRead, InnerValue <- Level4!IsValue

ASSUME SchemaAssumption == Format!SchemaInOrder

-----------------------------------------------------------------------------
(* Letters.                                                                *)

CONSTANT Letters    \* of each type, the values that are sent

ASSUME LettersAssumption ==
  \A t \in Types : \A x \in Letters[t] : Format!IsValue(t, x)

VARIABLE letter

WireInit == letter = [at |-> "desk"]

WriteLetter ==
  /\ letter.at = "desk"
  /\ \E t \in Types, spelling \in Format!Spellings : \E x \in Letters[t] :
       letter' = [at |-> "sent", type |-> t, spelling |-> spelling, value |-> x,
                  damaged |-> "", wire |-> Format!ToWire(t, x, spelling)]

\* One field of a peer's letter holds something of another type.
DamageLetter ==
  /\ letter.at = "sent" /\ letter.spelling = "camel" /\ letter.damaged = ""
  /\ letter.type \in DOMAIN Records
  /\ \E f \in Records[letter.type] :
       /\ f.kind # "any"
       /\ letter' = [letter EXCEPT !.damaged = f.name,
                       !.wire = Format!Damaged(letter.wire, f)]

ReadLetter ==
  /\ letter.at = "sent"
  /\ letter' = [at |-> "read", type |-> letter.type, spelling |-> letter.spelling,
                value |-> letter.value, damaged |-> letter.damaged,
                got |-> Format!FromWire(letter.type, letter.wire)]

WireNext == WriteLetter \/ DamageLetter \/ ReadLetter

WireSpec == WireInit /\ [][WireNext]_letter

-----------------------------------------------------------------------------
(***************************************************************************)
(* A value is read as it was written, whatever optional fields it holds    *)
(* and whoever wrote it in whichever spelling, but for five losses, which  *)
(* AsRead names, and a field that cannot be read costs that field alone,   *)
(* which is as if it had not been sent, unless it is a value of another    *)
(* type that cannot be left out: then all is refused (serialize.ts,        *)
(* fromWire and toWire of each type).                                      *)
(***************************************************************************)
ReadAsWritten ==
  letter.at = "read" =>
    letter.got =
      IF letter.damaged = ""
        THEN Format!AsRead(letter.type, letter.value, letter.spelling)
        ELSE Format!RecordAsRead(letter.type, letter.value, "camel", letter.damaged)
=============================================================================

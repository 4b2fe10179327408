----------------------------- MODULE AdminInput -----------------------------
(***************************************************************************)
(* What the admin API accepts: the validators its handlers call before     *)
(* they touch the database.                                                *)
(*                                                                         *)
(* Source: api/admin/mod.rs, validate_provider of api/admin/routes.rs,     *)
(* parse_environment of api/admin/service_accounts.rs, parse_public_key of *)
(* auth/verifier.rs and the enums of types.rs.  A text is what the         *)
(* validators can tell of it: its length in bytes, the kinds of characters *)
(* in it, and the kinds of the first and the last one.  A request body is  *)
(* a record of the fields it has; an absent Option is an absent field.     *)
(***************************************************************************)
EXTENDS Integers

CONSTANT PublicKeys  \* PEM texts that hold an Ed25519 public key

Alphanumeric == {"lower", "upper", "digit"}

validate_name(s) == s.len \in 1..128 /\ "control" \notin s.kinds

validate_model_identifier(s) ==
    s.len \in 1..128 /\ s.kinds \subseteq Alphanumeric \cup {"-", "_", ".", ":", "/"}

validate_key_id(s) == s.len \in 1..128 /\ s.kinds \subseteq Alphanumeric \cup {"-", "_"}

validate_slug(s) ==
    /\ s.len \in 3..63 /\ s.kinds \subseteq {"lower", "digit", "-"}
    /\ s.first = "lower" /\ s.last # "-"

(* A JSON value: "array" or another type, and the set of its items.  An    *)
(* item is a string or not; base is the string without one trailing *.     *)
validate_models_json(v) ==
    /\ v.type = "array"
    /\ \A item \in v.items :
          item.type = "string" /\ (item.base.len = 0 \/ validate_model_identifier(item.base))

MAX_TOKEN_LIMIT == 1000000
validate_token_limit(n) == n \in 1..MAX_TOKEN_LIMIT

MAX_RPM_LIMIT == 100000
MAX_CONCURRENCY_LIMIT == 10000
validate_positive_limit(n, field) ==
    n \in 1..(IF field = "concurrency_limit" THEN MAX_CONCURRENCY_LIMIT ELSE MAX_RPM_LIMIT)

(* serde names of the enums. *)
Environment == {"dev", "staging", "prod"}
Provider == {"openai", "anthropic", "gemini", "azure_openai", "vllm"}
parse_enum_str(s, valid) == s \in valid
parse_environment(s) == parse_enum_str(s, Environment)
validate_provider(s) == parse_enum_str(s, Provider)

parse_public_key(pem) == pem \in PublicKeys

-----------------------------------------------------------------------------
(* The bodies serde decodes: the required fields are there, and what is    *)
(* not a field of the struct is dropped.  tenant_id, metadata and config   *)
(* are not part of a body here.                                            *)
Decodes(body, required, optional) ==
    required \subseteq DOMAIN body /\ DOMAIN body \subseteq required \cup optional

CreateTenantRequest(body) == Decodes(body, {"name", "slug"}, {})
UpdateTenantRequest(body) == Decodes(body, {}, {"name"})
CreateServiceAccountRequest(body) == Decodes(body, {"name", "slug", "environment"}, {"description"})
UpdateServiceAccountRequest(body) == Decodes(body, {}, {"name", "description"})
RegisterKeyRequest(body) == Decodes(body, {"key_id", "public_key_pem"}, {})

PolicyOptions ==
    {"description", "allowed_models_json", "denied_models_json", "max_input_tokens", "max_output_tokens",
     "allow_streaming", "allow_tools", "allow_files", "rpm_limit", "concurrency_limit"}
CreatePolicyRequest(body) == Decodes(body, {"name"}, PolicyOptions)
UpdatePolicyRequest(body) == Decodes(body, {}, PolicyOptions \cup {"name"})

RouteNames == {"model_alias", "provider", "provider_model_name"}
RouteOptions == {"priority", "enabled", "timeout_ms", "max_retries", "retry_backoff_ms"}
CreateRouteRequest(body) == Decodes(body, RouteNames, RouteOptions)
UpdateRouteRequest(body) == Decodes(body, {}, RouteNames \cup RouteOptions)
-----------------------------------------------------------------------------
(* A validator applied to an optional field. *)
Valid(body, field, V(_)) == field \in DOMAIN body => V(body[field])

(* The checks create_policy and update_policy share. *)
ValidPolicy(body) ==
    LET rpm(n) == validate_positive_limit(n, "rpm_limit")
        concurrency(n) == validate_positive_limit(n, "concurrency_limit")
    IN  /\ Valid(body, "name", validate_name)
        /\ Valid(body, "allowed_models_json", validate_models_json)
        /\ Valid(body, "denied_models_json", validate_models_json)
        /\ Valid(body, "max_input_tokens", validate_token_limit)
        /\ Valid(body, "max_output_tokens", validate_token_limit)
        /\ Valid(body, "rpm_limit", rpm) /\ Valid(body, "concurrency_limit", concurrency)

(* The checks create_route and update_route share. *)
ValidRouteBody(body) ==
    /\ Valid(body, "provider", validate_provider)
    /\ Valid(body, "model_alias", validate_model_identifier)
    /\ Valid(body, "provider_model_name", validate_model_identifier)
=============================================================================

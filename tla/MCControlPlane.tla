--------------------------- MODULE MCControlPlane ---------------------------
(* Two tenants.  The first has an account with a key and a bound policy,   *)
(* which is also its default, and a route; the second has an account that  *)
(* this policy may be bound to as well; there is a global route.  In the   *)
(* second database the first tenant is deleted, its account activated      *)
(* again and the key revoked.  Two admins, alike, and a viewer.  The       *)
(* requests hold every handler, with ids that are there, of the other      *)
(* tenant, and that are not there, and bodies on both sides of the         *)
(* validators.                                                             *)
EXTENDS ControlPlane, TLC
CONSTANTS admin1, admin2, viewer
MCRole == [c \in Clients |-> IF c = viewer THEN "viewer" ELSE "admin"]
Admins == Permutations({admin1, admin2})

Word(n) == [len |-> n, kinds |-> {"lower"}, first |-> "lower", last |-> "lower"]
Dashed == [len |-> 3, kinds |-> {"lower", "-"}, first |-> "lower", last |-> "-"]
Long == Word(129)
List(bases) == [type |-> "array", items |-> {[type |-> "string", base |-> b] : b \in bases}]
Mixed == [type |-> "array", items |-> {[type |-> "number", base |-> None]}]

MCDatabases ==
    {[tenants  |-> {[TenantRow(1, [name |-> Word(3), slug |-> Word(3)]) EXCEPT !.status = s[1]],
                    TenantRow(2, [name |-> Word(3), slug |-> Word(4)])},
      accounts |-> {[AccountRow(3, 1, [name |-> Word(3), slug |-> Word(3), environment |-> "prod"])
                        EXCEPT !.default_policy_id = 5],
                    AccountRow(6, 2, [name |-> Word(3), slug |-> Word(4), environment |-> "prod"])},
      keys     |-> {[KeyRow(4, 3, [key_id |-> Word(3), public_key_pem |-> "pem"]) EXCEPT !.status = s[2]]},
      policies |-> {PolicyRow(5, 1, [name |-> Word(3), rpm_limit |-> 10])},
      bindings |-> {[service_account_id |-> 3, policy_id |-> 5]},
      routes   |-> {RouteRow(7, None, [model_alias |-> Word(3), provider |-> "openai", provider_model_name |-> Word(3)]),
                    RouteRow(8, 1, [model_alias |-> Word(3), provider |-> "vllm", provider_model_name |-> Word(3)])}]
     : s \in {<<"active", "active">>, <<"deleted", "revoked">>}}

Req(op, tenant, id, ref, body) == [op |-> op, tenant |-> tenant, id |-> id, ref |-> ref, body |-> body]
NoBody == [name |-> Word(3)]

MCRequests ==
    {Req("get_tenant", None, 9, None, NoBody), Req("get_route", None, 8, None, NoBody)}
    \cup {Req("get_service_account", t, 3, None, NoBody) : t \in {1, 2}}
    \cup {Req("get_policy", t, 5, None, NoBody) : t \in {1, 2}}
    \cup {Req("create_tenant", None, None, None, [name |-> Word(3), slug |-> s]) : s \in {Word(3), Word(5), Dashed}}
    \cup {Req("update_tenant", None, 1, None, [name |-> n]) : n \in {Word(4), Long}}
    \cup {Req("delete_tenant", None, id, None, NoBody) : id \in {1, 9}}
    \cup {Req("create_service_account", x[1], None, None,
              [name |-> Word(3), slug |-> Word(3), environment |-> x[2]]) :
              x \in {<<1, "dev">>, <<2, "dev">>, <<2, "qa">>, <<9, "dev">>}}
    \cup {Req("update_service_account", 1, 3, None, [description |-> Word(4)])}
    \cup {Req("suspend_service_account", t, 3, None, NoBody) : t \in {1, 2}}
    \cup {Req("activate_service_account", 1, 3, None, NoBody)}
    \cup {Req("register_key", None, 3, None, [key_id |-> x[1], public_key_pem |-> x[2]]) :
              x \in {<<Word(3), "pem">>, <<Word(4), "pem">>, <<Word(4), "rsa">>, <<Long, "pem">>}}
    \cup {Req("revoke_key", None, id, 4, NoBody) : id \in {3, 9}}
    \cup {Req("create_policy", 1, None, None, b) : b \in {[name |-> Word(3), denied_models_json |-> List({Word(5)})],
                                                        [name |-> Word(3), denied_models_json |-> Mixed]}}
    \cup {Req("update_policy", 1, 5, None, b) : b \in {[max_input_tokens |-> 8, allow_tools |-> FALSE],
                                                       [concurrency_limit |-> 0], [rpm_limit |-> 100001]}}
    \cup {Req("delete_policy", t, 5, None, NoBody) : t \in {1, 2}}
    \cup {Req("create_binding", None, 6, 5, NoBody), Req("delete_binding", None, 3, 5, NoBody)}
    \cup {Req("create_route", x[1], None, None,
              [model_alias |-> Word(3), provider |-> x[2], provider_model_name |-> Word(3)]) :
              x \in {<<None, "gemini">>, <<None, "acme">>, <<9, "gemini">>}}
    \cup {Req("update_route", None, 8, None, b) : b \in {[enabled |-> FALSE], [provider |-> "acme"]}}
    \cup {Req("delete_route", None, id, None, NoBody) : id \in {8, 9}}
=============================================================================

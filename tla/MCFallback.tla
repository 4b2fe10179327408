----------------------------- MODULE MCFallback -----------------------------
(* Two rows of the tenant's and two global ones that match, one of another *)
(* tenant, one of another alias, one disabled and one misconfigured; every *)
(* subset of them is a table.                                              *)
EXTENDS Fallback

Row(t, a, p, en, retries, base) ==
    [tenant_id |-> t, alias |-> a, priority |-> p, enabled |-> en,
     max_retries |-> retries, timeout_ms |-> 30, retry_backoff_ms |-> base]

MCRoutes ==
    {Row("acme", "smart", 200, TRUE, 1, 4), Row("acme", "smart", 100, TRUE, 0, 1),
     Row("global", "smart", 10, TRUE, 2, 2), Row("global", "smart", 100, TRUE, 1, 0),
     Row("globex", "smart", 1, TRUE, 1, 1), Row("acme", "fast", 1, TRUE, 1, 1),
     Row("acme", "smart", 1, FALSE, 1, 1),
     Row("acme", "smart", 300, TRUE, -1, 1)}
=============================================================================

------------------------------- MODULE MCAuth -------------------------------
(* Two copies of a good message, too old in the last second of the run,    *)
(* and a message from the future, too early in the first, that reuses its  *)
(* nonce and its signature for another path.                               *)
EXTENDS Auth
Intended == <<"POST", "/v1", 0, "n", compute_body_hash("b")>>
Message(path, ts) ==
    [headers |-> AuthHeaders, service_account_id |-> Owner, method |-> "POST", path |-> path,
     timestamp |-> ts, nonce |-> "n", nonce_len |-> 16, body |-> "b",
     body_hash |-> compute_body_hash("b"), signature |-> Intended]
MCSigned == {Intended}
MCMsg == [r \in Requests |-> IF r = "r3" THEN Message("/v2", 3) ELSE Message("/v1", 0)]
=============================================================================

---------------------------- MODULE MCPolicyMerge ----------------------------
(* Policies over two model families: every combination of a model list     *)
(* shape, a limit and a flag setting that the merge can tell apart, a row  *)
(* that cannot be parsed and one with a zero limit.                        *)
EXTENDS PolicyMerge

P(text, wild) == [text |-> text, wild |-> wild]
Gpt == P(<<"g", "p">>, TRUE)
GptMini == P(<<"g", "p", "m">>, FALSE)
Claude == P(<<"c", "l">>, FALSE)
AnyModel == P(<<>>, TRUE)

Limits(in, out) ==
    [f \in LimitFields |-> CASE f = "max_input_tokens" -> in
                             [] f = "max_output_tokens" -> out
                             [] OTHER -> None]
Flags(on) == [f \in FlagFields |-> f \in on]
Row(allowed, denied, in, out, on) ==
    [allowed |-> allowed, denied |-> denied, limits |-> Limits(in, out), flags |-> Flags(on)]

MCPolicyRows ==
    {Row(a, d, in, 2, {"streaming", "tools"}) :
        a \in {{}, {Gpt, Claude}, {GptMini, Claude}, {AnyModel}}, d \in {{}, {Claude}}, in \in {1, 3}}
    \cup {Row({Gpt}, {}, None, out, {"streaming"}) : out \in {None, 1}}
    \cup {Row({}, {GptMini}, None, None, FlagFields),
          Row({}, {Claude}, 2, None, FlagFields),
          Row(Malformed, {}, None, None, FlagFields),
          Row({}, {}, 0, None, FlagFields)}

MCRequests ==
    {[model |-> m, features |-> fs, input |-> in, output |-> out] :
        m \in {<<"g", "p", "m">>, <<"c", "l">>}, fs \in {{}, {"tools"}},
        in \in {None, 2}, out \in {None, 2}}
=============================================================================

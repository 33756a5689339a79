----------------------------- MODULE MCBilling -----------------------------
EXTENDS Billing

Old == <<"gpt", "5">>
New == <<"gpt", "5", "mini">>
Free == <<"local">>

\* Only one has a cached rate; the shorter name is a prefix of the longer.
MCPrices ==
  [m \in {<<"gpt">>, <<"gpt", "5">>} |->
     IF m = <<"gpt">> THEN [Input |-> 7, Cached |-> 0, Output |-> 11]
     ELSE [Input |-> 5, Cached |-> 2, Output |-> 13]]

MCModels == {<< >>, <<"gpt", "4", "o">>}

Line(size, model, in, out, cached) ==
  [size |-> size, model |-> model, hasUsage |-> in + out > 0,
   usage |-> [in |-> in, out |-> out, cached |-> cached]]

\* More cached than input tokens, no details, an unlisted model, no usage.
MCLines ==
  {Line(size, New, 2, 1, 1) : size \in {2, 3}}
  \cup {Line(2, Free, 1, 2, 0), Line(2, << >>, 1, 1, 9), Line(3, Old, 2, 3, None)}
  \cup {Line(1, << >>, 0, 0, None), Line(3, New, 0, 0, None)}

MCResponses ==
  {[format |-> "sse", lines |-> s] :
     s \in UNION {[1 .. n -> MCLines] : n \in 0 .. 3}}
  \cup {[format |-> "json", lines |-> <<l>>] :
     l \in MCLines \cup {Line(7, Old, 3, 1, 2)}}

============================================================================

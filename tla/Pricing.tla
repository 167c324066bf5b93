------------------------------- MODULE Pricing ------------------------------
(***************************************************************************)
(* The price of an LLM call: _cost_usd of llm/openai.py and                *)
(* llm/anthropic.py, and the price tables they read.                       *)
(*                                                                         *)
(* A model name is the sequence of its parts: gpt-4o-mini is               *)
(* <<"gpt-4o", "mini">>, and str.startswith is the prefix of sequences.    *)
(* Prices are in units of 10^-8 USD per token, the smallest the Decimals   *)
(* of the tables need.                                                     *)
(***************************************************************************)
EXTENDS Integers, Sequences, SequencesExt

Price(name, in, out) == [name |-> name, in |-> in, out |-> out]

\* OPENAI_PRICING, in the order of the dict.
OpenAIPricing == <<
    Price(<<"gpt-4o">>,                       250, 1000),
    Price(<<"gpt-4o", "2024-11-20">>,         250, 1000),
    Price(<<"gpt-4o", "2024-08-06">>,         250, 1000),
    Price(<<"gpt-4o", "2024-05-13">>,         500, 1500),
    Price(<<"gpt-4o", "mini">>,                15,   60),
    Price(<<"gpt-4o", "mini", "2024-07-18">>,  15,   60),
    Price(<<"gpt-4.1">>,                      200,  800),
    Price(<<"gpt-4.1", "mini">>,               40,  160),
    Price(<<"gpt-4.1", "nano">>,               10,   40),
    Price(<<"o1">>,                          1500, 6000),
    Price(<<"o1", "mini">>,                   300, 1200) >>

\* ANTHROPIC_PRICING
AnthropicPricing == <<
    Price(<<"claude-opus-4-7">>,             1500, 7500),
    Price(<<"claude-sonnet-4-6">>,            300, 1500),
    Price(<<"claude-haiku-4-5", "20251001">>, 100,  500) >>

Table(provider) == IF provider = "openai" THEN OpenAIPricing ELSE AnthropicPricing

Unknown == Price(<<>>, 0, 0)

\* The first entry of a table whose name passes a test.
First(table, Test(_)) ==
    LET hits == {i \in DOMAIN table : Test(table[i].name)}
    IN  IF hits = {} THEN Unknown ELSE table[CHOOSE i \in hits : \A j \in hits : i <= j]

Listed(table, name) == \E i \in DOMAIN table : table[i].name = name

\* Defect: there is no lookup before the search for a prefix.
OpenAIPrice_PrefixOnly(name) == First(OpenAIPricing, LAMBDA known : IsPrefix(known, name))

\* OPENAI_PRICING.get(model), then the first entry the model starts with.
OpenAIPrice(name) ==
    IF Listed(OpenAIPricing, name)
    THEN First(OpenAIPricing, LAMBDA known : known = name)
    ELSE First(OpenAIPricing, LAMBDA known : IsPrefix(known, name))

\* ANTHROPIC_PRICING.get(model)
AnthropicPrice(name) == First(AnthropicPricing, LAMBDA known : known = name)

\* What the provider says of a call it has answered.
Response(provider, model, in, out) ==
    [provider |-> provider, model |-> model, in |-> in, out |-> out]

Times(price, c) == c.in * price.in + c.out * price.out

\* _cost_usd(response.model, input_tokens, output_tokens)
CostUSD(c) ==
    Times(IF c.provider = "openai" THEN OpenAIPrice(c.model) ELSE AnthropicPrice(c.model), c)
=============================================================================

----------------------------- MODULE MCDataStream -----------------------------
(* Small corpora: documents shorter and longer than a row, ones that fit    *)
(* exactly, conversations that are too long, samples that cannot be         *)
(* processed; one source, or two under either stopping strategy.            *)
EXTENDS DataStream

S(length, prompt) == [length |-> length, prompt |-> prompt]

Source(samples, infinite, streaming) ==
    [samples |-> samples, infinite |-> infinite, streaming |-> streaming]

Run(k, how, sources) == [kind |-> k, strategy |-> how, sources |-> sources]

Corpora(k) ==
    CASE k = "text" -> {<<S(1, 0), S(7, 0)>>, <<S(2, 0), S(2, 0), S(3, 0)>>}
      [] k = "chat" -> {<<S(3, 2), S(2, 1), S(4, 2)>>, <<S(2, 1), S(6, 2), S(3, 1)>>}
      [] k = "mm" -> {<<S(2, 0), S(3, 0), S(1, 0)>>, <<S(1, 0), S(4, 0), S(2, 0), S(0, 0)>>}

Alone(k) ==
    {Run(k, "on_first_exhausted", <<Source(c, infinite, streaming)>>) :
        c \in Corpora(k), infinite \in BOOLEAN, streaming \in BOOLEAN}

\* A short source, finite as the stopping strategies need it, with a longer one.
Pair(k) ==
    CASE k = "text" -> <<Source(<<S(7, 0)>>, FALSE, TRUE), Source(<<S(1, 0), S(9, 0)>>, FALSE, FALSE)>>
      [] k = "chat" -> <<Source(<<S(3, 2), S(3, 1)>>, FALSE, TRUE), Source(<<S(4, 2)>>, FALSE, FALSE)>>

Mixed(k) == {Run(k, how, Pair(k)) : how \in {"on_first_exhausted", "all_exhausted"}}

AllConfigs == Alone("text") \cup Alone("chat") \cup Alone("mm") \cup Mixed("text") \cup Mixed("chat")
=============================================================================

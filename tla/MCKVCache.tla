------------------------------ MODULE MCKVCache ------------------------------
(* Two requests share a prompt of a block and a half, the third one's is its own. *)
EXTENDS KVCache

CONSTANTS r1, r2, r3

MCPrompt == [r \in Requests |-> IF r = r3 THEN <<"q", "q">> ELSE <<"p", "p", "p">>]
MCBatches == <<{r1, r2, r3}, {r1}>>
==============================================================================
